-------------------------- MODULE AnswerGraphProofs --------------------------
(***************************************************************************)
(* Proofs about AnswerGraph for any manuals, builds, budgets and numbers   *)
(* of turns and releases.                                                  *)
(***************************************************************************)
EXTENDS AnswerGraph, TLAPS

Names == {"contextualize", "catalog_lenders", "conversation_history", "resolve_scope",
          "resolve_comparison_scopes", "clarify", "unresolved", "decline", "reuse_evidence",
          "decompose", "retrieve", "plan_comparison", "retrieve_comparison", "rerank",
          "assess_retrieval", "recover", "rerank_comparison", "check_evidence", "generate",
          "review_answer", "revise_answer", "targeted_retrieve", "check_comparison_evidence",
          "generate_comparison", "review_comparison", "revise_comparison",
          "targeted_comparison_retrieve", "finalize"}

Places == Names \cup {"idle", "end"}

\* The nodes, by name.
LEMMA NodesAre == Nodes = Names
  BY DEF Nodes, Edges, Names

\* Every router answers a node or the end.
LEMMA RoutersAnswer ==
  ASSUME NEW s
  PROVE  /\ CorrectionRoute(s) \in {"clarify", "finalize", "revise_answer", "targeted_retrieve"}
         /\ ComparisonRoute(s) \in {"clarify", "finalize", "revise_comparison",
                                    "targeted_comparison_retrieve"}
         /\ AfterContextualize(s) \in {"catalog_lenders", "conversation_history",
                                       "resolve_comparison_scopes", "resolve_scope"}
         /\ AfterScope(s) \in {"clarify", "decline", "unresolved", "reuse_evidence", "decompose"}
         /\ AfterComparisonScope(s) \in {"plan_comparison", "unresolved", "clarify"}
         /\ AfterClarify(s) \in {"resolve_comparison_scopes", "resolve_scope"}
<1>1. CorrectionRoute(s) \in {"clarify", "finalize", "revise_answer", "targeted_retrieve"}
  BY DEF CorrectionRoute, Correct
<1>2. ComparisonRoute(s) \in {"clarify", "finalize", "revise_comparison",
                              "targeted_comparison_retrieve"}
  BY DEF ComparisonRoute, Correct
<1>3. AfterContextualize(s) \in {"catalog_lenders", "conversation_history",
                                 "resolve_comparison_scopes", "resolve_scope"}
  BY DEF AfterContextualize
<1>4. AfterScope(s) \in {"clarify", "decline", "unresolved", "reuse_evidence", "decompose"}
  BY DEF AfterScope, AskOrGiveUp
<1>5. AfterComparisonScope(s) \in {"plan_comparison", "unresolved", "clarify"}
  BY DEF AfterComparisonScope, AskOrGiveUp
<1>6. AfterClarify(s) \in {"resolve_comparison_scopes", "resolve_scope"}
  BY DEF AfterClarify
<1>7. QED BY <1>1, <1>2, <1>3, <1>4, <1>5, <1>6

\* The nodes of a comparison that has been searched.
Comparing == {"rerank_comparison", "check_comparison_evidence", "generate_comparison",
              "review_comparison", "revise_comparison", "targeted_comparison_retrieve"}

\* The nodes that only a question about one manual passes.
Single == {"resolve_scope", "reuse_evidence", "decompose", "retrieve", "rerank",
           "check_evidence", "generate", "review_answer", "revise_answer", "targeted_retrieve",
           "assess_retrieval", "recover"}

\* Comparing nodes have a pool for each of the two manuals, and no other.
SidesInv == node \in Comparing => st.pools \in [st.pair -> SUBSET Chunk]

\* A node that leaves RAGState a RAGState and goes to a node or the end is typed.
LEMMA RanTyped ==
  ASSUME TypeOK, NEW s \in RAGState, NEW n \in Places, Ran(s, n)
  PROVE  TypeOK'
  BY NodesAre DEF TypeOK, Ran, Places, Names, Nodes, Edges

-----------------------------------------------------------------------------
(* The updates of the nodes keep RAGState.                                 *)

\* Sides by scope are PartialSides.
LEMMA SidesType ==
  /\ NoSides \in PartialSides
  /\ \A K \in SUBSET Scopes : \A f \in [K -> SUBSET Chunk] : f \in PartialSides
<1>1. \A K \in SUBSET Scopes : \A f \in [K -> SUBSET Chunk] : f \in PartialSides
  BY DEF PartialSides
<1>2. {} \in SUBSET Scopes /\ NoSides \in [{} -> SUBSET Chunk]
  BY DEF NoSides
<1>3. QED BY <1>1, <1>2

\* A pair is made of scopes.
LEMMA PairType == ASSUME NEW p \in Pairs \cup {{}} PROVE p \in SUBSET Scopes
  BY DEF Pairs

\* The pair of a turn is made of scopes.
LEMMA PairIsScopes == TypeOK => st.pair \in SUBSET Scopes
  BY PairType DEF TypeOK, RAGState

\* What a search finds are chunks.
LEMMA FoundType ==
  ASSUME TypeOK, NEW found \in Found
  PROVE  found \in SUBSET Chunk
  BY DEF TypeOK, RAGState, Found, Chunk

\* A turn begins with a RAGState.
LEMMA FreshType ==
  ASSUME NEW b \in Builds, NEW p \in Scopes \cup {NoScope}
  PROVE  Fresh(b, p) \in RAGState
<1>1. NoSides \in PartialSides
  BY SidesType
<1>2. QED BY <1>1 DEF RAGState, Fresh, Behaviors

\* A draft, a failed call, one more correction.
LEMMA DraftTypes ==
  ASSUME NEW s \in RAGState
  PROVE  /\ \A d \in Drafts(s) : d \in RAGState
         /\ Failed(s) \in RAGState
         /\ [s EXCEPT !.retry = @ + 1] \in RAGState
<1>1. s.drafts + 1 \in Nat /\ s.retry + 1 \in Nat
  <2>1. s.drafts \in Nat /\ s.retry \in Nat
    BY DEF RAGState
  <2>2. QED BY <2>1
<1>2. ASSUME NEW text \in {"draft", ""} PROVE Drafted(s, text) \in RAGState
  BY <1>1 DEF Drafted, RAGState
<1>3. Failed(s) \in RAGState
  BY DEF Failed, RAGState
<1>4. [s EXCEPT !.retry = @ + 1] \in RAGState
  BY <1>1 DEF RAGState
<1>5. QED BY <1>2, <1>3, <1>4 DEF Drafts

\* A verdict, and a search that failed.
LEMMA ReviewTypes ==
  ASSUME NEW s \in RAGState, NEW fault \in {"", "wrong_scope", "empty", "other"},
         NEW v \in {"accept", "revise", "retrieve", "clarify", "stop"}
  PROVE  Judged(s, v, fault) \in RAGState /\ RecoveryFailed(s) \in RAGState
<1>1. s.drafts \in Nat /\ 0 \in Nat
  BY DEF RAGState
<1>2. Judged(s, v, fault) \in RAGState
  <2>1. ASSUME NEW f \in {"", "wrong_scope", "empty", "other"}, NEW n \in Nat
        PROVE  [s EXCEPT !.action = v, !.fault = f, !.approved = n] \in RAGState
    <3>1. v \in {"", "accept", "revise", "retrieve", "clarify", "stop"}
      OBVIOUS
    <3>2. QED BY <3>1, ZenonT(60) DEF RAGState
  <2>2. /\ (IF s.error THEN "other" ELSE fault) \in {"", "wrong_scope", "empty", "other"}
        /\ (IF v = "accept" THEN s.drafts ELSE 0) \in Nat
    BY <1>1
  <2>3. QED BY <2>1, <2>2 DEF Judged
<1>3. RecoveryFailed(s) \in RAGState
  BY DEF RecoveryFailed, RAGState
<1>4. QED BY <1>2, <1>3

\* The faults that are looked for, and what a review makes of them.
LEMMA FaultTypes ==
  ASSUME NEW s
  PROVE  /\ EvidenceFault(s) \in {"", "wrong_scope", "empty"}
         /\ SidesFault(s) \in {"", "wrong_scope", "other"}
         /\ \A f : FaultAction(f) \in {"retrieve", "stop"}
         /\ \A f : Verdicts(s, f) \subseteq {"accept", "revise", "retrieve", "clarify", "stop"}
<1>1. EvidenceFault(s) \in {"", "wrong_scope", "empty"}
  BY DEF EvidenceFault
<1>2. SidesFault(s) \in {"", "wrong_scope", "other"}
  BY DEF SidesFault
<1>3. \A f : FaultAction(f) \in {"retrieve", "stop"}
  BY DEF FaultAction
<1>4. ASSUME NEW f
      PROVE  Verdicts(s, f) \subseteq {"accept", "revise", "retrieve", "clarify", "stop"}
  BY <1>3 DEF Verdicts
<1>5. QED BY <1>1, <1>2, <1>3, <1>4

-----------------------------------------------------------------------------
(* Types.                                                                  *)

\* The initial states are typed.
LEMMA TypeInit == Init => TypeOK
<1> SUFFICES ASSUME Init PROVE TypeOK
  OBVIOUS
<1>1. st \in RAGState
  BY FreshType DEF Init
<1>2. QED BY <1>1, GraphBounds DEF Init, TypeOK

\* Every node keeps the types.
LEMMA NodesTyped == TypeOK /\ SidesInv /\ NodeStep => TypeOK'
<1> SUFFICES ASSUME TypeOK, SidesInv, NodeStep PROVE TypeOK'
  OBVIOUS
<1> USE DEF Places, Names
<1>st. st \in RAGState
  BY DEF TypeOK
<1>1. CASE Contextualize
  <2>1. PICK b \in {"catalog", "history", "search", "compare", "reuse", "decline", "clarify"} :
          /\ b = "reuse" => HasHistory
          /\ LET s == [st EXCEPT !.behavior = b, !.antecedent = (b = "clarify"),
                                 !.binding = IF b = "reuse" THEN last.build ELSE @]
             IN  Ran(s, AfterContextualize(s))
    BY <1>1 DEF Contextualize
  <2>2. (IF b = "reuse" THEN last.build ELSE st.binding) \in Builds
    BY <2>1, <1>st DEF TypeOK, HasHistory, RAGState
  <2>3. [st EXCEPT !.behavior = b, !.antecedent = (b = "clarify"),
                   !.binding = IF b = "reuse" THEN last.build ELSE @] \in RAGState
    <3>1. ASSUME NEW x \in Behaviors, NEW y \in BOOLEAN, NEW z \in Builds
          PROVE  [st EXCEPT !.behavior = x, !.antecedent = y, !.binding = z] \in RAGState
      BY <1>st DEF RAGState
    <3>2. b \in Behaviors /\ (b = "clarify") \in BOOLEAN
      BY DEF Behaviors
    <3>3. QED BY <2>2, <3>1, <3>2
  <2>4. QED BY <2>1, <2>3, RoutersAnswer, RanTyped
<1>2. CASE AnswerFromRecords
  <2>1. [st EXCEPT !.scope = NoScope, !.answer = "fixed", !.final = "deterministic"] \in RAGState
    BY <1>st DEF RAGState
  <2>2. QED BY <1>2, <2>1, RanTyped DEF AnswerFromRecords
<1>3. CASE ResolveScope
  <2>1. ASSUME NEW scope \in Scopes \cup {NoScope} PROVE [st EXCEPT !.scope = scope] \in RAGState
    BY <1>st DEF RAGState
  <2>2. QED BY <1>3, <2>1, RoutersAnswer, RanTyped DEF ResolveScope
<1>4. CASE ResolveComparisonScopes
  <2>1. ASSUME NEW pair \in Pairs \cup {{}}
        PROVE [st EXCEPT !.pair = pair, !.scope = IF pair = {} THEN @ ELSE NoScope] \in RAGState
    BY <1>st DEF RAGState
  <2>2. QED BY <1>4, <2>1, RoutersAnswer, RanTyped DEF ResolveComparisonScopes
<1>5. CASE AnswerFixed
  <2>1. [st EXCEPT !.pool = {}, !.context = {}, !.answer = "fixed"] \in RAGState
    BY <1>st DEF RAGState
  <2>2. QED BY <1>5, <2>1, RanTyped DEF AnswerFixed
<1>reviewer. Reviewer \in Places /\ ComparisonReviewer \in Places /\ AfterRerank \in Places
  BY DEF Reviewer, ComparisonReviewer, AfterRerank, TypeOK
<1>6. CASE ReuseEvidence
  <2>1. node = "reuse_evidence"
    BY <1>6 DEF ReuseEvidence
  <2>2. PICK ids \in SUBSET last.cited, lost \in BOOLEAN :
          LET chunks == {[c EXCEPT !.build = st.binding, !.stale = lost] : c \in ids}
              s == [st EXCEPT !.context = chunks]
          IN  IF mode = "post_generation" /\ (EvidenceFault(s) # "" \/ lost)
              THEN Ran([s EXCEPT !.answer = ""], Reviewer)
              ELSE \/ \E d \in Drafts(s), b \in {s.behavior, "correct"} :
                        Ran([d EXCEPT !.pool = {}, !.behavior = b], Reviewer)
                   \/ mode = "post_generation" /\ Ran(Failed(s), Reviewer)
    BY <1>6 DEF ReuseEvidence
  <2> DEFINE chunks == {[c EXCEPT !.build = st.binding, !.stale = lost] : c \in ids}
             s == [st EXCEPT !.context = chunks]
  <2>3. chunks \in SUBSET Chunk
    <3>1. ids \subseteq Chunk
      <4>1. last.cited \subseteq Chunk
        BY DEF TypeOK, NoTurn
      <4>2. QED BY <4>1
    <3>2. st.binding \in Builds
      BY <1>st DEF RAGState
    <3>3. ASSUME NEW c \in Chunk PROVE [c EXCEPT !.build = st.binding, !.stale = lost] \in Chunk
      BY <3>2 DEF Chunk
    <3>4. QED BY <3>1, <3>3
  <2>4. s \in RAGState
    BY <1>st, <2>3 DEF RAGState
  <2>5. [s EXCEPT !.answer = ""] \in RAGState
    BY <2>4 DEF RAGState
  <2>6. ASSUME NEW d \in Drafts(s), NEW b \in {s.behavior, "correct"}
        PROVE  [d EXCEPT !.pool = {}, !.behavior = b] \in RAGState
    <3>1. d \in RAGState
      BY <2>4, DraftTypes
    <3>2. b \in Behaviors
      BY <2>4 DEF RAGState, Behaviors
    <3>3. QED BY <3>1, <3>2 DEF RAGState
  <2>7. Failed(s) \in RAGState
    BY <2>4, DraftTypes
  <2> HIDE DEF s, chunks
  <2>8. QED BY <2>2, <2>5, <2>6, <2>7, <1>reviewer, RanTyped DEF s, chunks
<1>7. CASE Decompose
  BY <1>7, <1>st, RanTyped DEF Decompose
<1>8. CASE Retrieve
  <2>1. ASSUME NEW found \in Found PROVE [st EXCEPT !.pool = found] \in RAGState
    <3>1. found \in SUBSET Chunk
      BY FoundType
    <3>2. QED BY <1>st, <3>1 DEF RAGState
  <2>2. QED BY <1>8, <2>1, RanTyped DEF Retrieve
<1>9. CASE Rerank
  <2>1. ASSUME NEW top \in SUBSET st.pool PROVE [st EXCEPT !.context = top] \in RAGState
    <3>1. top \in SUBSET Chunk
      BY <1>st DEF RAGState
    <3>2. QED BY <1>st, <3>1 DEF RAGState
  <2>2. QED BY <1>9, <2>1, <1>reviewer, RanTyped DEF Rerank
<1>10. CASE CheckEvidence
  <2>1. [st EXCEPT !.action = FaultAction(EvidenceFault(st)), !.fault = EvidenceFault(st)] \in RAGState
    BY <1>st, FaultTypes DEF RAGState
  <2>2. QED BY <1>10, <1>st, <2>1, RoutersAnswer, RanTyped DEF CheckEvidence
<1>11. CASE Generate
  BY <1>11, <1>st, <1>reviewer, DraftTypes, RanTyped DEF Generate
<1>asks. ASSUME NEW s \in RAGState, NEW b \in BOOLEAN PROVE [s EXCEPT !.asks = b] \in RAGState
  BY <1>asks DEF RAGState
<1>12. CASE ReviewAnswer
  <2>1. PICK v \in Verdicts(st, EvidenceFault(st)) :
          LET s == Judged(st, v, EvidenceFault(st))
          IN  Ran([s EXCEPT !.asks = (CorrectionRoute(s) = "clarify")], CorrectionRoute(s))
    BY <1>12 DEF ReviewAnswer
  <2>2. Judged(st, v, EvidenceFault(st)) \in RAGState
    BY <1>st, FaultTypes, ReviewTypes
  <2>3. QED BY <2>1, <2>2, <1>asks, RoutersAnswer, RanTyped
<1>13. CASE ReviseAnswer
  BY <1>13, <1>st, DraftTypes, RanTyped DEF ReviseAnswer
<1>14. CASE TargetedRetrieve
  <2>1. [st EXCEPT !.retry = @ + 1] \in RAGState
    BY <1>st, DraftTypes
  <2>2. RecoveryFailed([st EXCEPT !.retry = @ + 1]) \in RAGState
    BY <2>1, ReviewTypes
  <2>3. ASSUME NEW found \in Found
        PROVE  [[st EXCEPT !.retry = @ + 1] EXCEPT !.pool = st.pool \cup st.context \cup found] \in RAGState
    <3>1. st.pool \cup st.context \cup found \in SUBSET Chunk
      BY <1>st, FoundType DEF RAGState
    <3>2. QED BY <2>1, <3>1 DEF RAGState
  <2>4. QED BY <1>14, <2>2, <2>3, RanTyped DEF TargetedRetrieve
<1>15. CASE RetrieveComparison
  <2>1. ASSUME NEW found \in FoundSides(st.pair) PROVE [st EXCEPT !.pools = found] \in RAGState
    <3>1. found \in [st.pair -> SUBSET Chunk]
      BY FoundType DEF FoundSides
    <3>2. found \in PartialSides
      BY <3>1, PairIsScopes, SidesType
    <3>3. QED BY <1>st, <3>2 DEF RAGState
  <2>2. QED BY <1>15, <2>1, RanTyped DEF RetrieveComparison
<1>16. CASE RerankComparison
  <2>1. PICK top \in [st.pair -> SUBSET Chunk] :
          Ran([st EXCEPT !.sides = top, !.context = UNION {top[k] : k \in st.pair}],
              IF mode = "post_generation" THEN "check_comparison_evidence"
              ELSE "generate_comparison")
    BY <1>16 DEF RerankComparison
  <2>2. top \in PartialSides /\ UNION {top[k] : k \in st.pair} \in SUBSET Chunk
    <3>1. UNION {top[k] : k \in st.pair} \in SUBSET Chunk
      OBVIOUS
    <3>2. QED BY <3>1, PairIsScopes, SidesType
  <2>3. [st EXCEPT !.sides = top, !.context = UNION {top[k] : k \in st.pair}] \in RAGState
    BY <1>st, <2>2 DEF RAGState
  <2>4. QED BY <2>1, <2>3, RanTyped
<1>17. CASE CheckComparisonEvidence
  <2>1. EmptySides(st) \in SUBSET Scopes
    BY PairIsScopes DEF EmptySides
  <2>2. [st EXCEPT !.action = FaultAction(SidesFault(st)), !.fault = SidesFault(st),
                   !.missing = EmptySides(st)] \in RAGState
    BY <1>st, <2>1, FaultTypes DEF RAGState
  <2>3. QED BY <1>17, <1>st, <2>2, RoutersAnswer, RanTyped DEF CheckComparisonEvidence
<1>18. CASE GenerateComparison
  BY <1>18, <1>st, <1>reviewer, DraftTypes, RanTyped DEF GenerateComparison
<1>19. CASE ReviewComparison
  <2>1. PICK v \in Verdicts(st, SidesFault(st)), missing \in SUBSET st.pair :
          LET s == [Judged(st, v, SidesFault(st)) EXCEPT !.missing = missing]
          IN  Ran([s EXCEPT !.asks = (ComparisonRoute(s) = "clarify")], ComparisonRoute(s))
    BY <1>19 DEF ReviewComparison
  <2>2. Judged(st, v, SidesFault(st)) \in RAGState /\ missing \in SUBSET Scopes
    <3>1. Judged(st, v, SidesFault(st)) \in RAGState
      BY <1>st, FaultTypes, ReviewTypes
    <3>2. QED BY <3>1, PairIsScopes
  <2>3. [Judged(st, v, SidesFault(st)) EXCEPT !.missing = missing] \in RAGState
    BY <2>2 DEF RAGState
  <2>4. QED BY <2>1, <2>3, <1>asks, RoutersAnswer, RanTyped
<1>20. CASE ReviseComparison
  BY <1>20, <1>st, DraftTypes, RanTyped DEF ReviseComparison
<1>21. CASE TargetedComparisonRetrieve
  <2>node. node = "targeted_comparison_retrieve"
    BY <1>21 DEF TargetedComparisonRetrieve
  <2>1. [st EXCEPT !.retry = @ + 1] \in RAGState
    BY <1>st, DraftTypes
  <2>2. RecoveryFailed([st EXCEPT !.retry = @ + 1]) \in RAGState
    BY <2>1, ReviewTypes
  <2>3. ASSUME NEW found \in FoundSides(st.missing),
               NEW pools, pools = [k \in st.pair |->
                 st.pools[k] \cup IF k \in st.missing THEN found[k] ELSE {}],
               SidesOK(pools, st.pair)
        PROVE  [[st EXCEPT !.retry = @ + 1] EXCEPT !.pools = pools] \in RAGState
    <3>1. pools \in [st.pair -> SUBSET Chunk]
      <4>1. \A k \in st.pair : k \in st.missing => found[k] \in SUBSET Chunk
        BY FoundType DEF FoundSides
      <4>2. \A k \in st.pair : st.pools[k] \in SUBSET Chunk
        BY <2>node DEF SidesInv, Comparing
      <4>3. QED BY <2>3, <4>1, <4>2
    <3>2. pools \in PartialSides
      BY <3>1, PairIsScopes, SidesType
    <3>3. QED BY <2>1, <3>2 DEF RAGState
  <2>4. QED BY <1>21, <2>2, <2>3, RanTyped DEF TargetedComparisonRetrieve
<1>22. CASE Finalize
  <2>1. [st EXCEPT !.final = "accepted"] \in RAGState
    BY <1>st DEF RAGState
  <2>2. /\ [st EXCEPT !.answer = "limited", !.final = "scope_error"] \in RAGState
        /\ [st EXCEPT !.answer = "limited", !.final = "limited"] \in RAGState
    <3>1. ASSUME NEW a \in {"", "draft", "fixed", "limited"},
                 NEW f \in {"not_reviewed", "deterministic", "accepted", "limited", "scope_error"}
          PROVE  [st EXCEPT !.answer = a, !.final = f] \in RAGState
      BY <1>st, ZenonT(60) DEF RAGState
    <3>2. QED BY <3>1
  <2>3. CASE st.fault = "wrong_scope"
    BY <1>22, <2>1, <2>2, <2>3, RanTyped DEF Finalize
  <2>4. CASE st.fault # "wrong_scope"
    BY <1>22, <2>1, <2>2, <2>4, RanTyped DEF Finalize
  <2>5. QED BY <2>3, <2>4
<1>23. CASE AssessRetrieval
  BY <1>23, <1>st, RanTyped DEF AssessRetrieval
<1>24. CASE Recover
  <2>1. [st EXCEPT !.retry = @ + 1] \in RAGState
    BY <1>st, DraftTypes
  <2>2. ASSUME NEW deep, NEW a \in NextActions(st, deep), NEW found \in Found
        PROVE  [[st EXCEPT !.retry = @ + 1] EXCEPT !.tried = @ \cup {a}, !.pool = @ \cup found] \in RAGState
    <3> DEFINE s == [st EXCEPT !.retry = @ + 1]
    <3>1. a \in {"reselect", "deeper", "reformulate"}
      BY DEF NextActions
    <3>2. s.tried \in SUBSET {"reselect", "deeper", "reformulate"} /\ s.pool \in SUBSET Chunk
      BY <2>1 DEF RAGState
    <3>3. /\ s.tried \cup {a} \in SUBSET {"reselect", "deeper", "reformulate"}
          /\ s.pool \cup found \in SUBSET Chunk
      BY <3>1, <3>2, FoundType
    <3> HIDE DEF s
    <3>4. s \in RAGState => [s EXCEPT !.tried = @ \cup {a}, !.pool = @ \cup found] \in RAGState
      BY <3>3 DEF RAGState
    <3>5. QED BY <2>1, <3>4 DEF s
  <2>3. QED BY <1>24, <2>1, <2>2, RanTyped DEF Recover
<1>25. QED
  BY <1>1, <1>2, <1>3, <1>4, <1>5, <1>6, <1>7, <1>8, <1>9, <1>10, <1>11, <1>12, <1>13, <1>14,
     <1>15, <1>16, <1>17, <1>18, <1>19, <1>20, <1>21, <1>22, <1>23, <1>24 DEF NodeStep

-----------------------------------------------------------------------------
(* What each node does, as far as the invariants ask.                      *)

SameTurn(s, d) ==
  /\ d.binding = s.binding /\ d.behavior = s.behavior /\ d.antecedent = s.antecedent
  /\ d.pair = s.pair /\ d.rounds = s.rounds

\* The same turn, which may turn out to correct an earlier answer.
SameOrCorrects(s, d) ==
  /\ d.binding = s.binding /\ d.behavior \in {s.behavior, "correct"}
  /\ d.antecedent = s.antecedent /\ d.pair = s.pair /\ d.rounds = s.rounds

SameEvidence(s, d) ==
  d.pool = s.pool /\ d.context = s.context /\ d.pools = s.pools /\ d.sides = s.sides

SameDraft(s, d) ==
  d.answer = s.answer /\ d.basis = s.basis /\ d.drafts = s.drafts /\ d.approved = s.approved

SameProgress(s, d) ==
  d.retry = s.retry /\ d.error = s.error /\ d.action = s.action /\ d.final = s.final

\* A model call: a draft from the context, or none and an error.
Wrote(s, d) ==
  \/ /\ d.answer \in {"draft", ""} /\ d.basis = d.context /\ d.drafts = s.drafts + 1
     /\ d.error = s.error
  \/ d.answer = "" /\ d.basis = s.basis /\ d.drafts = s.drafts /\ d.error

\* A draft changes the answer, its basis and their count.
LEMMA DraftKeeps ==
  ASSUME NEW s \in RAGState, NEW d, d \in Drafts(s) \/ d = Failed(s)
  PROVE  /\ SameTurn(s, d) /\ SameEvidence(s, d) /\ Wrote(s, d)
         /\ d.retry = s.retry /\ d.action = s.action /\ d.final = s.final
<1>1. CASE d \in Drafts(s)
  <2>1. PICK text \in {"draft", ""} : d = Drafted(s, text)
    BY <1>1 DEF Drafts
  <2>2. QED BY <2>1 DEF Drafted, RAGState, SameTurn, SameEvidence, Wrote
<1>2. CASE d = Failed(s)
  BY <1>2 DEF Failed, RAGState, SameTurn, SameEvidence, Wrote
<1>3. QED BY <1>1, <1>2

\* A correction more.
LEMMA RetryKeeps ==
  ASSUME NEW s \in RAGState, NEW d, d = [s EXCEPT !.retry = @ + 1]
  PROVE  /\ SameTurn(s, d) /\ SameEvidence(s, d) /\ SameDraft(s, d)
         /\ d.retry = s.retry + 1 /\ d.error = s.error /\ d.action = s.action
         /\ d.final = s.final
  BY DEF RAGState, SameTurn, SameEvidence, SameDraft

\* A review writes its verdict.
LEMMA JudgedKeeps ==
  ASSUME NEW s \in RAGState, NEW v, NEW f, NEW d, d = Judged(s, v, f)
  PROVE  /\ SameTurn(s, d) /\ SameEvidence(s, d)
         /\ d.answer = s.answer /\ d.basis = s.basis /\ d.drafts = s.drafts
         /\ d.retry = s.retry /\ d.error = s.error /\ d.final = s.final
         /\ d.action = v /\ (v = "accept" => d.approved = d.drafts)
  BY DEF Judged, RAGState, SameTurn, SameEvidence

\* A failed search stops the correction.
LEMMA RecoveryFailedKeeps ==
  ASSUME NEW s \in RAGState, NEW d, d = RecoveryFailed(s)
  PROVE  /\ SameTurn(s, d) /\ SameEvidence(s, d) /\ SameDraft(s, d)
         /\ d.retry = s.retry /\ d.final = s.final /\ d.action = "stop" /\ d.error
  BY DEF RecoveryFailed, RAGState, SameTurn, SameEvidence, SameDraft

\* To correct or to clarify there must be budget or rounds left.
LEMMA RoutesSpend ==
  ASSUME TypeOK, NEW s \in RAGState
  PROVE  /\ CorrectionRoute(s) \in {"revise_answer", "targeted_retrieve"} => s.retry < budget
         /\ ComparisonRoute(s) \in {"revise_comparison", "targeted_comparison_retrieve"}
              => s.retry < budget
         /\ CorrectionRoute(s) = "clarify" => s.rounds < MaxClarify
         /\ ComparisonRoute(s) = "clarify" => s.rounds < MaxClarify
<1>1. s.retry < budget <=> ~(s.retry >= budget)
  <2>1. s.retry \in Nat
    BY DEF RAGState
  <2>2. budget \in Nat
    BY GraphBounds DEF TypeOK
  <2>3. QED BY <2>1, <2>2
<1>2. CorrectionRoute(s) \in {"revise_answer", "targeted_retrieve"} => s.retry < budget
  BY <1>1 DEF CorrectionRoute, Correct
<1>3. ComparisonRoute(s) \in {"revise_comparison", "targeted_comparison_retrieve"}
        => s.retry < budget
  BY <1>1 DEF ComparisonRoute, Correct
<1>4. /\ CorrectionRoute(s) = "clarify" => s.rounds < MaxClarify
      /\ ComparisonRoute(s) = "clarify" => s.rounds < MaxClarify
  BY DEF CorrectionRoute, ComparisonRoute, Correct
<1>5. QED BY <1>2, <1>3, <1>4

\* contextualize chooses the behaviour and, for a reuse, the build.
LEMMA ContextualizeDoes ==
  ASSUME TypeOK, Contextualize
  PROVE  /\ node = "contextualize"
         /\ node' \in {"catalog_lenders", "conversation_history",
                       "resolve_comparison_scopes", "resolve_scope"}
         /\ st'.behavior = "compare" <=> node' = "resolve_comparison_scopes"
         /\ st'.behavior = "reuse" => st'.binding = last.build
         /\ st'.behavior # "reuse" => st'.binding = st.binding
         /\ st'.pair = st.pair /\ st'.rounds = st.rounds
         /\ SameEvidence(st, st') /\ SameDraft(st, st') /\ SameProgress(st, st')
<1>1. PICK b \in {"catalog", "history", "search", "compare", "reuse", "decline", "clarify"} :
        /\ node = "contextualize"
        /\ LET s == [st EXCEPT !.behavior = b, !.antecedent = (b = "clarify"),
                               !.binding = IF b = "reuse" THEN last.build ELSE @]
           IN  Ran(s, AfterContextualize(s))
  BY DEF Contextualize
<1> DEFINE s == [st EXCEPT !.behavior = b, !.antecedent = (b = "clarify"),
                           !.binding = IF b = "reuse" THEN last.build ELSE @]
<1>2. st \in RAGState
  BY DEF TypeOK
<1>3. /\ s.behavior = b /\ (b = "reuse" => s.binding = last.build)
      /\ b # "reuse" => s.binding = st.binding
      /\ s.pair = st.pair /\ s.rounds = st.rounds
      /\ SameEvidence(st, s) /\ SameDraft(st, s) /\ SameProgress(st, s)
  BY <1>2 DEF RAGState, SameEvidence, SameDraft, SameProgress
<1>4. st' = s /\ node' = AfterContextualize(s)
  BY <1>1 DEF Ran
<1>5. s.behavior = "compare" <=> AfterContextualize(s) = "resolve_comparison_scopes"
  BY DEF AfterContextualize
<1> HIDE DEF s
<1>6. QED BY <1>1, <1>3, <1>4, <1>5, RoutersAnswer

\* Answers from records, and fixed ones, end the turn.
LEMMA FixedAnswersDo ==
  ASSUME TypeOK, AnswerFromRecords \/ AnswerFixed
  PROVE  /\ node \in {"catalog_lenders", "conversation_history", "unresolved", "decline"}
         /\ node' = "end" /\ SameTurn(st, st')
         /\ st'.pool \subseteq st.pool /\ st'.context \subseteq st.context
         /\ st'.pools = st.pools /\ st'.basis = st.basis
         /\ st'.answer = "fixed" /\ st'.final \in {"deterministic", st.final}
         /\ st'.drafts = st.drafts /\ st'.retry = st.retry
<1>1. CASE AnswerFromRecords
  BY <1>1 DEF AnswerFromRecords, Ran, TypeOK, RAGState, SameTurn
<1>2. CASE AnswerFixed
  BY <1>2 DEF AnswerFixed, Ran, TypeOK, RAGState, SameTurn
<1>3. QED BY <1>1, <1>2

\* resolve_scope only writes the scope.
LEMMA ResolveScopeDoes ==
  ASSUME TypeOK, ResolveScope
  PROVE  /\ node = "resolve_scope"
         /\ node' \in {"clarify", "decline", "unresolved", "reuse_evidence", "decompose"}
         /\ node' = "clarify" => st.antecedent \/ st.rounds < MaxClarify
         /\ node' = "reuse_evidence" => st.behavior = "reuse"
         /\ SameTurn(st, st') /\ SameEvidence(st, st') /\ SameDraft(st, st')
         /\ SameProgress(st, st')
<1>1. PICK scope \in Scopes \cup {NoScope} :
        node = "resolve_scope" /\ LET s == [st EXCEPT !.scope = scope] IN Ran(s, AfterScope(s))
  BY DEF ResolveScope
<1> DEFINE s == [st EXCEPT !.scope = scope]
<1>2. st \in RAGState
  BY DEF TypeOK
<1>3. SameTurn(st, s) /\ SameEvidence(st, s) /\ SameDraft(st, s) /\ SameProgress(st, s)
  BY <1>2 DEF RAGState, SameTurn, SameEvidence, SameDraft, SameProgress
<1>4. st' = s /\ node' = AfterScope(s)
  BY <1>1 DEF Ran
<1> HIDE DEF s
<1>5. /\ AfterScope(s) = "clarify" => s.antecedent \/ ~ (s.rounds >= MaxClarify)
      /\ AfterScope(s) = "reuse_evidence" => s.behavior = "reuse"
  BY DEF AfterScope, AskOrGiveUp
<1>6. ~ (st.rounds >= MaxClarify) => st.rounds < MaxClarify
  <2>1. st.rounds \in Nat
    BY <1>2 DEF RAGState
  <2>2. QED BY <2>1 DEF MaxClarify
<1>7. QED BY <1>1, <1>3, <1>4, <1>5, <1>6, RoutersAnswer DEF SameTurn

\* resolve_comparison_scopes writes the pair.
LEMMA ResolveComparisonScopesDoes ==
  ASSUME TypeOK, ResolveComparisonScopes
  PROVE  /\ node = "resolve_comparison_scopes"
         /\ node' \in {"plan_comparison", "unresolved", "clarify"}
         /\ node' = "clarify" => st.rounds < MaxClarify
         /\ st'.binding = st.binding /\ st'.behavior = st.behavior
         /\ st'.antecedent = st.antecedent /\ st'.rounds = st.rounds
         /\ SameEvidence(st, st') /\ SameDraft(st, st') /\ SameProgress(st, st')
<1>1. PICK pair \in Pairs \cup {{}} :
        /\ node = "resolve_comparison_scopes"
        /\ LET s == [st EXCEPT !.pair = pair, !.scope = IF pair = {} THEN @ ELSE NoScope]
           IN  Ran(s, AfterComparisonScope(s))
  BY DEF ResolveComparisonScopes
<1> DEFINE s == [st EXCEPT !.pair = pair, !.scope = IF pair = {} THEN @ ELSE NoScope]
<1>2. st \in RAGState
  BY DEF TypeOK
<1>3. /\ s.binding = st.binding /\ s.behavior = st.behavior
      /\ s.antecedent = st.antecedent /\ s.rounds = st.rounds
      /\ SameEvidence(st, s) /\ SameDraft(st, s) /\ SameProgress(st, s)
  BY <1>2 DEF RAGState, SameEvidence, SameDraft, SameProgress
<1>4. st' = s /\ node' = AfterComparisonScope(s)
  BY <1>1 DEF Ran
<1> HIDE DEF s
<1>5. AfterComparisonScope(s) = "clarify" => ~ (s.rounds >= MaxClarify)
  BY DEF AfterComparisonScope, AskOrGiveUp
<1>6. ~ (st.rounds >= MaxClarify) => st.rounds < MaxClarify
  <2>1. st.rounds \in Nat
    BY <1>2 DEF RAGState
  <2>2. QED BY <2>1 DEF MaxClarify
<1>7. QED BY <1>1, <1>3, <1>4, <1>5, <1>6, RoutersAnswer

\* reuse_evidence reads the cited chunks from the pinned build, and drafts at most once.
LEMMA ReuseEvidenceDoes ==
  ASSUME TypeOK, ReuseEvidence
  PROVE  /\ node = "reuse_evidence" /\ node' = Reviewer
         /\ SameOrCorrects(st, st')
         /\ st'.pool \subseteq st.pool /\ st'.pools = st.pools /\ st'.sides = st.sides
         /\ \A c \in st'.context : c.build = st.binding
         /\ st'.basis \in {st.basis, st'.context}
         /\ st'.answer \in {"draft", ""} /\ (st'.answer = "draft" => st'.basis = st'.context)
         /\ st'.drafts \in {st.drafts, st.drafts + 1}
         /\ st'.retry = st.retry /\ st'.final = st.final
<1>1. PICK ids \in SUBSET last.cited, lost \in BOOLEAN :
        LET chunks == {[c EXCEPT !.build = st.binding, !.stale = lost] : c \in ids}
            s == [st EXCEPT !.context = chunks]
        IN  IF mode = "post_generation" /\ (EvidenceFault(s) # "" \/ lost)
            THEN Ran([s EXCEPT !.answer = ""], Reviewer)
            ELSE \/ \E d \in Drafts(s), b \in {s.behavior, "correct"} :
                      Ran([d EXCEPT !.pool = {}, !.behavior = b], Reviewer)
                 \/ mode = "post_generation" /\ Ran(Failed(s), Reviewer)
  BY DEF ReuseEvidence
<1> DEFINE chunks == {[c EXCEPT !.build = st.binding, !.stale = lost] : c \in ids}
           s == [st EXCEPT !.context = chunks]
<1>2. node = "reuse_evidence" /\ st \in RAGState
  BY DEF ReuseEvidence, TypeOK
<1>3. chunks \in SUBSET Chunk /\ \A c \in chunks : c.build = st.binding
  <2>1. ids \subseteq Chunk
    <3>1. last.cited \subseteq Chunk
      BY DEF TypeOK, NoTurn
    <3>2. QED BY <3>1
  <2>2. st.binding \in Builds
    BY <1>2 DEF RAGState
  <2>3. ASSUME NEW c \in Chunk
        PROVE  /\ [c EXCEPT !.build = st.binding, !.stale = lost] \in Chunk
               /\ [c EXCEPT !.build = st.binding, !.stale = lost].build = st.binding
    BY <2>2 DEF Chunk
  <2>4. chunks \in SUBSET Chunk
    BY <2>1, <2>3
  <2>5. ASSUME NEW k \in chunks PROVE k.build = st.binding
    <3>1. PICK c \in ids : k = [c EXCEPT !.build = st.binding, !.stale = lost]
      OBVIOUS
    <3>2. QED BY <2>1, <2>3, <3>1
  <2>6. QED BY <2>4, <2>5
<1> HIDE DEF chunks
<1>4. /\ s \in RAGState /\ s.context = chunks
      /\ SameTurn(st, s) /\ s.pool = st.pool /\ s.pools = st.pools /\ s.sides = st.sides
      /\ SameDraft(st, s) /\ SameProgress(st, s)
  BY <1>2, <1>3 DEF RAGState, SameTurn, SameDraft, SameProgress
<1> HIDE DEF s
<1>5. ASSUME NEW text \in {"draft", ""}, NEW d, d = Drafted(s, text),
             NEW b \in {s.behavior, "correct"},
             st' = [d EXCEPT !.pool = {}, !.behavior = b], node' = Reviewer
      PROVE  /\ SameOrCorrects(st, st')
             /\ st'.pool \subseteq st.pool /\ st'.pools = st.pools /\ st'.sides = st.sides
             /\ \A c \in st'.context : c.build = st.binding
             /\ st'.basis \in {st.basis, st'.context}
             /\ st'.answer \in {"draft", ""}
             /\ (st'.answer = "draft" => st'.basis = st'.context)
             /\ st'.drafts \in {st.drafts, st.drafts + 1}
             /\ st'.retry = st.retry /\ st'.final = st.final
  <2>0. d \in Drafts(s)
    BY <1>5 DEF Drafts
  <2>1. /\ d \in RAGState /\ d.answer = text /\ d.basis = s.context /\ d.drafts = s.drafts + 1
        /\ SameTurn(s, d) /\ SameEvidence(s, d) /\ d.retry = s.retry /\ d.final = s.final
    <3>1. d \in RAGState
      BY <1>4, <2>0, DraftTypes
    <3>2. SameTurn(s, d) /\ SameEvidence(s, d) /\ d.retry = s.retry /\ d.final = s.final
      BY <1>4, <2>0, DraftKeeps
    <3>3. d.answer = text /\ d.basis = s.context /\ d.drafts = s.drafts + 1
      <4>1. s \in RAGState
        BY <1>4
      <4>2. QED BY <4>1, <1>5 DEF Drafted, RAGState
    <3>4. QED BY <3>1, <3>2, <3>3
  <2>2. /\ SameOrCorrects(d, st') /\ st'.pool = {} /\ st'.context = d.context
        /\ st'.pools = d.pools /\ st'.sides = d.sides
        /\ st'.answer = d.answer /\ st'.basis = d.basis /\ st'.drafts = d.drafts
        /\ st'.retry = d.retry /\ st'.final = d.final
    BY <1>5, <2>1 DEF RAGState, SameTurn, SameOrCorrects
  <2>3. QED BY <1>3, <1>4, <2>1, <2>2 DEF SameTurn, SameOrCorrects, SameEvidence, SameDraft, SameProgress
<1>6. QED
  <2>1. \/ st' = [s EXCEPT !.answer = ""] /\ node' = Reviewer
        \/ st' = Failed(s) /\ node' = Reviewer
        \/ \E d \in Drafts(s), b \in {s.behavior, "correct"} :
             st' = [d EXCEPT !.pool = {}, !.behavior = b] /\ node' = Reviewer
    BY <1>1 DEF Ran, s, chunks
  <2>2. CASE \E d \in Drafts(s), b \in {s.behavior, "correct"} :
               st' = [d EXCEPT !.pool = {}, !.behavior = b] /\ node' = Reviewer
    <3>1. PICK text \in {"draft", ""}, b \in {s.behavior, "correct"} :
            st' = [Drafted(s, text) EXCEPT !.pool = {}, !.behavior = b] /\ node' = Reviewer
      BY <2>2 DEF Drafts
    <3>2. QED BY <3>1, <1>2, <1>5
  <2>3. CASE st' = [s EXCEPT !.answer = ""] /\ node' = Reviewer
    <3>1. /\ SameTurn(s, st') /\ SameEvidence(s, st') /\ st'.answer = ""
          /\ st'.basis = s.basis /\ st'.drafts = s.drafts /\ st'.retry = s.retry
          /\ st'.final = s.final
      BY <1>4, <2>3 DEF RAGState, SameTurn, SameEvidence
    <3>2. QED BY <1>2, <1>3, <1>4, <2>3, <3>1 DEF SameTurn, SameOrCorrects, SameEvidence, SameDraft, SameProgress
  <2>4. CASE st' = Failed(s) /\ node' = Reviewer
    <3>1. /\ SameTurn(s, st') /\ SameEvidence(s, st') /\ st'.answer = ""
          /\ st'.basis = s.basis /\ st'.drafts = s.drafts /\ st'.retry = s.retry
          /\ st'.final = s.final
      BY <1>4, <2>4 DEF RAGState, SameTurn, SameEvidence, Failed
    <3>2. QED BY <1>2, <1>3, <1>4, <2>4, <3>1 DEF SameTurn, SameOrCorrects, SameEvidence, SameDraft, SameProgress
  <2>5. QED BY <2>1, <2>2, <2>3, <2>4

\* A search reads the pinned build.
LEMMA FoundOurs == ASSUME NEW found \in Found PROVE \A c \in found : c.build = st.binding
  BY DEF Found

\* decompose and plan_comparison leave the turn as it is.
LEMMA DecomposeDoes ==
  ASSUME Decompose
  PROVE  /\ \/ node = "decompose" /\ node' = "retrieve"
            \/ node = "plan_comparison" /\ node' = "retrieve_comparison"
         /\ st' = st
  BY DEF Decompose, Ran

\* retrieve fills the pool from the pinned build.
LEMMA RetrieveDoes ==
  ASSUME TypeOK, Retrieve
  PROVE  /\ node = "retrieve" /\ node' = "rerank"
         /\ SameTurn(st, st') /\ SameDraft(st, st') /\ SameProgress(st, st')
         /\ \A c \in st'.pool : c.build = st.binding
         /\ st'.context = st.context /\ st'.pools = st.pools
<1>1. PICK found \in Found :
        node = "retrieve" /\ st' = [st EXCEPT !.pool = found] /\ node' = "rerank"
  BY DEF Retrieve, Ran
<1>2. st'.pool = found
  BY <1>1 DEF TypeOK, RAGState
<1>3. /\ SameTurn(st, st') /\ SameDraft(st, st') /\ SameProgress(st, st')
      /\ st'.context = st.context /\ st'.pools = st.pools
  BY <1>1 DEF TypeOK, RAGState, SameTurn, SameDraft, SameProgress
<1>4. QED BY <1>1, <1>2, <1>3, FoundOurs

\* rerank chooses the context from the pool.
LEMMA RerankDoes ==
  ASSUME TypeOK, Rerank
  PROVE  /\ node = "rerank" /\ node' \in {"generate", "assess_retrieval", "check_evidence"}
         /\ SameTurn(st, st') /\ SameDraft(st, st') /\ SameProgress(st, st')
         /\ st'.pool = st.pool /\ st'.context \subseteq st.pool /\ st'.pools = st.pools
<1>1. PICK top \in SUBSET st.pool :
        node = "rerank" /\ st' = [st EXCEPT !.context = top] /\ node' = AfterRerank
  BY DEF Rerank, Ran
<1>2. AfterRerank \in {"generate", "assess_retrieval", "check_evidence"}
  BY DEF AfterRerank, TypeOK
<1>3. st'.context = top
  BY <1>1 DEF TypeOK, RAGState
<1>4. /\ SameTurn(st, st') /\ SameDraft(st, st') /\ SameProgress(st, st')
      /\ st'.pool = st.pool /\ st'.pools = st.pools
  BY <1>1 DEF TypeOK, RAGState, SameTurn, SameDraft, SameProgress
<1>5. QED BY <1>1, <1>2, <1>3, <1>4

\* A check of the evidence lets it pass, or asks for another search, or stops.
LEMMA ChecksDo ==
  ASSUME TypeOK, CheckEvidence \/ CheckComparisonEvidence
  PROVE  /\ node' \in {"generate", "generate_comparison", "clarify", "finalize", "revise_answer",
                       "targeted_retrieve", "revise_comparison", "targeted_comparison_retrieve"}
         /\ \/ node = "check_evidence" /\ node' \notin Comparing
            \/ node = "check_comparison_evidence" /\ node' \notin Single
         /\ node' = "clarify" => st.rounds < MaxClarify
         /\ node' \in {"revise_answer", "targeted_retrieve", "revise_comparison",
                      "targeted_comparison_retrieve"} => st.retry < budget
         /\ node' = "finalize" => st'.action # "accept"
         /\ SameTurn(st, st') /\ SameEvidence(st, st') /\ SameDraft(st, st')
         /\ st'.retry = st.retry /\ st'.final = st.final
<1>st. st \in RAGState
  BY DEF TypeOK
<1>1. CASE CheckEvidence
  <2> DEFINE s == [st EXCEPT !.action = FaultAction(EvidenceFault(st)),
                             !.fault = EvidenceFault(st)]
  <2>1. s \in RAGState
    BY <1>st, FaultTypes DEF RAGState
  <2>2. /\ SameTurn(st, s) /\ SameEvidence(st, s) /\ SameDraft(st, s)
        /\ s.retry = st.retry /\ s.final = st.final /\ s.action # "accept"
    BY <1>st, FaultTypes DEF RAGState, SameTurn, SameEvidence, SameDraft
  <2>3. /\ node = "check_evidence"
        /\ \/ st' = st /\ node' = "generate"
           \/ st' = s /\ node' = CorrectionRoute(s)
    BY <1>1 DEF CheckEvidence, Ran
  <2> HIDE DEF s
  <2>4. CASE st' = st /\ node' = "generate"
    BY <2>3, <2>4 DEF Comparing, SameTurn, SameEvidence, SameDraft
  <2>5. CASE st' = s /\ node' = CorrectionRoute(s)
    BY <2>1, <2>2, <2>3, <2>5, RoutersAnswer, RoutesSpend DEF Comparing, SameTurn
  <2>6. QED BY <2>3, <2>4, <2>5
<1>2. CASE CheckComparisonEvidence
  <2> DEFINE s == [st EXCEPT !.action = FaultAction(SidesFault(st)), !.fault = SidesFault(st),
                             !.missing = EmptySides(st)]
  <2>1. s \in RAGState
    <3>1. EmptySides(st) \in SUBSET Scopes
      BY PairIsScopes DEF EmptySides
    <3>2. QED BY <1>st, <3>1, FaultTypes DEF RAGState
  <2>2. /\ SameTurn(st, s) /\ SameEvidence(st, s) /\ SameDraft(st, s)
        /\ s.retry = st.retry /\ s.final = st.final /\ s.action # "accept"
    BY <1>st, FaultTypes DEF RAGState, SameTurn, SameEvidence, SameDraft
  <2>3. /\ node = "check_comparison_evidence"
        /\ \/ st' = st /\ node' = "generate_comparison"
           \/ st' = s /\ node' = ComparisonRoute(s)
    BY <1>2 DEF CheckComparisonEvidence, Ran
  <2> HIDE DEF s
  <2>4. CASE st' = st /\ node' = "generate_comparison"
    BY <2>3, <2>4 DEF Single, SameTurn, SameEvidence, SameDraft
  <2>5. CASE st' = s /\ node' = ComparisonRoute(s)
    BY <2>1, <2>2, <2>3, <2>5, RoutersAnswer, RoutesSpend DEF Single, SameTurn
  <2>6. QED BY <2>3, <2>4, <2>5
<1>3. QED BY <1>1, <1>2

\* generate and its twin write the turn's draft.
LEMMA GeneratesDo ==
  ASSUME TypeOK, Generate \/ GenerateComparison
  PROVE  /\ \/ node = "generate" /\ node' = Reviewer
            \/ node = "generate_comparison" /\ node' = ComparisonReviewer
         /\ SameTurn(st, st') /\ SameEvidence(st, st') /\ Wrote(st, st')
         /\ st'.retry = st.retry /\ st'.final = st.final
<1>1. st \in RAGState
  BY DEF TypeOK
<1>2. st' \in Drafts(st) \/ st' = Failed(st)
  BY DEF Generate, GenerateComparison, Ran
<1>3. \/ node = "generate" /\ node' = Reviewer
      \/ node = "generate_comparison" /\ node' = ComparisonReviewer
  BY DEF Generate, GenerateComparison, Ran
<1>4. QED BY <1>1, <1>2, <1>3, DraftKeeps

\* A revision is a draft and a correction.
LEMMA RevisionsDo ==
  ASSUME TypeOK, ReviseAnswer \/ ReviseComparison
  PROVE  /\ \/ node = "revise_answer" /\ node' = "review_answer"
            \/ node = "revise_comparison" /\ node' = "review_comparison"
         /\ SameTurn(st, st') /\ SameEvidence(st, st') /\ Wrote(st, st')
         /\ st'.retry = st.retry + 1 /\ st'.final = st.final
<1> DEFINE s == [st EXCEPT !.retry = @ + 1]
<1>1. st \in RAGState
  BY DEF TypeOK
<1>2. st' \in Drafts(s) \/ st' = Failed(s)
  BY DEF ReviseAnswer, ReviseComparison, Ran
<1>3. \/ node = "revise_answer" /\ node' = "review_answer"
      \/ node = "revise_comparison" /\ node' = "review_comparison"
  BY DEF ReviseAnswer, ReviseComparison, Ran
<1>4. s \in RAGState
  BY <1>1, DraftTypes
<1>5. /\ SameTurn(st, s) /\ SameEvidence(st, s) /\ SameDraft(st, s)
      /\ s.retry = st.retry + 1 /\ s.error = st.error /\ s.final = st.final
  BY <1>1, RetryKeeps
<1> HIDE DEF s
<1>6. /\ SameTurn(s, st') /\ SameEvidence(s, st') /\ Wrote(s, st')
      /\ st'.retry = s.retry /\ st'.final = s.final
  BY <1>2, <1>4, DraftKeeps
<1>7. QED BY <1>3, <1>5, <1>6 DEF SameTurn, SameEvidence, SameDraft, Wrote

\* What a review accepts is a draft, and of a comparison one whose sides are sound.
LEMMA AcceptsDrafts ==
  ASSUME NEW s, NEW f, "accept" \in Verdicts(s, f)
  PROVE  ~ s.error /\ f = "" /\ s.answer # ""
  BY DEF Verdicts, FaultAction

\* A review writes its verdict, and goes where there is budget for it.
LEMMA ReviewsDo ==
  ASSUME TypeOK, ReviewAnswer \/ ReviewComparison
  PROVE  /\ \/ /\ node = "review_answer"
               /\ node' \in {"clarify", "finalize", "revise_answer", "targeted_retrieve"}
            \/ /\ node = "review_comparison"
               /\ node' \in {"clarify", "finalize", "revise_comparison",
                            "targeted_comparison_retrieve"}
               /\ st'.action = "accept" => SidesFault(st) = ""
         /\ node' = "clarify" => st.rounds < MaxClarify
         /\ node' \notin {"clarify", "finalize"} => st.retry < budget
         /\ SameTurn(st, st') /\ SameEvidence(st, st')
         /\ st'.answer = st.answer /\ st'.basis = st.basis /\ st'.drafts = st.drafts
         /\ st'.retry = st.retry /\ st'.final = st.final
         /\ st'.action = "accept" => st.answer # "" /\ st'.approved = st'.drafts
<1>st. st \in RAGState
  BY DEF TypeOK
<1>1. ASSUME NEW s \in RAGState, NEW b, NEW d, d = [s EXCEPT !.asks = b]
      PROVE  /\ SameTurn(s, d) /\ SameEvidence(s, d) /\ SameDraft(s, d) /\ SameProgress(s, d)
  BY <1>1 DEF RAGState, SameTurn, SameEvidence, SameDraft, SameProgress
<1>2. CASE ReviewAnswer
  <2>1. PICK v \in Verdicts(st, EvidenceFault(st)) :
          /\ node = "review_answer"
          /\ LET s == Judged(st, v, EvidenceFault(st))
             IN  /\ st' = [s EXCEPT !.asks = (CorrectionRoute(s) = "clarify")]
                 /\ node' = CorrectionRoute(s)
    BY <1>2 DEF ReviewAnswer, Ran
  <2> DEFINE s == Judged(st, v, EvidenceFault(st))
  <2>2. s \in RAGState
    BY <1>st, FaultTypes, ReviewTypes
  <2>3. /\ SameTurn(st, s) /\ SameEvidence(st, s)
        /\ s.answer = st.answer /\ s.basis = st.basis /\ s.drafts = st.drafts
        /\ s.retry = st.retry /\ s.final = st.final
        /\ s.action = v /\ (v = "accept" => s.approved = s.drafts)
    BY <1>st, JudgedKeeps
  <2>4. v = "accept" => st.answer # ""
    BY <2>1, AcceptsDrafts
  <2> HIDE DEF s
  <2>5. SameTurn(s, st') /\ SameEvidence(s, st') /\ SameDraft(s, st') /\ SameProgress(s, st')
    BY <2>1, <2>2, <1>1 DEF s
  <2>6. node = "review_answer" /\ node' = CorrectionRoute(s)
    BY <2>1 DEF s
  <2>7. /\ node' \in {"clarify", "finalize", "revise_answer", "targeted_retrieve"}
        /\ node' = "clarify" => s.rounds < MaxClarify
        /\ node' \notin {"clarify", "finalize"} => s.retry < budget
    BY <2>2, <2>6, RoutersAnswer, RoutesSpend
  <2>8. QED
    BY <2>3, <2>4, <2>5, <2>6, <2>7 DEF SameTurn, SameEvidence, SameDraft, SameProgress
<1>3. CASE ReviewComparison
  <2>1. PICK v \in Verdicts(st, SidesFault(st)), missing \in SUBSET st.pair :
          /\ node = "review_comparison"
          /\ LET s == [Judged(st, v, SidesFault(st)) EXCEPT !.missing = missing]
             IN  /\ st' = [s EXCEPT !.asks = (ComparisonRoute(s) = "clarify")]
                 /\ node' = ComparisonRoute(s)
    BY <1>3 DEF ReviewComparison, Ran
  <2> DEFINE j == Judged(st, v, SidesFault(st))
             s == [j EXCEPT !.missing = missing]
  <2>2. j \in RAGState
    BY <1>st, FaultTypes, ReviewTypes
  <2>3. /\ SameTurn(st, j) /\ SameEvidence(st, j)
        /\ j.answer = st.answer /\ j.basis = st.basis /\ j.drafts = st.drafts
        /\ j.retry = st.retry /\ j.final = st.final
        /\ j.action = v /\ (v = "accept" => j.approved = j.drafts)
    BY <1>st, JudgedKeeps
  <2>4. v = "accept" => st.answer # "" /\ SidesFault(st) = ""
    BY <2>1, AcceptsDrafts
  <2> HIDE DEF j
  <2>5. s \in RAGState
    <3>1. missing \in SUBSET Scopes
      BY PairIsScopes
    <3>2. QED BY <2>2, <3>1 DEF RAGState
  <2>6. SameTurn(j, s) /\ SameEvidence(j, s) /\ SameDraft(j, s) /\ SameProgress(j, s)
    BY <2>2 DEF RAGState, SameTurn, SameEvidence, SameDraft, SameProgress
  <2>s. st' = [s EXCEPT !.asks = (ComparisonRoute(s) = "clarify")]
        /\ node' = ComparisonRoute(s) /\ node = "review_comparison"
    BY <2>1 DEF j
  <2> HIDE DEF s
  <2>7. SameTurn(s, st') /\ SameEvidence(s, st') /\ SameDraft(s, st') /\ SameProgress(s, st')
    BY <2>5, <2>s, <1>1
  <2>8. /\ node' \in {"clarify", "finalize", "revise_comparison", "targeted_comparison_retrieve"}
        /\ node' = "clarify" => s.rounds < MaxClarify
        /\ node' \notin {"clarify", "finalize"} => s.retry < budget
    BY <2>5, <2>s, RoutersAnswer, RoutesSpend
  <2>9. /\ SameTurn(st, s) /\ SameEvidence(st, s)
        /\ s.answer = st.answer /\ s.basis = st.basis /\ s.drafts = st.drafts
        /\ s.retry = st.retry /\ s.final = st.final
        /\ s.action = v /\ (v = "accept" => s.approved = s.drafts)
    BY <2>3, <2>6 DEF SameTurn, SameEvidence, SameDraft, SameProgress
  <2>10. QED
    BY <2>4, <2>7, <2>8, <2>9, <2>s DEF SameTurn, SameEvidence, SameDraft, SameProgress
<1>4. QED BY <1>2, <1>3

\* A targeted search adds to the pool and is a correction; failing, it stops.
LEMMA TargetedRetrieveDoes ==
  ASSUME TypeOK, TargetedRetrieve
  PROVE  /\ node = "targeted_retrieve" /\ node' \in {"rerank", "finalize"}
         /\ SameTurn(st, st') /\ SameDraft(st, st')
         /\ \A c \in st'.pool : c \in st.pool \cup st.context \/ c.build = st.binding
         /\ st'.context = st.context /\ st'.pools = st.pools
         /\ st'.retry = st.retry + 1 /\ st'.final = st.final
         /\ node' = "finalize" => st'.action # "accept"
<1> DEFINE s == [st EXCEPT !.retry = @ + 1]
<1>1. st \in RAGState
  BY DEF TypeOK
<1>2. node = "targeted_retrieve"
  BY DEF TargetedRetrieve
<1>3. \/ \E found \in Found : /\ st' = [s EXCEPT !.pool = st.pool \cup st.context \cup found]
                              /\ node' = "rerank"
      \/ st' = RecoveryFailed(s) /\ node' = "finalize"
  BY DEF TargetedRetrieve, Ran
<1>4. s \in RAGState
  BY <1>1, DraftTypes
<1>5. /\ SameTurn(st, s) /\ SameEvidence(st, s) /\ SameDraft(st, s)
      /\ s.retry = st.retry + 1 /\ s.final = st.final
  BY <1>1, RetryKeeps
<1> HIDE DEF s
<1>6. CASE st' = RecoveryFailed(s) /\ node' = "finalize"
  <2>1. /\ SameTurn(s, st') /\ SameEvidence(s, st') /\ SameDraft(s, st')
        /\ st'.retry = s.retry /\ st'.final = s.final /\ st'.action = "stop"
    BY <1>4, <1>6, RecoveryFailedKeeps
  <2>2. QED BY <1>2, <1>5, <1>6, <2>1 DEF SameTurn, SameEvidence, SameDraft
<1>7. ASSUME NEW found \in Found, NEW pool, pool = st.pool \cup st.context \cup found,
             st' = [s EXCEPT !.pool = pool], node' = "rerank"
      PROVE  /\ SameTurn(st, st') /\ SameDraft(st, st')
             /\ \A c \in st'.pool : c \in st.pool \cup st.context \/ c.build = st.binding
             /\ st'.context = st.context /\ st'.pools = st.pools
             /\ st'.retry = st.retry + 1 /\ st'.final = st.final
  <2>1. /\ SameTurn(s, st') /\ SameDraft(s, st') /\ st'.pool = pool
        /\ st'.context = s.context /\ st'.pools = s.pools
        /\ st'.retry = s.retry /\ st'.final = s.final
    BY <1>4, <1>7 DEF RAGState, SameTurn, SameDraft
  <2>2. \A c \in st'.pool : c \in st.pool \cup st.context \/ c.build = st.binding
    BY <1>7, <2>1, FoundOurs
  <2>3. QED BY <1>5, <2>1, <2>2 DEF SameTurn, SameEvidence, SameDraft
<1>8. QED BY <1>2, <1>3, <1>6, <1>7

\* assess_retrieval only chooses where to go.
LEMMA AssessRetrievalDoes ==
  ASSUME TypeOK, AssessRetrieval
  PROVE  /\ node = "assess_retrieval" /\ node' \in {"generate", "recover"}
         /\ node' = "recover" => st.retry < budget
         /\ st' = st
<1>1. st.retry \in Nat
  BY DEF TypeOK, RAGState
<1>2. budget \in Nat
  BY GraphBounds DEF TypeOK
<1>3. QED BY <1>1, <1>2 DEF AssessRetrieval, Ran

\* recover adds to the pool and is a correction.
LEMMA RecoverDoes ==
  ASSUME TypeOK, Recover
  PROVE  /\ node = "recover" /\ node' = "rerank"
         /\ SameTurn(st, st') /\ SameDraft(st, st')
         /\ \A c \in st'.pool : c \in st.pool \/ c.build = st.binding
         /\ st'.context = st.context /\ st'.pools = st.pools
         /\ st'.retry = st.retry + 1 /\ st'.final = st.final
<1> DEFINE s == [st EXCEPT !.retry = @ + 1]
<1>1. st \in RAGState
  BY DEF TypeOK
<1>2. /\ node = "recover" /\ node' = "rerank"
      /\ \/ st' = s
         \/ \E found \in Found : \E a :
              st' = [s EXCEPT !.tried = @ \cup {a}, !.pool = @ \cup found]
  <2>1. PICK deep \in BOOLEAN :
          \/ NextActions(st, deep) = {} /\ Ran(s, "rerank")
          \/ \E a \in NextActions(st, deep), found \in Found :
               Ran([s EXCEPT !.tried = @ \cup {a}, !.pool = @ \cup found], "rerank")
    BY DEF Recover
  <2>2. node = "recover"
    BY DEF Recover
  <2> HIDE DEF s
  <2>3. QED BY <2>1, <2>2 DEF Ran
<1>3. s \in RAGState
  BY <1>1, DraftTypes
<1>4. /\ SameTurn(st, s) /\ SameEvidence(st, s) /\ SameDraft(st, s)
      /\ s.retry = st.retry + 1 /\ s.final = st.final
  BY <1>1, RetryKeeps
<1> HIDE DEF s
<1>5. CASE st' = s
  BY <1>2, <1>4, <1>5 DEF SameTurn, SameEvidence, SameDraft
<1>6. ASSUME NEW a, NEW found \in Found,
             st' = [s EXCEPT !.tried = @ \cup {a}, !.pool = @ \cup found]
      PROVE  /\ SameTurn(st, st') /\ SameDraft(st, st')
             /\ \A c \in st'.pool : c \in st.pool \/ c.build = st.binding
             /\ st'.context = st.context /\ st'.pools = st.pools
             /\ st'.retry = st.retry + 1 /\ st'.final = st.final
  <2>1. /\ SameTurn(s, st') /\ SameDraft(s, st') /\ st'.pool = s.pool \cup found
        /\ st'.context = s.context /\ st'.pools = s.pools
        /\ st'.retry = s.retry /\ st'.final = s.final
    BY <1>3, <1>6 DEF RAGState, SameTurn, SameDraft
  <2>2. \A c \in st'.pool : c \in st.pool \/ c.build = st.binding
    BY <1>4, <2>1, FoundOurs DEF SameEvidence
  <2>3. QED BY <1>4, <2>1, <2>2 DEF SameTurn, SameEvidence, SameDraft
<1>7. QED BY <1>2, <1>5, <1>6

\* retrieve_comparison fills a pool for each of the two manuals.
LEMMA RetrieveComparisonDoes ==
  ASSUME TypeOK, RetrieveComparison
  PROVE  /\ node = "retrieve_comparison" /\ node' = "rerank_comparison"
         /\ SameTurn(st, st') /\ SameDraft(st, st') /\ SameProgress(st, st')
         /\ st'.pool = st.pool /\ st'.context = st.context
         /\ st'.pools \in [st.pair -> SUBSET Chunk]
         /\ \A k \in st.pair : \A c \in st'.pools[k] : c.build = st.binding
<1>1. PICK found \in FoundSides(st.pair) :
        /\ node = "retrieve_comparison" /\ node' = "rerank_comparison"
        /\ st' = [st EXCEPT !.pools = found]
  BY DEF RetrieveComparison, Ran
<1>2. st'.pools = found
  BY <1>1 DEF TypeOK, RAGState
<1>3. /\ SameTurn(st, st') /\ SameDraft(st, st') /\ SameProgress(st, st')
      /\ st'.pool = st.pool /\ st'.context = st.context
  BY <1>1 DEF TypeOK, RAGState, SameTurn, SameDraft, SameProgress
<1>4. found \in [st.pair -> SUBSET Chunk]
  BY FoundType DEF FoundSides
<1>5. \A k \in st.pair : \A c \in found[k] : c.build = st.binding
  BY FoundOurs DEF FoundSides
<1>6. QED BY <1>1, <1>2, <1>3, <1>4, <1>5

\* rerank_comparison chooses a context from each pool; together they are the context.
LEMMA RerankComparisonDoes ==
  ASSUME TypeOK, RerankComparison
  PROVE  /\ node = "rerank_comparison"
         /\ node' \in {"check_comparison_evidence", "generate_comparison"}
         /\ SameTurn(st, st') /\ SameDraft(st, st') /\ SameProgress(st, st')
         /\ st'.pool = st.pool /\ st'.pools = st.pools
         /\ st'.context = UNION {st'.sides[k] : k \in st.pair}
         /\ \A k \in st.pair : st'.sides[k] \subseteq st.pools[k]
<1>1. PICK top \in [st.pair -> SUBSET Chunk] :
        /\ \A k \in st.pair :
             top[k] \subseteq st.pools[k] /\ (st.pools[k] # {} => top[k] # {})
        /\ Ran([st EXCEPT !.sides = top, !.context = UNION {top[k] : k \in st.pair}],
               IF mode = "post_generation" THEN "check_comparison_evidence"
               ELSE "generate_comparison")
  BY DEF RerankComparison
<1> DEFINE all == UNION {top[k] : k \in st.pair}
<1>2. st' = [st EXCEPT !.sides = top, !.context = all]
  BY <1>1 DEF Ran
<1>3. /\ node = "rerank_comparison"
      /\ node' \in {"check_comparison_evidence", "generate_comparison"}
  BY <1>1 DEF Ran, RerankComparison
<1>4. st'.sides = top /\ st'.context = all
  <2> HIDE DEF all
  <2>1. QED BY <1>2 DEF TypeOK, RAGState
<1>5. /\ SameTurn(st, st') /\ SameDraft(st, st') /\ SameProgress(st, st')
      /\ st'.pool = st.pool /\ st'.pools = st.pools
  <2> HIDE DEF all
  <2>1. QED BY <1>2 DEF TypeOK, RAGState, SameTurn, SameDraft, SameProgress
<1>6. QED BY <1>1, <1>3, <1>4, <1>5

\* A targeted comparison search deepens the pools and is a correction; failing, it stops.
LEMMA TargetedComparisonRetrieveDoes ==
  ASSUME TypeOK, SidesInv, TargetedComparisonRetrieve
  PROVE  /\ node = "targeted_comparison_retrieve" /\ node' \in {"rerank_comparison", "finalize"}
         /\ SameTurn(st, st') /\ SameDraft(st, st')
         /\ st'.pool = st.pool /\ st'.context = st.context
         /\ st'.pools \in [st.pair -> SUBSET Chunk]
         /\ \A k \in st.pair : \A c \in st'.pools[k] :
              c \in st.pools[k] \/ c.build = st.binding
         /\ st'.retry = st.retry + 1 /\ st'.final = st.final
         /\ node' = "finalize" => st'.action # "accept"
<1> DEFINE s == [st EXCEPT !.retry = @ + 1]
           Pool(found, k) == st.pools[k] \cup IF k \in st.missing THEN found[k] ELSE {}
<1>1. st \in RAGState
  BY DEF TypeOK
<1>2. node = "targeted_comparison_retrieve"
  BY DEF TargetedComparisonRetrieve
<1>p. st.pools \in [st.pair -> SUBSET Chunk]
  BY <1>2 DEF SidesInv, Comparing
<1>3. \/ \E found \in FoundSides(st.missing) :
           /\ st' = [s EXCEPT !.pools = [k \in st.pair |-> Pool(found, k)]]
           /\ node' = "rerank_comparison"
      \/ st' = RecoveryFailed(s) /\ node' = "finalize"
  BY DEF TargetedComparisonRetrieve, Ran
<1>4. s \in RAGState
  BY <1>1, DraftTypes
<1>5. /\ SameTurn(st, s) /\ SameEvidence(st, s) /\ SameDraft(st, s)
      /\ s.retry = st.retry + 1 /\ s.final = st.final
  BY <1>1, RetryKeeps
<1> HIDE DEF s
<1>6. CASE st' = RecoveryFailed(s) /\ node' = "finalize"
  <2>1. /\ SameTurn(s, st') /\ SameEvidence(s, st') /\ SameDraft(s, st')
        /\ st'.retry = s.retry /\ st'.final = s.final /\ st'.action = "stop"
    BY <1>4, <1>6, RecoveryFailedKeeps
  <2>2. QED BY <1>2, <1>5, <1>6, <1>p, <2>1 DEF SameTurn, SameEvidence, SameDraft
<1>7. ASSUME NEW found \in FoundSides(st.missing), NEW pools,
             pools = [k \in st.pair |-> Pool(found, k)],
             st' = [s EXCEPT !.pools = pools]
      PROVE  /\ SameTurn(st, st') /\ SameDraft(st, st')
             /\ st'.pool = st.pool /\ st'.context = st.context
             /\ st'.pools \in [st.pair -> SUBSET Chunk]
             /\ \A k \in st.pair : \A c \in st'.pools[k] :
                  c \in st.pools[k] \/ c.build = st.binding
             /\ st'.retry = st.retry + 1 /\ st'.final = st.final
  <2>1. /\ SameTurn(s, st') /\ SameDraft(s, st') /\ st'.pools = pools
        /\ st'.pool = s.pool /\ st'.context = s.context
        /\ st'.retry = s.retry /\ st'.final = s.final
    BY <1>4, <1>7 DEF RAGState, SameTurn, SameDraft
  <2>2. \A k \in st.pair : k \in st.missing =>
          found[k] \in SUBSET Chunk /\ \A c \in found[k] : c.build = st.binding
    BY FoundType, FoundOurs DEF FoundSides
  <2>3. \A k \in st.pair : pools[k] = Pool(found, k) /\ Pool(found, k) \in SUBSET Chunk
    BY <1>7, <1>p, <2>2
  <2>4. pools \in [st.pair -> SUBSET Chunk]
    BY <1>7, <2>3
  <2>5. \A k \in st.pair : \A c \in pools[k] : c \in st.pools[k] \/ c.build = st.binding
    BY <2>2, <2>3
  <2>6. QED BY <1>5, <2>1, <2>4, <2>5 DEF SameTurn, SameEvidence, SameDraft
<1> HIDE DEF Pool
<1>8. QED BY <1>2, <1>3, <1>6, <1>7

\* finalize lets an accepted draft pass and limits the answer otherwise.
LEMMA FinalizeDoes ==
  ASSUME TypeOK, Finalize
  PROVE  /\ node = "finalize" /\ node' = "end"
         /\ SameTurn(st, st') /\ SameEvidence(st, st')
         /\ st'.basis = st.basis /\ st'.drafts = st.drafts /\ st'.approved = st.approved
         /\ st'.retry = st.retry /\ st'.error = st.error
         /\ \/ /\ st.action = "accept" /\ ~ st.error
               /\ st'.answer = st.answer /\ st'.final = "accepted"
            \/ st'.answer = "limited" /\ st'.final \in {"limited", "scope_error"}
<1>1. st \in RAGState
  BY DEF TypeOK
<1>2. node = "finalize" /\ node' = "end"
  BY DEF Finalize, Ran
<1>3. CASE st.action = "accept" /\ ~ st.error
  <2>1. st' = [st EXCEPT !.final = "accepted"]
    BY <1>3 DEF Finalize, Ran
  <2>2. QED BY <1>1, <1>2, <1>3, <2>1 DEF RAGState, SameTurn, SameEvidence
<1>4. CASE ~ (st.action = "accept" /\ ~ st.error)
  <2>1. PICK f \in {"limited", "scope_error"} :
          st' = [st EXCEPT !.answer = "limited", !.final = f]
    BY <1>4 DEF Finalize, Ran
  <2>2. QED BY <1>1, <1>2, <2>1 DEF RAGState, SameTurn, SameEvidence
<1>5. QED BY <1>3, <1>4

\* A node changes the turn only.
LEMMA NodesKeep ==
  NodeStep => UNCHANGED <<mode, budget, active, last, before, turns, promotions>>
<1> USE DEF Ran
<1>1. Contextualize \/ AnswerFromRecords \/ ResolveScope \/ ResolveComparisonScopes
        => UNCHANGED <<mode, budget, active, last, before, turns, promotions>>
  BY DEF Contextualize, AnswerFromRecords, ResolveScope, ResolveComparisonScopes
<1>2. AnswerFixed \/ ReuseEvidence \/ Decompose \/ Retrieve \/ Rerank \/ CheckEvidence
        => UNCHANGED <<mode, budget, active, last, before, turns, promotions>>
  BY DEF AnswerFixed, ReuseEvidence, Decompose, Retrieve, Rerank, CheckEvidence
<1>3. Generate \/ ReviewAnswer \/ ReviseAnswer \/ TargetedRetrieve \/ RetrieveComparison
        => UNCHANGED <<mode, budget, active, last, before, turns, promotions>>
  BY DEF Generate, ReviewAnswer, ReviseAnswer, TargetedRetrieve, RetrieveComparison
<1>4. RerankComparison \/ CheckComparisonEvidence \/ GenerateComparison \/ ReviewComparison
        => UNCHANGED <<mode, budget, active, last, before, turns, promotions>>
  BY DEF RerankComparison, CheckComparisonEvidence, GenerateComparison, ReviewComparison
<1>5. ReviseComparison \/ TargetedComparisonRetrieve \/ Finalize \/ AssessRetrieval \/ Recover
        => UNCHANGED <<mode, budget, active, last, before, turns, promotions>>
  BY DEF ReviseComparison, TargetedComparisonRetrieve, Finalize, AssessRetrieval, Recover
<1>6. QED BY <1>1, <1>2, <1>3, <1>4, <1>5 DEF NodeStep

\* Where a draft goes.
LEMMA ReviewersAre ==
  /\ Reviewer = IF mode = "post_generation" THEN "review_answer" ELSE "end"
  /\ ComparisonReviewer = IF mode = "post_generation" THEN "review_comparison" ELSE "end"
  BY DEF Reviewer, ComparisonReviewer

-----------------------------------------------------------------------------
(* What happens around the graph.                                          *)

\* A reply is a round more.
LEMMA ReplyDoes ==
  ASSUME TypeOK, Reply
  PROVE  /\ node = "clarify" /\ st' \in RAGState
         /\ node' = IF st.behavior = "compare" THEN "resolve_comparison_scopes" ELSE "resolve_scope"
         /\ st'.binding = st.binding /\ st'.behavior = st.behavior /\ st'.pair = st.pair
         /\ ~ st'.antecedent /\ st'.rounds = st.rounds + 1
         /\ SameEvidence(st, st') /\ SameDraft(st, st') /\ SameProgress(st, st')
         /\ UNCHANGED <<mode, budget, active, last, turns, promotions>>
<1>1. st \in RAGState
  BY DEF TypeOK
<1>2. st' = [st EXCEPT !.rounds = @ + 1, !.asks = FALSE, !.antecedent = FALSE]
  BY DEF Reply
<1>3. st.rounds + 1 \in Nat
  <2>1. st.rounds \in Nat
    BY <1>1 DEF RAGState
  <2>2. QED BY <2>1
<1>4. st' \in RAGState
  BY <1>1, <1>2, <1>3 DEF RAGState
<1>5. /\ st'.binding = st.binding /\ st'.behavior = st.behavior /\ st'.pair = st.pair
      /\ ~ st'.antecedent /\ st'.rounds = st.rounds + 1
      /\ SameEvidence(st, st') /\ SameDraft(st, st') /\ SameProgress(st, st')
  BY <1>1, <1>2 DEF RAGState, SameEvidence, SameDraft, SameProgress
<1>6. QED BY <1>4, <1>5 DEF Reply, AfterClarify

\* A rejection gives back the scope of before and drops the answer with its evidence.
LEMMA RejectDoes ==
  ASSUME TypeOK, Reject
  PROVE  /\ node' = "idle" /\ st' \in RAGState
         /\ st'.answer = "" /\ st'.context = {} /\ st'.pool = {} /\ st'.pools = NoSides
         /\ st'.binding = st.binding /\ st'.basis = st.basis
         /\ st'.antecedent = st.antecedent
         /\ st'.retry = st.retry /\ st'.rounds = st.rounds /\ st'.drafts = st.drafts
         /\ UNCHANGED <<mode, budget, active, last, before, turns, promotions>>
<1>1. st \in RAGState
  BY DEF TypeOK
<1>2. st' = [st EXCEPT !.scope = before.scope, !.prior = before.prior,
                       !.answer = "", !.context = {}, !.pool = {}, !.pair = {},
                       !.sides = NoSides, !.pools = NoSides]
  BY DEF Reject
<1>3. st' \in RAGState
  <2>1. before.scope \in Scopes \cup {NoScope} /\ before.prior \in Scopes \cup {NoScope}
    BY DEF TypeOK
  <2>2. NoSides \in PartialSides
    BY SidesType
  <2>3. QED BY <1>1, <1>2, <2>1, <2>2 DEF RAGState
<1>4. /\ st'.answer = "" /\ st'.context = {} /\ st'.pool = {} /\ st'.pools = NoSides
      /\ st'.binding = st.binding /\ st'.basis = st.basis /\ st'.antecedent = st.antecedent
      /\ st'.retry = st.retry /\ st'.rounds = st.rounds /\ st'.drafts = st.drafts
  BY <1>1, <1>2 DEF RAGState
<1>5. QED BY <1>3, <1>4 DEF Reject

\* The other steps put the turn into place or leave it alone.
Around ==
  \/ /\ \E p \in Scopes \cup {NoScope} : st' = Fresh(active, p)
     /\ node = "idle" /\ node' = "contextualize"
     /\ UNCHANGED <<mode, budget, last>>
  \/ /\ st' = st /\ node' = "idle" /\ UNCHANGED <<mode, budget>>
  \/ st' = st /\ node' = node /\ UNCHANGED <<mode, budget, last>>

LEMMA AroundDo ==
  ASSUME TypeOK, BeginTurn \/ Answered \/ Abort \/ Promote \/ UNCHANGED vars
  PROVE  Around /\ TypeOK'
<1>st. st \in RAGState /\ active \in Builds
  BY DEF TypeOK
<1>1. CASE BeginTurn
  <2>1. st.scope \in Scopes \cup {NoScope} /\ st.prior \in Scopes \cup {NoScope}
    BY <1>st DEF RAGState
  <2>2. st' \in RAGState
    BY <1>1, <1>st, <2>1, FreshType DEF BeginTurn
  <2>3. node' \in Nodes
    BY <1>1, NodesAre DEF BeginTurn, Names
  <2>3b. node' \in Nodes'
    BY <1>1, <2>3, NodesAre DEF BeginTurn, Nodes, Edges, Names
  <2>4. turns' \in 0..MaxTurns
    BY <1>1, GraphBounds DEF BeginTurn, TypeOK
  <2>5. QED BY <1>1, <2>1, <2>2, <2>3b, <2>4 DEF BeginTurn, TypeOK, Around
<1>2. CASE Answered
  <2>1. st.context \in SUBSET Chunk /\ st.binding \in Builds
    BY <1>st DEF RAGState
  <2>2. last' \in [cited : SUBSET Chunk, build : Builds]
    BY <1>2, <2>1 DEF Answered
  <2>3. QED BY <1>2, <2>2 DEF Answered, TypeOK, Around
<1>3. CASE Abort
  BY <1>3 DEF Abort, TypeOK, Around, Nodes, Edges
<1>4. CASE Promote
  <2>1. promotions' \in 0..MaxPromotions
    BY <1>4, GraphBounds DEF Promote, TypeOK
  <2>2. QED BY <1>4, <2>1 DEF Promote, TypeOK, Around, Nodes, Edges
<1>5. CASE UNCHANGED vars
  BY <1>5 DEF vars, TypeOK, Around, Nodes, Edges
<1>6. QED BY <1>1, <1>2, <1>3, <1>4, <1>5

\* Every step keeps the types, when a comparison has its pools.
LEMMA TypesKept == TypeOK /\ SidesInv /\ [Next]_vars => TypeOK'
<1> SUFFICES ASSUME TypeOK, SidesInv, [Next]_vars PROVE TypeOK'
  OBVIOUS
<1>1. CASE NodeStep
  BY <1>1, NodesTyped
<1>2. CASE BeginTurn \/ Answered \/ Abort \/ Promote \/ UNCHANGED vars
  BY <1>2, AroundDo
<1>3. CASE Reply
  <2>1. st.scope \in Scopes \cup {NoScope} /\ st.prior \in Scopes \cup {NoScope}
    BY DEF TypeOK, RAGState
  <2>2. QED BY <1>3, <2>1, ReplyDoes, NodesAre DEF Reply, TypeOK, Names, Nodes, Edges
<1>4. CASE Reject
  BY <1>4, RejectDoes DEF TypeOK
<1>5. QED BY <1>1, <1>2, <1>3, <1>4 DEF Next

-----------------------------------------------------------------------------
(* The inductive invariants.                                               *)

\* What is spent so far leaves room for what the node is about to spend.
Correcting == {"revise_answer", "targeted_retrieve", "revise_comparison",
               "targeted_comparison_retrieve", "recover"}

\* Here a draft of its own is still owed to the search, the reply or the correction before.
Undrafted == {"contextualize", "resolve_scope", "resolve_comparison_scopes", "reuse_evidence",
              "decompose", "retrieve", "plan_comparison", "retrieve_comparison", "rerank",
              "rerank_comparison", "check_evidence", "check_comparison_evidence",
              "assess_retrieval", "recover", "generate", "generate_comparison"}

BudgetInv ==
  /\ WithinBudget
  /\ node = "contextualize" => st.rounds = 0
  /\ st.antecedent => st.rounds = 0
  /\ node = "clarify" => st.rounds < MaxClarify
  /\ node \in Correcting => st.retry < budget
  /\ node \in Undrafted => st.drafts <= st.rounds + st.retry

\* A turn that has nothing yet may change its build; one that reuses stays with the
\* build of the turn before.
BuildInv ==
  /\ \A c \in st.pool \cup st.context \cup st.basis : c.build = st.binding
  /\ \A k \in DOMAIN st.pools : \A c \in st.pools[k] : c.build = st.binding
  /\ node = "contextualize" =>
       st.pool \cup st.context \cup st.basis = {} /\ DOMAIN st.pools = {}
  /\ node \notin {"idle", "contextualize"} /\ st.behavior = "reuse" => last.build = st.binding
  /\ node = "reuse_evidence" => st.behavior = "reuse"

\* What waits for the reviewer, for finalize or for the user was written from the context.
ReviewInv ==
  /\ AcceptedAsReviewed
  /\ node \notin {"end", "idle"} => st.final = "not_reviewed"
  /\ node \in {"review_answer", "review_comparison"} =>
       st.answer \in {"", "draft"} /\ (st.answer = "draft" => st.basis = st.context)
  /\ node = "finalize" /\ st.action = "accept" /\ ~ st.error =>
       st.answer = "draft" /\ st.approved = st.drafts /\ st.basis = st.context
  /\ node = "end" /\ st.answer = "draft" => st.basis = st.context

\* A comparison's context is that of its sides.
Together(s) == s.context = UNION {s.sides[k] : k \in s.pair}

BothSides(s) == \A k \in s.pair : s.sides[k] # {}

ManualInv ==
  /\ node # "idle" /\ (st.behavior # "compare" \/ node = "contextualize") => st.pair = {}
  /\ node \in Single => st.behavior # "compare"
  /\ node = "resolve_comparison_scopes" => st.behavior = "compare"
  /\ node \in Comparing \ {"rerank_comparison"} => Together(st)
  /\ node = "finalize" /\ st.action = "accept" /\ st.pair # {} => Together(st) /\ BothSides(st)
  /\ node = "end" /\ st.answer = "draft" /\ st.pair # {} =>
       Together(st) /\ (mode = "post_generation" => BothSides(st))

\* A comparison keeps its pools.
LEMMA SidesKept == TypeOK /\ SidesInv /\ [Next]_vars => SidesInv'
<1> SUFFICES ASSUME TypeOK, SidesInv, [Next]_vars PROVE SidesInv'
  OBVIOUS
<1> USE DEF SidesInv, Comparing
<1>1. CASE Contextualize
  BY <1>1, ContextualizeDoes
<1>2. CASE AnswerFromRecords \/ AnswerFixed
  BY <1>2, FixedAnswersDo
<1>3. CASE ResolveScope
  BY <1>3, ResolveScopeDoes
<1>4. CASE ResolveComparisonScopes
  BY <1>4, ResolveComparisonScopesDoes
<1>5. CASE ReuseEvidence
  BY <1>5, ReuseEvidenceDoes, ReviewersAre
<1>6. CASE Decompose
  BY <1>6, DecomposeDoes
<1>7. CASE Retrieve
  BY <1>7, RetrieveDoes
<1>8. CASE Rerank
  BY <1>8, RerankDoes
<1>9. CASE CheckEvidence \/ CheckComparisonEvidence
  BY <1>9, ChecksDo DEF SameTurn, SameEvidence
<1>10. CASE Generate \/ GenerateComparison
  BY <1>10, GeneratesDo, ReviewersAre DEF SameTurn, SameEvidence
<1>11. CASE ReviseAnswer \/ ReviseComparison
  BY <1>11, RevisionsDo DEF SameTurn, SameEvidence
<1>12. CASE ReviewAnswer \/ ReviewComparison
  BY <1>12, ReviewsDo DEF SameTurn, SameEvidence
<1>13. CASE TargetedRetrieve
  BY <1>13, TargetedRetrieveDoes
<1>14. CASE AssessRetrieval
  BY <1>14, AssessRetrievalDoes
<1>15. CASE Recover
  BY <1>15, RecoverDoes
<1>16. CASE RetrieveComparison
  BY <1>16, RetrieveComparisonDoes DEF SameTurn
<1>17. CASE RerankComparison
  BY <1>17, RerankComparisonDoes DEF SameTurn
<1>18. CASE TargetedComparisonRetrieve
  BY <1>18, TargetedComparisonRetrieveDoes DEF SameTurn
<1>19. CASE Finalize
  BY <1>19, FinalizeDoes
<1>20. CASE BeginTurn \/ Answered \/ Abort \/ Promote \/ UNCHANGED vars
  BY <1>20, AroundDo DEF Around
<1>21. CASE Reply
  BY <1>21, ReplyDoes
<1>22. CASE Reject
  BY <1>22, RejectDoes
<1>23. QED
  BY <1>1, <1>2, <1>3, <1>4, <1>5, <1>6, <1>7, <1>8, <1>9, <1>10, <1>11, <1>12, <1>13, <1>14,
     <1>15, <1>16, <1>17, <1>18, <1>19, <1>20, <1>21, <1>22 DEF Next, NodeStep

\* The counters of a turn are natural numbers.
LEMMA Counts ==
  ASSUME NEW s \in RAGState PROVE s.retry \in Nat /\ s.rounds \in Nat /\ s.drafts \in Nat
  BY DEF RAGState

\* No step spends more than is left.
LEMMA BudgetInvKept == TypeOK /\ SidesInv /\ BudgetInv /\ [Next]_vars => BudgetInv'
<1> SUFFICES ASSUME TypeOK, SidesInv, BudgetInv, [Next]_vars PROVE BudgetInv'
  OBVIOUS
<1>n. /\ st.retry \in Nat /\ st.rounds \in Nat /\ st.drafts \in Nat
      /\ st'.retry \in Nat /\ st'.rounds \in Nat /\ st'.drafts \in Nat /\ budget \in Nat
  <2>1. st \in RAGState /\ st' \in RAGState
    BY TypesKept DEF TypeOK
  <2>2. budget \in Nat
    BY GraphBounds DEF TypeOK
  <2>3. QED BY <2>1, <2>2, Counts
<1> USE DEF BudgetInv, WithinBudget, MaxClarify, Correcting, Undrafted
<1>keep. NodeStep => UNCHANGED <<mode, budget, active, last, before, turns, promotions>>
  BY NodesKeep
<1>1. CASE Contextualize
  BY <1>1, <1>keep, ContextualizeDoes, <1>n DEF NodeStep, SameTurn, SameDraft, SameProgress
<1>2. CASE AnswerFromRecords \/ AnswerFixed
  BY <1>2, <1>keep, FixedAnswersDo, <1>n DEF NodeStep, SameTurn, SameDraft, SameProgress
<1>3. CASE ResolveScope
  BY <1>3, <1>keep, ResolveScopeDoes, <1>n DEF NodeStep, SameTurn, SameDraft, SameProgress
<1>4. CASE ResolveComparisonScopes
  BY <1>4, <1>keep, ResolveComparisonScopesDoes, <1>n DEF NodeStep, SameTurn, SameDraft, SameProgress
<1>5. CASE ReuseEvidence
  <2>1. /\ node = "reuse_evidence" /\ node' \in {"review_answer", "end"}
        /\ st'.antecedent = st.antecedent /\ st'.rounds = st.rounds /\ st'.retry = st.retry
        /\ st'.drafts \in {st.drafts, st.drafts + 1} /\ budget' = budget
    BY <1>5, <1>keep, ReuseEvidenceDoes, ReviewersAre DEF NodeStep, SameOrCorrects
  <2>2. QED BY <1>n, <2>1
<1>6. CASE Decompose
  BY <1>6, <1>keep, DecomposeDoes, <1>n DEF NodeStep, SameTurn, SameDraft, SameProgress
<1>7. CASE Retrieve
  BY <1>7, <1>keep, RetrieveDoes, <1>n DEF NodeStep, SameTurn, SameDraft, SameProgress
<1>8. CASE Rerank
  BY <1>8, <1>keep, RerankDoes, <1>n DEF NodeStep, SameTurn, SameDraft, SameProgress
<1>9. CASE CheckEvidence \/ CheckComparisonEvidence
  BY <1>9, <1>keep, ChecksDo, <1>n DEF NodeStep, SameTurn, SameDraft, SameProgress
<1>10. CASE Generate \/ GenerateComparison
  <2>1. /\ node \in {"generate", "generate_comparison"}
        /\ node' \in {"review_answer", "review_comparison", "end"}
        /\ st'.antecedent = st.antecedent /\ st'.rounds = st.rounds /\ st'.retry = st.retry
        /\ st'.drafts \in {st.drafts, st.drafts + 1} /\ budget' = budget
    BY <1>10, <1>keep, GeneratesDo, ReviewersAre DEF NodeStep, SameTurn, Wrote
  <2>2. QED BY <1>n, <2>1
<1>11. CASE ReviseAnswer \/ ReviseComparison
  <2>1. /\ node \in {"revise_answer", "revise_comparison"}
        /\ node' \in {"review_answer", "review_comparison"}
        /\ st'.antecedent = st.antecedent /\ st'.rounds = st.rounds
        /\ st'.retry = st.retry + 1
        /\ st'.drafts \in {st.drafts, st.drafts + 1} /\ budget' = budget
    BY <1>11, <1>keep, RevisionsDo DEF NodeStep, SameTurn, Wrote
  <2>2. QED BY <1>n, <2>1
<1>12. CASE ReviewAnswer \/ ReviewComparison
  BY <1>12, <1>keep, ReviewsDo, <1>n DEF NodeStep, SameTurn, SameDraft, SameProgress
<1>13. CASE TargetedRetrieve
  BY <1>13, <1>keep, TargetedRetrieveDoes, <1>n DEF NodeStep, SameTurn, SameDraft, SameProgress
<1>14. CASE AssessRetrieval
  BY <1>14, <1>keep, AssessRetrievalDoes, <1>n DEF NodeStep, SameTurn, SameDraft, SameProgress
<1>15. CASE Recover
  BY <1>15, <1>keep, RecoverDoes, <1>n DEF NodeStep, SameTurn, SameDraft, SameProgress
<1>16. CASE RetrieveComparison
  BY <1>16, <1>keep, RetrieveComparisonDoes, <1>n DEF NodeStep, SameTurn, SameDraft, SameProgress
<1>17. CASE RerankComparison
  BY <1>17, <1>keep, RerankComparisonDoes, <1>n DEF NodeStep, SameTurn, SameDraft, SameProgress
<1>18. CASE TargetedComparisonRetrieve
  BY <1>18, <1>keep, TargetedComparisonRetrieveDoes, <1>n DEF NodeStep, SameTurn, SameDraft, SameProgress
<1>19. CASE Finalize
  BY <1>19, <1>keep, FinalizeDoes, <1>n DEF NodeStep, SameTurn, SameDraft, SameProgress
<1>20. CASE BeginTurn \/ Answered \/ Abort \/ Promote \/ UNCHANGED vars
  <2>1. Around
    BY <1>20, AroundDo
  <2>2. CASE st' = st /\ node' \in {node, "idle"} /\ budget' = budget
    BY <2>2
  <2>3. ASSUME NEW p, st' = Fresh(active, p), node' = "contextualize", budget' = budget
        PROVE  BudgetInv'
    <3>1. st'.retry = 0 /\ st'.rounds = 0 /\ st'.drafts = 0
      BY <2>3 DEF Fresh
    <3>2. QED BY <1>n, <2>3, <3>1
  <2>4. QED BY <2>1, <2>2, <2>3 DEF Around
<1>21. CASE Reply
  BY <1>21, ReplyDoes, <1>n DEF SameTurn, SameDraft, SameProgress
<1>22. CASE Reject
  BY <1>22, RejectDoes, <1>n DEF SameTurn, SameDraft, SameProgress
<1>23. QED
  BY <1>1, <1>2, <1>3, <1>4, <1>5, <1>6, <1>7, <1>8, <1>9, <1>10, <1>11, <1>12, <1>13, <1>14,
     <1>15, <1>16, <1>17, <1>18, <1>19, <1>20, <1>21, <1>22 DEF Next, NodeStep

\* The evidence of a turn stays within its build.
LEMMA BuildInvKept == TypeOK /\ SidesInv /\ BuildInv /\ [Next]_vars => BuildInv'
<1> SUFFICES ASSUME TypeOK, SidesInv, BuildInv, [Next]_vars PROVE BuildInv'
  OBVIOUS
<1> USE DEF BuildInv
<1>keep. NodeStep => UNCHANGED <<mode, budget, active, last, before, turns, promotions>>
  BY NodesKeep
<1>1. CASE Contextualize
  BY <1>1, <1>keep, ContextualizeDoes DEF NodeStep, SameTurn, SameEvidence, SameDraft
<1>2. CASE AnswerFromRecords \/ AnswerFixed
  BY <1>2, <1>keep, FixedAnswersDo DEF NodeStep, SameTurn, SameEvidence, SameDraft
<1>3. CASE ResolveScope
  BY <1>3, <1>keep, ResolveScopeDoes DEF NodeStep, SameTurn, SameEvidence, SameDraft
<1>4. CASE ResolveComparisonScopes
  BY <1>4, <1>keep, ResolveComparisonScopesDoes DEF NodeStep, SameTurn, SameEvidence, SameDraft
<1>5. CASE ReuseEvidence
  BY <1>5, <1>keep, ReuseEvidenceDoes, ReviewersAre DEF NodeStep, SameOrCorrects, SameEvidence, SameDraft
<1>6. CASE Decompose
  BY <1>6, <1>keep, DecomposeDoes DEF NodeStep, SameTurn, SameEvidence, SameDraft
<1>7. CASE Retrieve
  BY <1>7, <1>keep, RetrieveDoes DEF NodeStep, SameTurn, SameEvidence, SameDraft
<1>8. CASE Rerank
  BY <1>8, <1>keep, RerankDoes DEF NodeStep, SameTurn, SameEvidence, SameDraft
<1>9. CASE CheckEvidence \/ CheckComparisonEvidence
  BY <1>9, <1>keep, ChecksDo DEF NodeStep, SameTurn, SameEvidence, SameDraft
<1>10. CASE Generate \/ GenerateComparison
  BY <1>10, <1>keep, GeneratesDo, ReviewersAre DEF NodeStep, SameTurn, SameEvidence, SameDraft, Wrote
<1>11. CASE ReviseAnswer \/ ReviseComparison
  BY <1>11, <1>keep, RevisionsDo DEF NodeStep, SameTurn, SameEvidence, SameDraft, Wrote
<1>12. CASE ReviewAnswer \/ ReviewComparison
  BY <1>12, <1>keep, ReviewsDo DEF NodeStep, SameTurn, SameEvidence, SameDraft
<1>13. CASE TargetedRetrieve
  BY <1>13, <1>keep, TargetedRetrieveDoes DEF NodeStep, SameTurn, SameEvidence, SameDraft
<1>14. CASE AssessRetrieval
  BY <1>14, <1>keep, AssessRetrievalDoes DEF NodeStep, SameTurn, SameEvidence, SameDraft
<1>15. CASE Recover
  BY <1>15, <1>keep, RecoverDoes DEF NodeStep, SameTurn, SameEvidence, SameDraft
<1>16. CASE RetrieveComparison
  BY <1>16, <1>keep, RetrieveComparisonDoes DEF NodeStep, SameTurn, SameEvidence, SameDraft
<1>17. CASE RerankComparison
  <2>1. st.pools \in [st.pair -> SUBSET Chunk]
    BY <1>17, RerankComparisonDoes DEF SidesInv, Comparing
  <2>2. \A c \in st'.context : c.build = st.binding
    BY <1>17, <2>1, RerankComparisonDoes
  <2>3. QED
    BY <1>17, <1>keep, <2>2, RerankComparisonDoes DEF NodeStep, SameTurn, SameDraft
<1>18. CASE TargetedComparisonRetrieve
  <2>1. st.pools \in [st.pair -> SUBSET Chunk] /\ st'.pools \in [st.pair -> SUBSET Chunk]
    BY <1>18, TargetedComparisonRetrieveDoes DEF SidesInv, Comparing
  <2>2. \A k \in DOMAIN st'.pools : \A c \in st'.pools[k] : c.build = st.binding
    BY <1>18, <2>1, TargetedComparisonRetrieveDoes
  <2>3. QED
    BY <1>18, <1>keep, <2>2, TargetedComparisonRetrieveDoes DEF NodeStep, SameTurn, SameDraft
<1>19. CASE Finalize
  BY <1>19, <1>keep, FinalizeDoes DEF NodeStep, SameTurn, SameEvidence, SameDraft
<1>20. CASE BeginTurn \/ Answered \/ Abort \/ Promote \/ UNCHANGED vars
  <2>1. Around
    BY <1>20, AroundDo
  <2>2. CASE st' = st /\ node' = "idle"
    BY <2>2
  <2>3. CASE st' = st /\ node' = node /\ last' = last
    BY <2>3
  <2>4. ASSUME NEW p, st' = Fresh(active, p), node' = "contextualize"
        PROVE  BuildInv'
    <3>1. /\ st'.pool = {} /\ st'.context = {} /\ st'.basis = {} /\ DOMAIN st'.pools = {}
      BY <2>4 DEF Fresh, NoSides
    <3>2. QED BY <2>4, <3>1
  <2>5. QED BY <2>1, <2>2, <2>3, <2>4 DEF Around
<1>21. CASE Reply
  BY <1>21, ReplyDoes DEF SameTurn, SameEvidence, SameDraft
<1>22. CASE Reject
  <2>1. DOMAIN st'.pools = {}
    BY <1>22, RejectDoes DEF NoSides
  <2>2. QED BY <1>22, <2>1, RejectDoes
<1>23. QED
  BY <1>1, <1>2, <1>3, <1>4, <1>5, <1>6, <1>7, <1>8, <1>9, <1>10, <1>11, <1>12, <1>13, <1>14,
     <1>15, <1>16, <1>17, <1>18, <1>19, <1>20, <1>21, <1>22 DEF Next, NodeStep

\* What is accepted is the draft that was written from the context.
LEMMA ReviewInvKept == TypeOK /\ SidesInv /\ ReviewInv /\ [Next]_vars => ReviewInv'
<1> SUFFICES ASSUME TypeOK, SidesInv, ReviewInv, [Next]_vars PROVE ReviewInv'
  OBVIOUS
<1> USE DEF ReviewInv, AcceptedAsReviewed
<1>keep. NodeStep => UNCHANGED <<mode, budget, active, last, before, turns, promotions>>
  BY NodesKeep
<1>1. CASE Contextualize
  BY <1>1, <1>keep, ContextualizeDoes DEF NodeStep, SameTurn, SameEvidence, SameDraft, SameProgress
<1>2. CASE AnswerFromRecords \/ AnswerFixed
  BY <1>2, <1>keep, FixedAnswersDo DEF NodeStep, SameTurn, SameEvidence, SameDraft, SameProgress
<1>3. CASE ResolveScope
  BY <1>3, <1>keep, ResolveScopeDoes DEF NodeStep, SameTurn, SameEvidence, SameDraft, SameProgress
<1>4. CASE ResolveComparisonScopes
  BY <1>4, <1>keep, ResolveComparisonScopesDoes DEF NodeStep, SameTurn, SameEvidence, SameDraft, SameProgress
<1>5. CASE ReuseEvidence
  BY <1>5, <1>keep, ReuseEvidenceDoes, ReviewersAre DEF NodeStep, SameOrCorrects, SameEvidence, SameDraft, SameProgress
<1>6. CASE Decompose
  BY <1>6, <1>keep, DecomposeDoes DEF NodeStep, SameTurn, SameEvidence, SameDraft, SameProgress
<1>7. CASE Retrieve
  BY <1>7, <1>keep, RetrieveDoes DEF NodeStep, SameTurn, SameEvidence, SameDraft, SameProgress
<1>8. CASE Rerank
  BY <1>8, <1>keep, RerankDoes DEF NodeStep, SameTurn, SameEvidence, SameDraft, SameProgress
<1>9. CASE CheckEvidence \/ CheckComparisonEvidence
  BY <1>9, <1>keep, ChecksDo DEF NodeStep, SameTurn, SameEvidence, SameDraft, SameProgress
<1>10. CASE Generate \/ GenerateComparison
  BY <1>10, <1>keep, GeneratesDo, ReviewersAre DEF NodeStep, SameTurn, SameEvidence, SameDraft, SameProgress, Wrote
<1>11. CASE ReviseAnswer \/ ReviseComparison
  BY <1>11, <1>keep, RevisionsDo DEF NodeStep, SameTurn, SameEvidence, SameDraft, SameProgress, Wrote
<1>12. CASE ReviewAnswer \/ ReviewComparison
  BY <1>12, <1>keep, ReviewsDo DEF NodeStep, SameTurn, SameEvidence, SameDraft, SameProgress
<1>13. CASE TargetedRetrieve
  BY <1>13, <1>keep, TargetedRetrieveDoes DEF NodeStep, SameTurn, SameEvidence, SameDraft, SameProgress
<1>14. CASE AssessRetrieval
  BY <1>14, <1>keep, AssessRetrievalDoes DEF NodeStep, SameTurn, SameEvidence, SameDraft, SameProgress
<1>15. CASE Recover
  BY <1>15, <1>keep, RecoverDoes DEF NodeStep, SameTurn, SameEvidence, SameDraft, SameProgress
<1>16. CASE RetrieveComparison
  BY <1>16, <1>keep, RetrieveComparisonDoes DEF NodeStep, SameTurn, SameEvidence, SameDraft, SameProgress
<1>17. CASE RerankComparison
  BY <1>17, <1>keep, RerankComparisonDoes DEF NodeStep, SameTurn, SameEvidence, SameDraft, SameProgress
<1>18. CASE TargetedComparisonRetrieve
  BY <1>18, <1>keep, TargetedComparisonRetrieveDoes DEF NodeStep, SameTurn, SameEvidence, SameDraft, SameProgress
<1>19. CASE Finalize
  BY <1>19, <1>keep, FinalizeDoes DEF NodeStep, SameTurn, SameEvidence, SameDraft, SameProgress
<1>20. CASE BeginTurn \/ Answered \/ Abort \/ Promote \/ UNCHANGED vars
  <2>1. Around
    BY <1>20, AroundDo
  <2>2. CASE st' = st /\ node' = "idle" /\ mode' = mode
    BY <2>2
  <2>3. CASE st' = st /\ node' = node /\ mode' = mode
    BY <2>3
  <2>4. ASSUME NEW p, st' = Fresh(active, p), node' = "contextualize"
        PROVE  ReviewInv'
    <3>1. st'.final = "not_reviewed"
      BY <2>4 DEF Fresh
    <3>2. QED BY <2>4, <3>1
  <2>5. QED BY <2>1, <2>2, <2>3, <2>4 DEF Around
<1>21. CASE Reply
  BY <1>21, ReplyDoes DEF SameTurn, SameEvidence, SameDraft, SameProgress
<1>22. CASE Reject
  BY <1>22, RejectDoes DEF SameTurn, SameEvidence, SameDraft, SameProgress
<1>23. QED
  BY <1>1, <1>2, <1>3, <1>4, <1>5, <1>6, <1>7, <1>8, <1>9, <1>10, <1>11, <1>12, <1>13, <1>14,
     <1>15, <1>16, <1>17, <1>18, <1>19, <1>20, <1>21, <1>22 DEF Next, NodeStep

\* What leaves pair and evidence alone leaves the sides together.
LEMMA SidesSame ==
  ASSUME NEW s, NEW d, SameTurn(s, d), SameEvidence(s, d)
  PROVE  (Together(s) => Together(d)) /\ (BothSides(s) => BothSides(d))
  BY DEF SameTurn, SameEvidence, Together, BothSides

\* The context of a comparison is that of its two sides.
LEMMA ManualInvKept == TypeOK /\ SidesInv /\ ReviewInv /\ ManualInv /\ [Next]_vars => ManualInv'
<1> SUFFICES ASSUME TypeOK, SidesInv, ReviewInv, ManualInv, [Next]_vars PROVE ManualInv'
  OBVIOUS
<1> USE DEF ManualInv, Single, Comparing
<1>keep. NodeStep => UNCHANGED <<mode, budget, active, last, before, turns, promotions>>
  BY NodesKeep
<1>1. CASE Contextualize
  BY <1>1, <1>keep, ContextualizeDoes DEF NodeStep, SameTurn, SameEvidence, SameDraft, SameProgress
<1>2. CASE AnswerFromRecords \/ AnswerFixed
  BY <1>2, <1>keep, FixedAnswersDo DEF NodeStep, SameTurn, SameEvidence, SameDraft, SameProgress
<1>3. CASE ResolveScope
  BY <1>3, <1>keep, ResolveScopeDoes DEF NodeStep, SameTurn, SameEvidence, SameDraft, SameProgress
<1>4. CASE ResolveComparisonScopes
  BY <1>4, <1>keep, ResolveComparisonScopesDoes DEF NodeStep, SameTurn, SameEvidence, SameDraft, SameProgress
<1>5. CASE ReuseEvidence
  BY <1>5, <1>keep, ReuseEvidenceDoes, ReviewersAre DEF NodeStep, SameOrCorrects, SameEvidence, SameDraft, SameProgress
<1>6. CASE Decompose
  BY <1>6, <1>keep, DecomposeDoes DEF NodeStep, SameTurn, SameEvidence, SameDraft, SameProgress
<1>7. CASE Retrieve
  BY <1>7, <1>keep, RetrieveDoes DEF NodeStep, SameTurn, SameEvidence, SameDraft, SameProgress
<1>8. CASE Rerank
  BY <1>8, <1>keep, RerankDoes DEF NodeStep, SameTurn, SameEvidence, SameDraft, SameProgress
<1>9. CASE CheckEvidence \/ CheckComparisonEvidence
  <2>1. Together(st) => Together(st')
    BY <1>9, ChecksDo, SidesSame
  <2>2. QED BY <1>9, <1>keep, <2>1, ChecksDo DEF NodeStep, SameTurn
<1>10. CASE Generate \/ GenerateComparison
  <2>1. Together(st) => Together(st')
    BY <1>10, GeneratesDo, SidesSame
  <2>2. CASE node = "generate" /\ node' \in {"review_answer", "end"}
    BY <1>10, <2>2, GeneratesDo DEF SameTurn
  <2>3. CASE /\ node = "generate_comparison"
             /\ node' = IF mode = "post_generation" THEN "review_comparison" ELSE "end"
    BY <1>10, <1>keep, <2>1, <2>3, GeneratesDo DEF NodeStep, SameTurn
  <2>4. QED BY <1>10, <2>2, <2>3, GeneratesDo, ReviewersAre
<1>11. CASE ReviseAnswer \/ ReviseComparison
  <2>1. Together(st) => Together(st')
    BY <1>11, RevisionsDo, SidesSame
  <2>2. QED BY <1>11, <2>1, RevisionsDo DEF SameTurn
<1>12. CASE ReviewAnswer \/ ReviewComparison
  <2>1. (Together(st) => Together(st')) /\ (BothSides(st) => BothSides(st'))
    BY <1>12, ReviewsDo, SidesSame
  <2>2. SidesFault(st) = "" => BothSides(st)
    BY DEF SidesFault, BothSides
  <2>3. QED BY <1>12, <2>1, <2>2, ReviewsDo DEF SameTurn
<1>13. CASE TargetedRetrieve
  BY <1>13, <1>keep, TargetedRetrieveDoes DEF NodeStep, SameTurn, SameEvidence, SameDraft, SameProgress
<1>14. CASE AssessRetrieval
  BY <1>14, <1>keep, AssessRetrievalDoes DEF NodeStep, SameTurn, SameEvidence, SameDraft, SameProgress
<1>15. CASE Recover
  BY <1>15, <1>keep, RecoverDoes DEF NodeStep, SameTurn, SameEvidence, SameDraft, SameProgress
<1>16. CASE RetrieveComparison
  BY <1>16, <1>keep, RetrieveComparisonDoes DEF NodeStep, SameTurn, SameEvidence, SameDraft, SameProgress
<1>17. CASE RerankComparison
  <2>1. Together(st')
    BY <1>17, RerankComparisonDoes DEF Together, SameTurn
  <2>2. QED BY <1>17, <2>1, RerankComparisonDoes DEF SameTurn
<1>18. CASE TargetedComparisonRetrieve
  BY <1>18, <1>keep, TargetedComparisonRetrieveDoes DEF NodeStep, SameTurn, SameEvidence, SameDraft, SameProgress
<1>19. CASE Finalize
  <2>1. (Together(st) => Together(st')) /\ (BothSides(st) => BothSides(st'))
    BY <1>19, FinalizeDoes, SidesSame
  <2>2. QED BY <1>19, <2>1, FinalizeDoes DEF SameTurn
<1>20. CASE BeginTurn \/ Answered \/ Abort \/ Promote \/ UNCHANGED vars
  <2>1. Around
    BY <1>20, AroundDo
  <2>2. CASE st' = st /\ node' = "idle"
    BY <2>2
  <2>3. CASE st' = st /\ node' = node /\ mode' = mode
    BY <2>3 DEF Together, BothSides
  <2>4. ASSUME NEW p, st' = Fresh(active, p), node' = "contextualize"
        PROVE  ManualInv'
    <3>1. st'.pair = {}
      BY <2>4 DEF Fresh
    <3>2. QED BY <2>4, <3>1
  <2>5. QED BY <2>1, <2>2, <2>3, <2>4 DEF Around
<1>21. CASE Reply
  BY <1>21, ReplyDoes DEF SameTurn, SameEvidence, SameDraft, SameProgress
<1>22. CASE Reject
  BY <1>22, RejectDoes DEF SameTurn, SameEvidence, SameDraft, SameProgress
<1>23. QED
  BY <1>1, <1>2, <1>3, <1>4, <1>5, <1>6, <1>7, <1>8, <1>9, <1>10, <1>11, <1>12, <1>13, <1>14,
     <1>15, <1>16, <1>17, <1>18, <1>19, <1>20, <1>21, <1>22 DEF Next, NodeStep

-----------------------------------------------------------------------------
(* The theorems.                                                           *)

GraphInv == TypeOK /\ SidesInv /\ BudgetInv /\ BuildInv /\ ReviewInv /\ ManualInv

\* Nothing is spent, searched, written or compared before the first turn.
LEMMA InitInv == Init => GraphInv
<1> SUFFICES ASSUME Init PROVE GraphInv
  OBVIOUS
<1>1. TypeOK
  BY TypeInit
<1>2. node = "idle"
  BY DEF Init
<1>3. /\ st.retry = 0 /\ st.rounds = 0 /\ st.drafts = 0 /\ st.final = "not_reviewed"
      /\ st.pool = {} /\ st.context = {} /\ st.basis = {} /\ DOMAIN st.pools = {}
      /\ st.answer = "" /\ st.pair = {}
  BY DEF Init, Fresh, NoSides
<1>4. budget \in Nat
  BY <1>1, GraphBounds DEF TypeOK
<1>5. SidesInv
  BY <1>2 DEF SidesInv, Comparing
<1>6. BudgetInv
  <2>1. WithinBudget
    <3>1. 0 <= budget /\ 0 <= MaxClarify /\ 0 <= 1 + 0 + 0
      BY <1>4 DEF MaxClarify
    <3>2. QED BY <1>3, <3>1 DEF WithinBudget
  <2>2. node \notin Correcting \cup Undrafted \cup {"clarify", "contextualize"}
    BY <1>2 DEF Correcting, Undrafted
  <2>3. QED BY <1>3, <2>1, <2>2 DEF BudgetInv
<1>7. BuildInv
  BY <1>2, <1>3 DEF BuildInv
<1>8. ReviewInv
  BY <1>2, <1>3 DEF ReviewInv, AcceptedAsReviewed
<1>9. ManualInv
  BY <1>2, <1>3 DEF ManualInv, Single, Comparing
<1>10. QED BY <1>1, <1>5, <1>6, <1>7, <1>8, <1>9 DEF GraphInv

\* The invariant is inductive.
LEMMA Inductive == Spec => []GraphInv
<1>1. GraphInv /\ [Next]_vars => GraphInv'
  BY TypesKept, SidesKept, BudgetInvKept, BuildInvKept, ReviewInvKept, ManualInvKept DEF GraphInv
<1>2. QED BY <1>1, InitInv, PTL DEF Spec

\* The graph stores what RAGState says (RAGState, TurnState in pipeline.py), whatever the
\* manuals, builds, budgets and bounds.
THEOREM TypeCorrect == Spec => []TypeOK
<1>1. Init => TypeOK /\ SidesInv
  BY TypeInit DEF Init, SidesInv, Comparing
<1>2. TypeOK /\ SidesInv /\ [Next]_vars => (TypeOK /\ SidesInv)'
  BY TypesKept, SidesKept
<1>3. QED BY <1>1, <1>2, PTL DEF Spec

\* Whatever max_retries is, a turn corrects, clarifies and drafts no more than it allows.
THEOREM BudgetHolds == Spec => []WithinBudget
<1>1. GraphInv => WithinBudget
  BY DEF GraphInv, BudgetInv
<1>2. QED BY <1>1, Inductive, PTL

\* However many builds and releases there are, a turn's evidence is of the one build it is
\* pinned to, and what it reuses was cited from that build.
THEOREM OneBuildHolds == Spec => []OneBuild
<1>1. GraphInv => OneBuild
  BY DEF GraphInv, BuildInv, OneBuild
<1>2. QED BY <1>1, Inductive, PTL

\* An accepted answer is the draft the reviewer accepted, from the evidence still there,
\* and with the reviewer in the graph no other draft leaves it.
THEOREM AcceptedHolds == Spec => []AcceptedAsReviewed
<1>1. GraphInv => AcceptedAsReviewed
  BY DEF GraphInv, ReviewInv
<1>2. QED BY <1>1, Inductive, PTL

\* A draft that passes final_check was written from the turn's one manual or from the two
\* it compares, of however many.
THEOREM OneManualHolds == Spec => []OneManual
<1>1. GraphInv => OneManual
  <2> SUFFICES ASSUME GraphInv, node = "end", st.answer = "draft", FinalOK(st)
               PROVE  LET manuals == {c.scope : c \in st.basis}
                      IN  IF st.pair = {} THEN manuals \subseteq {st.scope}
                          ELSE /\ manuals \subseteq st.pair
                               /\ mode = "post_generation" => manuals = st.pair
    BY DEF OneManual
  <2>1. st.basis = st.context
    BY DEF GraphInv, ReviewInv
  <2>2. CASE st.pair = {}
    BY <2>1, <2>2 DEF FinalOK, EvidenceOK
  <2>3. CASE st.pair # {}
    <3>1. st.context = UNION {st.sides[k] : k \in st.pair}
      BY <2>3 DEF GraphInv, ManualInv, Together
    <3>2. mode = "post_generation" => \A k \in st.pair : st.sides[k] # {}
      BY <2>3 DEF GraphInv, ManualInv, BothSides
    <3>3. \A k \in st.pair : \A c \in st.sides[k] : c.scope = k
      BY <2>3 DEF FinalOK, SidesOK, EvidenceOK
    <3>4. {c.scope : c \in st.basis} \subseteq st.pair
      BY <2>1, <3>1, <3>3
    <3>5. ASSUME mode = "post_generation", NEW k \in st.pair
          PROVE  k \in {c.scope : c \in st.basis}
      <4>1. PICK c \in st.sides[k] : TRUE
        BY <3>2, <3>5
      <4>2. c \in st.basis /\ c.scope = k
        BY <2>1, <3>1, <3>3, <4>1
      <4>3. QED BY <4>2
    <3>6. QED BY <2>3, <3>4, <3>5
  <2>4. QED BY <2>2, <2>3
<1>2. QED BY <1>1, Inductive, PTL

=============================================================================
