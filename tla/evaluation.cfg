CONSTANTS
  Suites = {"retrieval", "generation", "retry", "conversation", "comparison"}
  Plan <- MCPlan
  CaseOf <- MCCaseOf
  Required <- MCRequired
  Forbidden <- MCForbidden
  Queries <- MCQueries
  Reranked = {"hybrid_rerank"}
  Ends <- MCEnds
  MaxFaults = 2
SPECIFICATION FairSpec
INVARIANTS TypeOK ResultsAreComplete ScoresAreJudged ReRunIsFree
PROPERTIES ReRunFinishes
