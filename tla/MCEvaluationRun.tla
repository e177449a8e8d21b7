--------------------------- MODULE MCEvaluationRun ---------------------------
(***************************************************************************)
(* A small instance of every suite: two cases, of which a conversation has *)
(* two steps in the first, units with and without required claims, two     *)
(* retrieval configurations over two queries.  What a turn of the graph    *)
(* may come to is bounded: one case is answered and one is blocked, and    *)
(* the last step of the conversation's first case comes to another end in  *)
(* every run.                                                              *)
(***************************************************************************)
EXTENDS EvaluationRun, TLC

MCPlan ==
  [s \in Suites |->
     CASE s = "retrieval"    -> <<"hybrid", "hybrid_rerank">>
       [] s = "generation"   -> <<"a", "b">>
       [] s = "conversation" -> <<"step1", "step2", "b">>
       [] OTHER              -> <<"a", "blocked">>]

MCCaseOf == [u \in Units |-> IF u \in {"step1", "step2"} THEN "steps" ELSE u]

MCRequired == [u \in Units |-> IF u \in {"a", "blocked", "step1"} THEN 1 ELSE 0]

MCForbidden == [u \in Units |-> IF u = "a" THEN 1 ELSE 0]

MCEnds ==
  [u \in Units |-> CASE u \in {"blocked", "step1"} -> {"guarded"}
                     [] u = "step2" -> {"answer", "clarify", "guarded"}
                     [] OTHER       -> {"answer"}]

MCQueries == <<"q1", "q2">>
=============================================================================
