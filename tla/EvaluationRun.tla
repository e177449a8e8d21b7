---------------------------- MODULE EvaluationRun ----------------------------
(***************************************************************************)
(* The evaluation scripts: run_eval (retrieval), run_generation_eval,      *)
(* run_retry_eval, run_conversation_eval, run_comparison_eval, with the    *)
(* judge they ask (eval/judge.py) and the caches they leave behind.        *)
(*                                                                         *)
(* A run takes its units in order: the system answers the question of a    *)
(* unit, and the judge is asked about the answer, call after call.  Every  *)
(* judgement has a cache file of its own, and so has every answer of the   *)
(* generation suite.  Three suites ask the whole graph instead, through    *)
(* run_turn; what screens the question there is remembered by the process  *)
(* only.  An operator runs one suite again and again; a step is one call,  *)
(* a turn of the graph, or one access to a result file, and the process    *)
(* may die between two steps.                                              *)
(***************************************************************************)
EXTENDS Naturals, Sequences, SequencesExt, FiniteSets

CONSTANTS
  Suites,      \* the scripts: "retrieval", "generation", "retry", ...
  Plan,        \* suite -> its units: cases, steps of cases, or configurations
  CaseOf,      \* unit -> its case; a failure drops the case of a conversation
  Required,    \* unit -> number of required claims
  Forbidden,   \* unit -> number of forbidden claims
  Queries,     \* the queries of the retrieval suite, a sequence
  Reranked,    \* its configurations that rerank
  Ends,        \* unit -> what a turn of the graph about it may come to
  MaxFaults    \* bound: failed calls, bad replies and deaths

ASSUME EvaluationBounds == MaxFaults \in Nat

ASSUME SuitesAreScripts ==
  Suites \subseteq {"retrieval", "generation", "retry", "conversation", "comparison"}

VARIABLES
  suite,    \* the script that is run
  cache,    \* cache file of every call: "none", "torn", or what was kept
  files,    \* the result file and its .partial twin
  pc, job,  \* the process: its next step and its locals
  sent,     \* history: the last run has sent a request to a provider
  faults

vars == <<suite, cache, files, pc, job, sent, faults>>

\* The suites that ask the graph.
ThroughGraph == {"retry", "conversation", "comparison"}

Units == UNION {ToSet(Plan[s]) : s \in Suites}

\* A dataset has at least one case; the default of --configs names every one.
ASSUME PlansHaveUnits == \A s \in Suites : Plan[s] \in Seq(Units) \ {<<>>}

ASSUME ClaimsAreCounted == Required \in [Units -> Nat] /\ Forbidden \in [Units -> Nat]

ASSUME EndsAreOfTurns == Ends \in [Units -> SUBSET {"answer", "clarify", "guarded"}]

ASSUME QueriesAreListed == Queries \in Seq(ToSet(Queries))

\* What the judge is shown of a unit depends on how its turn ended: with an answer,
\* an empty one, or the text of blocked_result (whose wordings are not told apart).
Said == Units \X {"answer", "empty", "guarded"}

\* Readers of the judge's replies that validate after the reply was cached.
AskTags == {"response", "decomp", "support", "relev"}

Claims(said) == 1..Required[said[1]] + Forbidden[said[1]]

Calls ==
  {<<"turn", u, 0>> : u \in Units}
  \cup {<<t, said, 0>> : t \in AskTags, said \in Said}
  \cup (UNION {{<<"claim", said, n>> : n \in Claims(said)} : said \in Said})
  \cup {<<t, q, 0>> : t \in {"embed", "rerank"}, q \in ToSet(Queries)}

\* "nothing" is a decomposition into no claims.
Kept == {"valid", "nothing", "malformed", "answer", "empty"}

NoFile == [state |-> "none", plan |-> <<>>, records |-> <<>>]

\* at: the unit in work.  ask: the calls it still needs.  keep: the result is
\* written.  judged: the judge is asked.
NoJob == [plan |-> <<>>, at |-> 0, ask |-> <<>>, status |-> "", records |-> <<>>,
          partial |-> FALSE, keep |-> TRUE, judged |-> TRUE]

Init ==
  /\ suite \in Suites
  /\ cache = [c \in Calls |-> "none"]
  /\ files = [f \in {"result", "partial"} |-> NoFile]
  /\ pc = "idle" /\ job = NoJob /\ sent = FALSE /\ faults = 0

Goto(step) == pc' = step

Become(j, step) == job' = j /\ Goto(step)

\* Mutant of Exit: locals survive the process.
ExitKeepingLocals == Goto("idle") /\ UNCHANGED job

Exit == Become(NoJob, "idle")

-----------------------------------------------------------------------------
(* What the judge is asked about a unit.                                   *)

ClaimCalls(said) == [n \in Claims(said) |-> <<"claim", said, n>>]

Grounding(said) == <<<<"decomp", said, 0>>, <<"support", said, 0>>>>

\* classify_response, which answers for an empty text itself.
Classification(said) == IF said[2] = "empty" THEN <<>> ELSE <<<<"response", said, 0>>>>

\* The callables of score_generation, in its order.
Scoring(said) == ClaimCalls(said) \o Grounding(said) \o <<<<"relev", said, 0>>>>

\* grade_answer and the rest of run_case in run_retry_eval.  A blocked turn counts as
\* completed; it has no context, so there is nothing to ground its text in.
RetryAssessment(said) ==
  CASE said[2] = "answer"  -> ClaimCalls(said) \o Grounding(said) \o Classification(said)
    [] said[2] = "guarded" -> ClaimCalls(said) \o Classification(said)
    [] OTHER               -> <<>>

\* score_step, for which a blocked text is an answer.
ConversationAssessment(said) ==
  Classification(said) \o IF Required[said[1]] = 0 THEN <<>> ELSE Scoring(said)

\* _generation_score; without a judge nothing is asked.
ComparisonAssessment(said, judged) ==
  IF ~judged \/ said[2] = "guarded" \/ Required[said[1]] = 0 THEN <<>>
  ELSE Classification(said) \o Scoring(said)

\* A turn that raised, or asked for a clarification, left nothing to judge.
Assessment(said, judged) ==
  IF said \notin Said THEN <<>>
  ELSE CASE suite = "generation"   -> Classification(said) \o Scoring(said)
         [] suite = "retry"        -> RetryAssessment(said)
         [] suite = "conversation" -> ConversationAssessment(said)
         [] suite = "comparison"   -> ComparisonAssessment(said, judged)
         [] OTHER                  -> <<>>

CallsOn(tag, queries) == [i \in DOMAIN queries |-> <<tag, queries[i], 0>>]

\* retrieve: only the reranker is a provider; the vectors were prepared.
Retrieval(u) == IF u \in Reranked THEN CallsOn("rerank", Queries) ELSE <<>>

-----------------------------------------------------------------------------
(* Records.                                                                *)

Unit == job.plan[job.at]

\* score_generation: which of its metrics have a value.
ScoreMeasures(said) ==
  {m \in {"recall", "forbidden", "grounded", "relevant"} :
     /\ m = "recall" => Required[said[1]] > 0
     /\ m = "grounded" => cache[<<"decomp", said, 0>>] = "valid"}

\* build_metrics of the retry suite.  A turn that raised fails its expected response,
\* and the text of a blocked one is graded like any other.
RetryMeasures(said) ==
  {"response"}
  \cup (CASE said[2] = "answer"  -> ScoreMeasures(said) \ {"relevant"}
          [] said[2] = "guarded" -> ScoreMeasures(said) \ {"relevant", "grounded"}
          [] OTHER               -> {})

Measures(said) ==
  IF suite = "retry" THEN RetryMeasures(said)
  ELSE IF suite = "retrieval" \/ said \notin Said THEN {}
  ELSE CASE suite = "generation" -> {"response"} \cup ScoreMeasures(said)
         [] suite = "conversation" ->
              {"response"} \cup
              IF Required[said[1]] = 0 THEN {} ELSE ScoreMeasures(said) \ {"relevant"}
         [] OTHER ->
              IF said[2] = "guarded" \/ Required[said[1]] = 0 THEN {}
              ELSE {"response"} \cup ScoreMeasures(said)

\* lack: why a record holds no judgement although its answer asks for one.
RecordOf(u, status, lack) ==
  [unit |-> u, status |-> status, lack |-> lack,
   metrics |-> IF lack = "none" THEN Measures(<<u, status>>) ELSE {}]

\* The run goes on with the next unit, or ends and writes what it has.
Proceed(j) ==
  IF j.at < Len(j.plan)
  THEN Become([j EXCEPT !.at = @ + 1, !.ask = <<>>, !.status = ""], "turn")
  ELSE IF j.keep /\ j.records # <<>> THEN Become(j, "open") ELSE Exit

Recorded(j, lack) == Proceed([j EXCEPT !.records = Append(@, RecordOf(Unit, j.status, lack))])

\* The loop is left: what is recorded of finished cases is reported as partial.
Stop ==
  LET InWork(i) == CaseOf[job.records[i].unit] = CaseOf[Unit]
      done == CHOOSE n \in 0..Len(job.records) :
                /\ \A i \in n + 1..Len(job.records) : InWork(i)
                /\ n # 0 => ~InWork(n)
      left == [job EXCEPT !.records = SubSeq(@, 1, done), !.partial = TRUE]
  IN IF done = 0 \/ ~job.keep THEN Exit ELSE Become(left, "open")

\* A call about the answer fails.  A comparison keeps its mechanical metrics, a
\* retrieval configuration is left out of the report, and without the vectors of
\* the queries there is nothing to report.
JudgeFails ==
  CASE suite \in {"generation", "retry", "conversation"} -> Stop
    [] suite = "comparison" -> Recorded(job, "judge")
    [] OTHER -> IF job.at = 0 THEN Exit ELSE Proceed(job)

\* The turn raises: only the retry and the conversation suite catch that.
TurnFails ==
  CASE suite = "retry" -> Recorded([job EXCEPT !.status = "error"], "none")
    [] suite = "conversation" -> Stop
    [] suite = "retrieval" -> Proceed(job)
    [] OTHER -> Exit

-----------------------------------------------------------------------------
(* A run.                                                                  *)

\* p is made of elements of q, in the order of q.
InOrder(p, q) ==
  \E at \in [DOMAIN p -> DOMAIN q] :
    /\ \A i \in DOMAIN p : p[i] = q[at[i]]
    /\ \A i, k \in DOMAIN p : i < k => at[i] < at[k]

\* --case, or --configs, names some of the cases, and a case is run with all its units.
WholeCases(p, plan) ==
  /\ InOrder(p, plan)
  /\ \A u \in ToSet(p), v \in ToSet(plan) : CaseOf[u] = CaseOf[v] => v \in ToSet(p)

\* The generation suite has no such argument.
Plans ==
  [s \in Suites |->
     IF s = "generation" THEN {Plan[s]}
     ELSE UNION {{p \in [1..n -> ToSet(Plan[s])] : WholeCases(p, Plan[s])} : n \in DOMAIN Plan[s]}]

Start(plan, keep, judged) ==
  /\ pc = "idle"
  /\ keep \/ suite \in {"generation", "retrieval"}
  /\ judged \/ suite = "comparison"
  /\ LET j == [NoJob EXCEPT !.plan = plan, !.keep = keep, !.judged = judged]
     IN IF suite = "retrieval"
        THEN Become([j EXCEPT !.ask = CallsOn("embed", Queries)], "call")
        ELSE Become([j EXCEPT !.at = 1], "turn")
  /\ sent' = FALSE
  /\ UNCHANGED <<suite, cache, files, faults>>

Fault == faults < MaxFaults /\ faults' = faults + 1

\* The system's answer to the unit's question.
Answered(status) ==
  Become([job EXCEPT !.status = status, !.ask = Assessment(<<Unit, status>>, job.judged)], "call")

\* The turn of the generation suite: the vector of the question, Qdrant, the reranker
\* and generate.  A failure of any ends the script; they are taken as one call.
Generate ==
  /\ pc = "turn" /\ suite = "generation"
  /\ LET call == <<"turn", Unit, 0>>
     IN \/ /\ cache[call] = "torn" /\ TurnFails /\ UNCHANGED <<cache, sent, faults>>
        \/ /\ cache[call] \in {"answer", "empty"}
           /\ Answered(cache[call]) /\ UNCHANGED <<cache, sent, faults>>
        \/ /\ cache[call] = "none" /\ sent' = TRUE
           /\ \/ \E reply \in {"answer", "empty"} :
                   cache' = [cache EXCEPT ![call] = reply] /\ Answered(reply)
                   /\ UNCHANGED faults
              \/ TurnFails /\ Fault /\ UNCHANGED cache
  /\ UNCHANGED <<suite, files>>

\* run_turn: a model screens the question, and only the process remembers its verdict.
\* A question it refuses is a turn that is blocked, and so is one it fails to screen.
Screen ==
  /\ pc = "turn" /\ suite \in ThroughGraph
  /\ \/ Goto("graph") /\ UNCHANGED job
     \/ "guarded" \in Ends[Unit] /\ Answered("guarded")
  /\ sent' = TRUE
  /\ UNCHANGED <<suite, cache, files, faults>>

\* The graph asks for a clarification, or comes to an answer; a screen of the evidence,
\* or final_check, may block it, an empty answer always.  What the nodes keep of their
\* calls spares requests, not ends: only a cache file that is torn stands in the way.
RunGraph ==
  /\ pc = "graph"
  /\ \/ \E end \in Ends[Unit] : Answered(end) /\ UNCHANGED faults
     \/ cache[<<"turn", Unit, 0>>] = "torn" /\ TurnFails /\ UNCHANGED faults
     \/ TurnFails /\ Fault
  /\ UNCHANGED <<suite, cache, files, sent>>

\* A configuration: Qdrant, then the reranker for some.
Retrieve ==
  /\ pc = "turn" /\ suite = "retrieval"
  /\ \/ /\ Become([job EXCEPT !.status = "answer", !.ask = Retrieval(Unit)], "call")
        /\ UNCHANGED faults
     \/ TurnFails /\ Fault
  /\ UNCHANGED <<suite, cache, files, sent>>

\* check_relevance does not validate: a reply without a verdict is read as "does
\* not address".
RelevanceReads(kept) == kept # "torn"

\* decompose_claims takes a list of claims, which may be empty.
DecompositionReads(kept) == kept \in {"valid", "nothing"}

\* check_supported_batch wants one verdict per claim.
SupportReads(kept) == kept = "valid"

\* Mutant of Accepts: a judgement from the cache is taken as it is.
AcceptsUnread(call, kept) == kept # "torn"

\* What the reader of a reply lets through; for a claim that is _parse.
Accepts(call, kept) ==
  CASE call[1] = "relev"   -> RelevanceReads(kept)
    [] call[1] = "decomp"  -> DecompositionReads(kept)
    [] call[1] = "support" -> SupportReads(kept)
    [] OTHER               -> kept = "valid"

\* The caller reads what was kept, now or in an earlier run; no claims need no
\* support.
Read ==
  /\ pc = "call" /\ job.ask # <<>> /\ cache[Head(job.ask)] # "none"
  /\ LET call == Head(job.ask)
         bare == call[1] = "decomp" /\ cache[call] = "nothing"
     IN IF Accepts(call, cache[call])
        THEN /\ job' = [job EXCEPT !.ask = IF bare THEN Tail(Tail(@)) ELSE Tail(@)]
             /\ UNCHANGED pc
        ELSE JudgeFails
  /\ UNCHANGED <<suite, cache, files, sent, faults>>

\* Valid replies of a provider to a call.
Replies(call) == IF call[1] = "decomp" THEN {"valid", "nothing"} ELSE {"valid"}

\* Mutant of Ask: judge_claim keeps the reply before it parses it.
AskKeepingRaw ==
  /\ pc = "call" /\ job.ask # <<>> /\ cache[Head(job.ask)] = "none"
  /\ LET call == Head(job.ask)
     IN \/ /\ \E reply \in Replies(call) : cache' = [cache EXCEPT ![call] = reply]
           /\ UNCHANGED <<pc, job, faults>>
        \/ /\ call[1] \in AskTags \cup {"claim"} /\ Fault
           /\ cache' = [cache EXCEPT ![call] = "malformed"] /\ UNCHANGED <<pc, job>>
        \/ JudgeFails /\ Fault /\ UNCHANGED cache
  /\ sent' = TRUE
  /\ UNCHANGED <<suite, files>>

\* _ask and the rest: a reply that is JSON is kept before its reader has seen it,
\* a claim's verdict only when it parses; a call that fails keeps nothing.
Ask ==
  /\ pc = "call" /\ job.ask # <<>> /\ cache[Head(job.ask)] = "none"
  /\ LET call == Head(job.ask)
     IN \/ /\ \E reply \in Replies(call) : cache' = [cache EXCEPT ![call] = reply]
           /\ UNCHANGED <<pc, job, faults>>
        \/ /\ call[1] \in AskTags /\ Fault
           /\ cache' = [cache EXCEPT ![call] = "malformed"] /\ UNCHANGED <<pc, job>>
        \/ call[1] = "claim" /\ Fault /\ Goto("repair") /\ UNCHANGED <<cache, job>>
        \/ JudgeFails /\ Fault /\ UNCHANGED cache
  /\ sent' = TRUE
  /\ UNCHANGED <<suite, files>>

\* Mutant of Repair: the repaired verdict is used and not kept.
RepairUnkept ==
  /\ pc = "repair"
  /\ \/ /\ job' = [job EXCEPT !.ask = Tail(@)] /\ Goto("call")
        /\ UNCHANGED <<cache, faults>>
     \/ JudgeFails /\ Fault /\ UNCHANGED cache
  /\ sent' = TRUE
  /\ UNCHANGED <<suite, files>>

\* judge_claim gives the judge one chance to repair its evidence.
Repair ==
  /\ pc = "repair"
  /\ \/ /\ cache' = [cache EXCEPT ![Head(job.ask)] = "valid"]
        /\ Goto("call") /\ UNCHANGED <<job, faults>>
     \/ JudgeFails /\ Fault /\ UNCHANGED cache
  /\ sent' = TRUE
  /\ UNCHANGED <<suite, files>>

\* The last call of a unit is answered.
Score ==
  /\ pc = "call" /\ job.ask = <<>>
  /\ IF job.at = 0 THEN Proceed(job)
     ELSE Recorded(job, IF job.judged THEN "none" ELSE "skipped")
  /\ UNCHANGED <<suite, cache, files, sent, faults>>

\* Mutant of Destination: a stopped run writes where a whole one does.
DestinationAlways(j) == "result"

Destination(j) == IF j.partial THEN "partial" ELSE "result"

\* write_text truncates first.
OpenResult ==
  /\ pc = "open"
  /\ files' = [files EXCEPT ![Destination(job)] = [NoFile EXCEPT !.state = "torn"]]
  /\ Goto("write")
  /\ UNCHANGED <<suite, cache, job, sent, faults>>

WriteResult ==
  /\ pc = "write"
  /\ files' = [files EXCEPT ![Destination(job)] =
                 [state |-> "whole", plan |-> job.plan, records |-> job.records]]
  /\ Exit
  /\ UNCHANGED <<suite, cache, sent, faults>>

\* The process dies, perhaps with a cache file open.
Die ==
  /\ pc # "idle" /\ Fault /\ Exit
  /\ \/ UNCHANGED cache
     \/ \E call \in Calls :
          /\ \/ pc \in {"call", "repair"} /\ job.ask # <<>> /\ call = Head(job.ask)
             \/ pc = "graph" /\ call = <<"turn", Unit, 0>>
             \/ pc = "turn" /\ suite = "generation" /\ call = <<"turn", Unit, 0>>
          /\ cache[call] = "none" /\ cache' = [cache EXCEPT ![call] = "torn"]
  /\ UNCHANGED <<suite, files, sent>>

Advance ==
  \/ Generate \/ Screen \/ RunGraph \/ Retrieve
  \/ Read \/ Ask \/ Repair \/ Score \/ OpenResult \/ WriteResult

Next ==
  \/ \E plan \in Plans[suite], keep, judged \in BOOLEAN : Start(plan, keep, judged)
  \/ Advance
  \/ Die

Spec == Init /\ [][Next]_vars

\* A process runs, its calls return, and the operator goes on running the whole suite
\* ("re-run to continue", run_generation_eval.py:132).
FairSpec ==
  Spec /\ WF_vars(Advance) /\ SF_vars(Start(Plan[suite], TRUE, TRUE))

-----------------------------------------------------------------------------
(* Properties.                                                             *)

Statuses == {"answer", "empty", "clarify", "guarded", "error"}

RecordOK(r) ==
  /\ r.unit \in Units /\ r.status \in Statuses /\ r.lack \in {"none", "judge", "skipped"}
  /\ r.metrics \subseteq {"recall", "forbidden", "grounded", "relevant", "response"}

\* The shape of every variable: cache and result files, the process and its locals.
TypeOK ==
  /\ suite \in Suites
  /\ cache \in [Calls -> Kept \cup {"none", "torn"}]
  /\ \A f \in {"result", "partial"} :
       /\ files[f].state \in {"none", "torn", "whole"}
       /\ files[f].state # "whole" => files[f] = [NoFile EXCEPT !.state = files[f].state]
       /\ \A i \in DOMAIN files[f].records : RecordOK(files[f].records[i])
  /\ pc \in {"idle", "turn", "graph", "call", "repair", "open", "write"}
  /\ pc = "idle" <=> job = NoJob
  /\ \A i \in DOMAIN job.records : RecordOK(job.records[i])
  /\ job.at \in 0..Len(job.plan) /\ ToSet(job.ask) \subseteq Calls
  /\ sent \in BOOLEAN /\ faults \in 0..MaxFaults

UnitsOf(file) == [i \in DOMAIN file.records |-> file.records[i].unit]

\* The result file of a suite speaks for every unit its run was to cover, in order,
\* each once, whatever calls failed and whenever the process died; what a stopped
\* run has is under the other name, a proper part of its plan that ends with a whole
\* case (_dest of run_generation_eval).  A retrieval run may leave configurations
\* out.
ResultsAreComplete ==
  /\ files["result"].state = "whole" =>
       LET units == UnitsOf(files["result"])
           plan == files["result"].plan
       IN IF suite = "retrieval"
          THEN units # <<>> /\ InOrder(units, plan)
          ELSE units = plan
  /\ files["partial"].state = "whole" =>
       LET units == UnitsOf(files["partial"])
           rest == SubSeq(files["partial"].plan, Len(units) + 1, Len(files["partial"].plan))
       IN /\ units # <<>> /\ rest # <<>>
          /\ units \o rest = files["partial"].plan
          /\ CaseOf[Last(units)] # CaseOf[Head(rest)]

\* A number in a record rests on judgements of the very text the turn ended with that
\* passed their validation, all of them, whether they were made in this run or kept by
\* one that failed; a judge that fails leaves the number out and never reads as a bad
\* answer (judge.py:326-327, run_comparison_eval.py:155).  check_relevance is the
\* exception.
ScoresAreJudged ==
  \A r \in ToSet(job.records) \cup ToSet(files["result"].records) \cup ToSet(files["partial"].records) :
    LET Judged(tag) == cache[<<tag, <<r.unit, r.status>>, 0>>] = "valid"
        ClaimsJudged(set) == \A n \in set : cache[<<"claim", <<r.unit, r.status>>, n>>] = "valid"
        all == Required[r.unit] + Forbidden[r.unit]
    IN /\ "recall" \in r.metrics => ClaimsJudged(1..Required[r.unit])
       /\ "forbidden" \in r.metrics => ClaimsJudged(Required[r.unit] + 1..all)
       /\ "grounded" \in r.metrics => Judged("decomp") /\ Judged("support")
       /\ "relevant" \in r.metrics =>
            cache[<<"relev", <<r.unit, r.status>>, 0>>] \in {"valid", "malformed"}
       /\ "response" \in r.metrics =>
            r.status \notin {"answer", "guarded"} \/ Judged("response")

\* The whole suite is reported and nothing in it is missing.
WholeResult ==
  /\ files["result"].state = "whole" /\ files["result"].plan = Plan[suite]
  /\ UnitsOf(files["result"]) = Plan[suite]
  /\ \A r \in ToSet(files["result"].records) : r.lack = "none" /\ r.status # "error"

\* A cache file that its reader refuses, for ever: torn, or kept unread by _ask.
Poisoned ==
  \E call \in Calls :
    cache[call] = "torn" \/ (cache[call] = "malformed" /\ call[1] \in AskTags \ {"relev"})

\* Whoever runs a suite again after failed calls, refused repairs and dead processes
\* comes to a whole result in the end, unless a refused reply was kept; so what is
\* kept of a stopped run is never in the way of the next one otherwise.
ReRunFinishes == []<>(WholeResult \/ Poisoned)

\* "Answers and judgements are cached, so re-runs are free" (run_generation_eval.py:6):
\* while a whole result of the generation suite stands, or of the retrieval suite, a run
\* of it, complete, selective, or cut off, has not sent a single request.
ReRunIsFree ==
  suite \in {"generation", "retrieval"} /\ WholeResult /\ pc # "idle" => ~sent
=============================================================================
