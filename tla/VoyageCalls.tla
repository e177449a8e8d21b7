----------------------------- MODULE VoyageCalls -----------------------------
(***************************************************************************)
(* The request threads' calls to Voyage, for the vector of a query and for *)
(* a reranking: the semantic cache (embed/semantic_cache.py), the cache    *)
(* files of embed/embedder.py and rerank/reranker.py, the interval gate    *)
(* (util/ratelimit.py) and the reranker's backoff.                         *)
(*                                                                         *)
(* Time is counted in ticks by timers that run down or saturate.  A thread *)
(* that leaves the gate, or a backoff, sends its request before the next   *)
(* tick; every other step may take as long as it likes.                    *)
(***************************************************************************)
EXTENDS Naturals, Sequences

CONSTANTS
  Callers,     \* threads of the API process
  NoCaller,    \* nobody holds the gate's lock
  Texts,       \* queries, redacted
  NoText,      \* no query
  Partitions,  \* scope keys: lender, version, build, models
  Score,       \* cosine of the local vectors of two texts
  Threshold,   \* of a semantic hit
  Interval,    \* MIN_INTERVAL_S in ticks
  Backoff,     \* RETRY_WAITS_S in ticks
  MaxCalls,    \* bound: calls in a behaviour
  MaxFaults    \* bound: failed requests and crashes

ASSUME NobodyIsNobody == NoCaller \notin Callers /\ NoText \notin Texts
ASSUME Times == Interval \in Nat /\ Backoff \in Seq(Nat)
ASSUME VoyageBounds == MaxCalls \in Nat /\ MaxFaults \in Nat
ASSUME Scores == Score \in [Texts -> [Texts -> Nat]] /\ Threshold \in Nat

VARIABLES
  queries,    \* semantic_queries: (scope key, text)
  files,      \* cache files: none, torn (opened and not yet written), whole
  gate,       \* holder of the gate's lock
  gateAge,    \* ticks since _last_call_at, up to Interval
  pc, call,   \* per caller: the next step and the locals of its call
  asked,      \* history: (scope key, text) of every scoped query
  lastCall,   \* history: ticks since the last request, and whether it was a retry
  calls, faults

vars == <<queries, files, gate, gateAge, pc, call, asked, lastCall, calls, faults>>

Items == {"embed", "rerank"} \X Texts

\* use: the text whose vector is wanted.  kind "query" goes through the
\* semantic cache, "embed" does not.
Call == [kind : {"query", "embed", "rerank"}, part : Partitions, text : Texts,
         use : Texts, decision : {"", "exact_hit", "semantic_hit", "miss"},
         attempt : 0..Len(Backoff), left : Nat]

NoCall == [kind |-> "embed", text |-> NoText]

Sleeping == {"pace", "backoff"}

\* Steps of a call that pays: it found no cache file.
Paying == Sleeping \cup {"gate", "request", "answer"}

Steps == Paying \cup {"idle", "lookup", "match", "note", "fetch", "save"}

Init ==
  /\ queries = {} /\ asked = {}
  /\ files = [i \in Items |-> "none"]
  /\ gate = NoCaller /\ gateAge = Interval
  /\ lastCall = [age |-> Interval, retry |-> FALSE]
  /\ pc = [c \in Callers |-> "idle"]
  /\ call = [c \in Callers |-> NoCall]
  /\ calls = 0 /\ faults = 0

Goto(c, step) == pc' = [pc EXCEPT ![c] = step]

Become(c, local, step) == call' = [call EXCEPT ![c] = local] /\ Goto(c, step)

\* The call returns or raises.
Leave(c) == Become(c, NoCall, "idle")

Item(c) == <<IF call[c].kind = "rerank" THEN "rerank" ELSE "embed", call[c].use>>

-----------------------------------------------------------------------------
(* embed_query_scoped, embed_query and rerank, up to the cache file.       *)

Ask(c) ==
  /\ pc[c] = "idle" /\ calls < MaxCalls
  /\ calls' = calls + 1
  /\ \E kind \in {"query", "embed", "rerank"}, p \in Partitions, t \in Texts :
       /\ Become(c, [kind |-> kind, part |-> p, text |-> t, use |-> t,
                     decision |-> "", attempt |-> 0, left |-> 0],
                 IF kind = "query" THEN "lookup" ELSE "fetch")
       /\ asked' = IF kind = "query" THEN asked \cup {<<p, t>>} ELSE asked
  /\ UNCHANGED <<queries, files, gate, gateAge, lastCall, faults>>

\* The exact-hash cache first.
Lookup(c) ==
  /\ pc[c] = "lookup"
  /\ IF files[Item(c)] # "none"
     THEN Become(c, [call[c] EXCEPT !.decision = "exact_hit"], "fetch")
     ELSE Goto(c, "match") /\ UNCHANGED call
  /\ UNCHANGED <<queries, files, gate, gateAge, asked, lastCall, calls, faults>>

\* Mutant of BestMatches: every scope is searched.
BestMatchesAnywhere(p, t) ==
  LET known == {q[2] : q \in queries}
  IN  {m \in known : \A k \in known : Score[t][m] >= Score[t][k]}

\* _best_match; among equals the first row wins, which may be any.
BestMatches(p, t) ==
  LET known == {q[2] : q \in {r \in queries : r[1] = p}}
  IN  {m \in known : \A k \in known : Score[t][m] >= Score[t][k]}

Match(c) ==
  /\ pc[c] = "match"
  /\ LET t == call[c].text
         best == BestMatches(call[c].part, t)
     IN  \/ \E m \in best :
              /\ Score[t][m] >= Threshold
              /\ Become(c, [call[c] EXCEPT !.decision = "semantic_hit", !.use = m], "note")
         \/ /\ \A m \in best : Score[t][m] < Threshold
            /\ Become(c, [call[c] EXCEPT !.decision = "miss"], "note")
  /\ UNCHANGED <<queries, files, gate, gateAge, asked, lastCall, calls, faults>>

\* _record_query and commit: on a hit as on a miss, and before any vector of
\* this text exists.
Note(c) ==
  /\ pc[c] = "note"
  /\ queries' = queries \cup {<<call[c].part, call[c].text>>}
  /\ Goto(c, "fetch")
  /\ UNCHANGED <<files, gate, gateAge, call, asked, lastCall, calls, faults>>

\* The cache file answers when it exists; a torn one raises.
Fetch(c) ==
  /\ pc[c] = "fetch"
  /\ IF files[Item(c)] # "none" THEN Leave(c) ELSE Goto(c, "gate") /\ UNCHANGED call
  /\ UNCHANGED <<queries, files, gate, gateAge, asked, lastCall, calls, faults>>

-----------------------------------------------------------------------------
(* voyage_gate and the reranker's waits.                                   *)

\* Leaving the gate: a retry still has its backoff to sleep.
Pass(c) ==
  /\ gateAge' = 0
  /\ IF call[c].attempt = 0
     THEN Goto(c, "request") /\ UNCHANGED call
     ELSE Become(c, [call[c] EXCEPT !.left = Backoff[call[c].attempt]], "backoff")

\* Mutant of Gate: the sleep does not keep the lock.
GateUnlocked(c) ==
  /\ pc[c] = "gate" /\ gate = NoCaller
  /\ IF gateAge = Interval
     THEN Pass(c)
     ELSE Become(c, [call[c] EXCEPT !.left = Interval - gateAge], "pace") /\ UNCHANGED gateAge
  /\ UNCHANGED <<queries, files, gate, asked, lastCall, calls, faults>>

\* Too early: sleep out the interval, with the lock.
Gate(c) ==
  /\ pc[c] = "gate" /\ gate = NoCaller
  /\ IF gateAge = Interval
     THEN Pass(c) /\ UNCHANGED gate
     ELSE /\ gate' = c
          /\ Become(c, [call[c] EXCEPT !.left = Interval - gateAge], "pace")
          /\ UNCHANGED gateAge
  /\ UNCHANGED <<queries, files, asked, lastCall, calls, faults>>

\* Mutant of Wake: the lock is not given back after a sleep.
WakeLocked(c) ==
  /\ pc[c] = "pace" /\ call[c].left = 0
  /\ Pass(c)
  /\ UNCHANGED <<queries, files, gate, asked, lastCall, calls, faults>>

Wake(c) ==
  /\ pc[c] = "pace" /\ call[c].left = 0
  /\ gate' = NoCaller
  /\ Pass(c)
  /\ UNCHANGED <<queries, files, asked, lastCall, calls, faults>>

Retry(c) ==
  /\ pc[c] = "backoff" /\ call[c].left = 0
  /\ Goto(c, "request")
  /\ UNCHANGED <<queries, files, gate, gateAge, call, asked, lastCall, calls, faults>>

-----------------------------------------------------------------------------
(* The request, its answer and the cache file.                             *)

Request(c) ==
  /\ pc[c] = "request"
  /\ lastCall' = [age |-> 0, retry |-> call[c].attempt > 0]
  /\ Goto(c, "answer")
  /\ UNCHANGED <<queries, files, gate, gateAge, call, asked, calls, faults>>

\* write_text opens the file, truncating it.
Answer(c) ==
  /\ pc[c] = "answer"
  /\ files' = [files EXCEPT ![Item(c)] = "torn"]
  /\ Goto(c, "save")
  /\ UNCHANGED <<queries, gate, gateAge, call, asked, lastCall, calls, faults>>

Save(c) ==
  /\ pc[c] = "save"
  /\ files' = [files EXCEPT ![Item(c)] = "whole"]
  /\ Leave(c)
  /\ UNCHANGED <<queries, gate, gateAge, asked, lastCall, calls, faults>>

\* Mutant of RateLimited: one attempt too many.
RateLimitedAgain(c) ==
  /\ pc[c] = "answer" /\ faults < MaxFaults
  /\ faults' = faults + 1
  /\ IF call[c].kind = "rerank" /\ call[c].attempt <= Len(Backoff)
     THEN Become(c, [call[c] EXCEPT !.attempt = @ + 1], "gate")
     ELSE Leave(c)
  /\ UNCHANGED <<queries, files, gate, gateAge, asked, lastCall, calls>>

\* RateLimitError: the reranker goes back to the gate while waits are left.
RateLimited(c) ==
  /\ pc[c] = "answer" /\ faults < MaxFaults
  /\ faults' = faults + 1
  /\ IF call[c].kind = "rerank" /\ call[c].attempt < Len(Backoff)
     THEN Become(c, [call[c] EXCEPT !.attempt = @ + 1], "gate")
     ELSE Leave(c)
  /\ UNCHANGED <<queries, files, gate, gateAge, asked, lastCall, calls>>

\* Any other error of the request.
Fail(c) ==
  /\ pc[c] = "answer" /\ faults < MaxFaults
  /\ faults' = faults + 1
  /\ Leave(c)
  /\ UNCHANGED <<queries, files, gate, gateAge, asked, lastCall, calls>>

-----------------------------------------------------------------------------

Older(age) == IF age < Interval THEN age + 1 ELSE age

Tick ==
  /\ \A c \in Callers : pc[c] # "request"
  /\ gateAge' = Older(gateAge)
  /\ lastCall' = [lastCall EXCEPT !.age = Older(@)]
  /\ call' = [c \in Callers |->
       IF pc[c] \in Sleeping /\ call[c].left > 0
       THEN [call[c] EXCEPT !.left = @ - 1] ELSE call[c]]
  /\ UNCHANGED <<queries, files, gate, pc, asked, calls, faults>>

\* The process restarts.  The gate's memory is the process's own, and so is
\* the spacing it promises; the caches are on disk.
Crash ==
  /\ faults < MaxFaults
  /\ \E c \in Callers : pc[c] # "idle"
  /\ faults' = faults + 1
  /\ pc' = [c \in Callers |-> "idle"]
  /\ call' = [c \in Callers |-> NoCall]
  /\ gate' = NoCaller /\ gateAge' = Interval
  /\ lastCall' = [age |-> Interval, retry |-> FALSE]
  /\ UNCHANGED <<queries, files, asked, calls>>

CallStep(c) ==
  \/ Lookup(c) \/ Match(c) \/ Note(c) \/ Fetch(c) \/ Gate(c) \/ Wake(c)
  \/ Retry(c) \/ Request(c) \/ Answer(c) \/ Save(c) \/ RateLimited(c) \/ Fail(c)

Next ==
  \/ \E c \in Callers : Ask(c) \/ CallStep(c)
  \/ Tick \/ Crash

Spec == Init /\ [][Next]_vars

\* Threads run, time passes and requests are answered.
FairSpec == Spec /\ WF_vars(Tick) /\ \A c \in Callers : WF_vars(CallStep(c))

-----------------------------------------------------------------------------
(* Properties.                                                             *)

\* Every variable holds what the code can store in it; the gate is held
\* exactly by the caller that sleeps in it.
TypeOK ==
  /\ queries \subseteq Partitions \X Texts /\ asked \subseteq Partitions \X Texts
  /\ files \in [Items -> {"none", "torn", "whole"}]
  /\ gateAge \in 0..Interval /\ lastCall \in [age : 0..Interval, retry : BOOLEAN]
  /\ pc \in [Callers -> Steps]
  /\ DOMAIN call = Callers
  /\ \A c \in Callers : IF pc[c] = "idle" THEN call[c] = NoCall ELSE call[c] \in Call
  /\ gate \in Callers \cup {NoCaller}
  /\ \A c \in Callers : pc[c] = "pace" <=> gate = c
  /\ calls \in 0..MaxCalls /\ faults \in 0..MaxFaults

\* Two requests of the process are an interval apart, whatever the threads do,
\* unless one of them is a retry: a retry takes its slot at the gate and
\* sleeps afterwards (reranker.py:78-83), so others pass it, before and after.
RequestsSpaced ==
  [][\A c \in Callers :
       pc[c] = "request" /\ pc'[c] = "answer" =>
         \/ lastCall.age = Interval
         \/ call[c].attempt > 0 \/ lastCall.retry]_vars

\* What the log of the semantic cache says of a query is so: its vector is that of a
\* text asked in the same scope and similar to it (semantic_cache.py:16, other versions
\* are unreachable), and an exact hit is never paid for, not even when the process
\* died while the cache file was written.
HitsAreWhatTheySay ==
  \A c \in Callers :
    /\ pc[c] # "idle" /\ call[c].kind = "query" =>
         /\ <<call[c].part, call[c].use>> \in asked
         /\ call[c].use # call[c].text => Score[call[c].text][call[c].use] >= Threshold
    /\ pc[c] \in Paying => call[c].decision # "exact_hit"

\* Once callers stop asking, every call comes back: whoever sleeps in the gate
\* gives it back, and the backoff ends (a behaviour has MaxCalls calls).
CallsReturn == \A c \in Callers : []<>(pc[c] = "idle")

(***************************************************************************)
(* What the repository says of itself and the code does not keep.          *)
(***************************************************************************)

\* semantic_cache.py:232-234: "The matched query was for-real embedded before,
\* so this resolves to an exact-hash hit in embedder.py's own cache -- no new
\* Voyage call".  A semantic hit records its own text, which was not embedded,
\* and later queries match it, the same one asked again first of all.
SemanticHitIsFree ==
  \A c \in Callers :
    pc[c] \in Paying => call[c].decision # "semantic_hit"
=============================================================================
