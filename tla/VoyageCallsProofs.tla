-------------------------- MODULE VoyageCallsProofs --------------------------
(***************************************************************************)
(* Proofs about VoyageCalls for any threads, texts, scopes, similarities,  *)
(* intervals and backoffs.                                                 *)
(***************************************************************************)
EXTENDS VoyageCalls, TLAPS

\* The locals of a thread, by where it stands.
Local(c) == IF pc[c] = "idle" THEN call[c] = NoCall ELSE call[c] \in Call

Others(c) == \A d \in Callers : d # c => pc'[d] = pc[d] /\ call'[d] = call[d]

\* A step of thread c, its calls included.
Move(c) == Ask(c) \/ CallStep(c)

-----------------------------------------------------------------------------
(* What Goto, Become and Leave do to pc and call.                          *)

\* A thread that goes on keeps its locals, and the others all they have.
LEMMA GotoMoves ==
  ASSUME TypeOK, NEW c \in Callers, NEW s \in Steps, Goto(c, s), UNCHANGED call
  PROVE  /\ pc' \in [Callers -> Steps] /\ pc'[c] = s
         /\ call'[c] = call[c] /\ Others(c)
  BY DEF Goto, TypeOK, Others

\* A thread with new locals has just these, and the others all they had.
LEMMA BecomeMoves ==
  ASSUME TypeOK, NEW c \in Callers, NEW s \in Steps, NEW local, Become(c, local, s)
  PROVE  /\ pc' \in [Callers -> Steps] /\ pc'[c] = s
         /\ DOMAIN call' = Callers /\ call'[c] = local /\ Others(c)
<1>1. /\ pc' \in [Callers -> Steps] /\ pc'[c] = s
      /\ \A d \in Callers : d # c => pc'[d] = pc[d]
  BY DEF Become, Goto, TypeOK
<1>2. DOMAIN call' = Callers /\ call'[c] = local /\ \A d \in Callers : d # c => call'[d] = call[d]
  BY DEF Become, TypeOK
<1>3. QED BY <1>1, <1>2 DEF Others

\* A call that ends leaves its thread idle.
LEMMA LeaveMoves ==
  ASSUME TypeOK, NEW c \in Callers, Leave(c)
  PROVE  /\ pc' \in [Callers -> Steps] /\ pc'[c] = "idle"
         /\ DOMAIN call' = Callers /\ call'[c] = NoCall /\ Others(c)
<1>1. "idle" \in Steps
  BY DEF Steps
<1>2. QED BY <1>1, BecomeMoves DEF Leave

\* How numbers of attempts move.
LEMMA UpTo ==
  ASSUME NEW n \in Nat, NEW k \in 0..n
  PROVE  /\ 0 \in 0..n /\ (k # 0 => k \in 1..n)
         /\ k < n => k + 1 \in 0..n
  OBVIOUS

\* The backoff has an end, and every attempt but the first a wait.
LEMMA Waits == Len(Backoff) \in Nat /\ \A k \in 1..Len(Backoff) : Backoff[k] \in Nat
<1>1. Backoff \in Seq(Nat)
  BY Times
<1>2. QED BY <1>1

\* A thread that has a call has one of the type.
LEMMA BusyCall ==
  ASSUME TypeOK, NEW c \in Callers, pc[c] # "idle"
  PROVE  call[c] \in Call
  BY DEF TypeOK

-----------------------------------------------------------------------------
(* Types.                                                                  *)

\* What TypeOK says of the threads and the gate.
ThreadsTyped ==
  /\ pc \in [Callers -> Steps] /\ DOMAIN call = Callers
  /\ \A c \in Callers : Local(c)
  /\ gate \in Callers \cup {NoCaller}
  /\ \A c \in Callers : pc[c] = "pace" <=> gate = c

\* What it says of the rest.
RestTyped ==
  /\ queries \subseteq Partitions \X Texts /\ asked \subseteq Partitions \X Texts
  /\ files \in [Items -> {"none", "torn", "whole"}]
  /\ gateAge \in 0..Interval /\ lastCall \in [age : 0..Interval, retry : BOOLEAN]
  /\ calls \in 0..MaxCalls /\ faults \in 0..MaxFaults

\* TypeOK has these two parts, in a state and in the next.
LEMMA TypeParts ==
  /\ ThreadsTyped /\ RestTyped => TypeOK
  /\ ThreadsTyped' /\ RestTyped' => TypeOK'
<1>1. ThreadsTyped /\ RestTyped => TypeOK
  BY DEF TypeOK, ThreadsTyped, RestTyped, Local
<1>2. ThreadsTyped' /\ RestTyped' => TypeOK'
  BY DEF TypeOK, ThreadsTyped, RestTyped, Local
<1>3. QED BY <1>1, <1>2

\* A thread that goes from one step outside the gate to another, with a call of
\* the type or none, keeps the threads typed.
LEMMA ThreadGoesOn ==
  ASSUME TypeOK, NEW c \in Callers, Others(c), pc[c] # "pace", pc'[c] # "pace", gate' = gate,
         pc' \in [Callers -> Steps], DOMAIN call' = Callers, Local(c)'
  PROVE  ThreadsTyped'
<1>1. \A d \in Callers : Local(d)'
  BY DEF TypeOK, Local, Others
<1>2. \A d \in Callers : pc'[d] = "pace" <=> gate' = d
  BY DEF TypeOK, Others
<1>3. QED BY <1>1, <1>2 DEF TypeOK, ThreadsTyped

\* A thread that enters the gate's sleep holds the gate, one that wakes gives it
\* back, and one that passes goes to its request or to its backoff.
LEMMA GateStaysTyped ==
  ASSUME TypeOK, NEW c \in Callers, Gate(c) \/ Wake(c)
  PROVE  ThreadsTyped'
<1> USE VoyageBounds, Times, NobodyIsNobody
<1>1. call[c] \in Call /\ pc[c] \in {"gate", "pace"} /\ gate \in {NoCaller, c}
  BY BusyCall DEF Gate, Wake, TypeOK
<1>2. ASSUME Pass(c), gate' = NoCaller
      PROVE  ThreadsTyped'
  <2>1. /\ pc' \in [Callers -> Steps] /\ DOMAIN call' = Callers /\ Others(c)
        /\ pc'[c] \in {"request", "backoff"} /\ call'[c] \in Call
    <3>1. CASE call[c].attempt = 0
      <4>1. Goto(c, "request") /\ call' = call
        BY <1>2, <3>1 DEF Pass
      <4>2. "request" \in Steps
        BY DEF Steps, Paying
      <4>3. QED BY <1>1, <4>1, <4>2, GotoMoves DEF TypeOK
    <3>2. CASE call[c].attempt # 0
      <4>1. Become(c, [call[c] EXCEPT !.left = Backoff[call[c].attempt]], "backoff")
        BY <1>2, <3>2 DEF Pass
      <4>2. call[c].attempt \in 0..Len(Backoff)
        BY <1>1 DEF Call
      <4>3. Backoff[call[c].attempt] \in Nat
        BY <3>2, <4>2, Waits, UpTo
      <4>4. [call[c] EXCEPT !.left = Backoff[call[c].attempt]] \in Call
        BY <1>1, <4>3 DEF Call
      <4>5. "backoff" \in Steps
        BY DEF Steps, Paying, Sleeping
      <4>6. QED BY <4>1, <4>4, <4>5, BecomeMoves
    <3>3. QED BY <3>1, <3>2
  <2>2. \A d \in Callers : Local(d)'
    BY <2>1 DEF TypeOK, Local, Others
  <2>3. \A d \in Callers : pc'[d] = "pace" <=> gate' = d
    BY <1>1, <1>2, <2>1 DEF TypeOK, Others
  <2>4. QED BY <1>2, <2>1, <2>2, <2>3 DEF ThreadsTyped
<1>3. CASE Gate(c) /\ gateAge = Interval
  BY <1>2, <1>3 DEF Gate
<1>4. CASE Gate(c) /\ gateAge # Interval
  <2>1. gate' = c /\ Become(c, [call[c] EXCEPT !.left = Interval - gateAge], "pace")
    BY <1>4 DEF Gate
  <2>2. Interval - gateAge \in Nat
    BY DEF TypeOK
  <2>3. [call[c] EXCEPT !.left = Interval - gateAge] \in Call
    BY <1>1, <2>2 DEF Call
  <2>4. "pace" \in Steps
    BY DEF Steps, Paying, Sleeping
  <2>5. /\ pc' \in [Callers -> Steps] /\ DOMAIN call' = Callers /\ Others(c)
        /\ pc'[c] = "pace" /\ call'[c] \in Call
    BY <2>1, <2>3, <2>4, BecomeMoves
  <2>6. \A d \in Callers : Local(d)'
    BY <2>5 DEF TypeOK, Local, Others
  <2>7. \A d \in Callers : pc'[d] = "pace" <=> gate' = d
    BY <1>4, <2>1, <2>5 DEF TypeOK, Others, Gate
  <2>8. QED BY <2>1, <2>5, <2>6, <2>7 DEF ThreadsTyped
<1>5. CASE Wake(c)
  BY <1>2, <1>5 DEF Wake
<1>6. QED BY <1>3, <1>4, <1>5

\* Every step of every thread keeps the threads typed.
LEMMA ThreadsStayTyped ==
  ASSUME TypeOK, NEW c \in Callers, Move(c)
  PROVE  ThreadsTyped'
<1> USE VoyageBounds, Times, NobodyIsNobody
<1>become. ASSUME NEW local, NEW s, s \in Steps \ {"idle", "pace"}, local \in Call,
                  Become(c, local, s), pc[c] # "pace", gate' = gate
           PROVE  ThreadsTyped'
  <2>1. Local(c)'
    BY <1>become, BecomeMoves DEF Local
  <2>2. QED BY <1>become, <2>1, BecomeMoves, ThreadGoesOn
<1>goto. ASSUME NEW s, s \in Steps \ {"idle", "pace"}, pc[c] \notin {"idle", "pace"},
                Goto(c, s), call' = call, gate' = gate
         PROVE  ThreadsTyped'
  <2>1. DOMAIN call' = Callers /\ Local(c)'
    BY <1>goto, GotoMoves, BusyCall DEF Local, TypeOK
  <2>2. QED BY <1>goto, <2>1, GotoMoves, ThreadGoesOn
<1>leave. ASSUME Leave(c), pc[c] # "pace", gate' = gate
          PROVE  ThreadsTyped'
  <2>1. Local(c)'
    BY <1>leave, LeaveMoves DEF Local
  <2>2. QED BY <1>leave, <2>1, LeaveMoves, ThreadGoesOn
<1>1. CASE Ask(c)
  <2>1. PICK kind \in {"query", "embed", "rerank"}, p \in Partitions, t \in Texts :
          Become(c, [kind |-> kind, part |-> p, text |-> t, use |-> t,
                     decision |-> "", attempt |-> 0, left |-> 0],
                 IF kind = "query" THEN "lookup" ELSE "fetch")
    BY <1>1 DEF Ask
  <2>2. [kind |-> kind, part |-> p, text |-> t, use |-> t,
         decision |-> "", attempt |-> 0, left |-> 0] \in Call
    <3>1. 0 \in 0..Len(Backoff) /\ 0 \in Nat
      BY Waits, UpTo
    <3>2. QED BY <3>1 DEF Call
  <2>3. pc[c] # "pace" /\ gate' = gate
    BY <1>1 DEF Ask
  <2>4. (IF kind = "query" THEN "lookup" ELSE "fetch") \in Steps \ {"idle", "pace"}
    BY DEF Steps
  <2>5. QED BY <2>1, <2>2, <2>3, <2>4, <1>become
<1>2. CASE Lookup(c)
  <2>1. [call[c] EXCEPT !.decision = "exact_hit"] \in Call
    BY <1>2, BusyCall DEF Lookup, Call
  <2>2. QED BY <1>2, <2>1, <1>become, <1>goto DEF Lookup, Steps
<1>3. CASE Match(c)
  <2>1. pc[c] = "match" /\ call[c] \in Call /\ gate' = gate
    BY <1>3, BusyCall DEF Match
  <2>2. PICK local \in Call : Become(c, local, "note")
    <3>1. CASE \E m \in BestMatches(call[c].part, call[c].text) :
                 Become(c, [call[c] EXCEPT !.decision = "semantic_hit", !.use = m], "note")
      <4>1. PICK m \in BestMatches(call[c].part, call[c].text) :
              Become(c, [call[c] EXCEPT !.decision = "semantic_hit", !.use = m], "note")
        BY <3>1
      <4>2. m \in Texts
        BY DEF BestMatches, TypeOK
      <4>3. [call[c] EXCEPT !.decision = "semantic_hit", !.use = m] \in Call
        BY <2>1, <4>2 DEF Call
      <4>4. QED BY <4>1, <4>3
    <3>2. CASE Become(c, [call[c] EXCEPT !.decision = "miss"], "note")
      <4>1. [call[c] EXCEPT !.decision = "miss"] \in Call
        BY <2>1 DEF Call
      <4>2. QED BY <3>2, <4>1
    <3>3. QED BY <1>3, <3>1, <3>2 DEF Match
  <2>3. QED BY <2>1, <2>2, <1>become DEF Steps
<1>4. CASE Note(c)
  BY <1>4, <1>goto DEF Note, Steps
<1>5. CASE Fetch(c)
  BY <1>5, <1>goto, <1>leave DEF Fetch, Steps, Paying
<1>6. CASE Gate(c) \/ Wake(c)
  BY <1>6, GateStaysTyped
<1>7. CASE Retry(c)
  BY <1>7, <1>goto DEF Retry, Steps, Paying
<1>8. CASE Request(c)
  BY <1>8, <1>goto DEF Request, Steps, Paying
<1>9. CASE Answer(c)
  BY <1>9, <1>goto DEF Answer, Steps
<1>10. CASE Save(c)
  BY <1>10, <1>leave DEF Save
<1>11. CASE RateLimited(c)
  <2>1. ASSUME call[c].attempt < Len(Backoff)
        PROVE  [call[c] EXCEPT !.attempt = @ + 1] \in Call
    <3>1. call[c] \in Call /\ Len(Backoff) \in Nat
      BY <1>11, BusyCall, Waits DEF RateLimited
    <3>2. call[c].attempt \in 0..Len(Backoff)
      BY <3>1 DEF Call
    <3>3. call[c].attempt + 1 \in 0..Len(Backoff)
      BY <2>1, <3>1, <3>2, UpTo
    <3>4. QED BY <3>1, <3>3 DEF Call
  <2>2. QED BY <1>11, <2>1, <1>become, <1>leave DEF RateLimited, Steps, Paying
<1>12. CASE Fail(c)
  BY <1>12, <1>leave DEF Fail
<1>13. QED
  BY <1>1, <1>2, <1>3, <1>4, <1>5, <1>6, <1>7, <1>8, <1>9, <1>10, <1>11, <1>12
     DEF Move, CallStep

\* Every step of every thread keeps the rest typed.
LEMMA RestStaysTyped ==
  ASSUME TypeOK, NEW c \in Callers, Move(c)
  PROVE  RestTyped'
<1> USE VoyageBounds, Times
<1>1. /\ queries \subseteq Partitions \X Texts /\ asked \subseteq Partitions \X Texts
      /\ files \in [Items -> {"none", "torn", "whole"}]
      /\ gateAge \in 0..Interval /\ lastCall \in [age : 0..Interval, retry : BOOLEAN]
      /\ calls \in 0..MaxCalls /\ faults \in 0..MaxFaults
  BY DEF TypeOK
<1>2. pc[c] # "idle" => call[c] \in Call
  BY BusyCall
<1>3. 0 \in 0..Interval
  OBVIOUS
<1>4. CASE Ask(c)
  <2>1. PICK p \in Partitions, t \in Texts : asked' = asked \/ asked' = asked \cup {<<p, t>>}
    BY <1>4 DEF Ask
  <2>2. calls < MaxCalls /\ calls' = calls + 1
    BY <1>4 DEF Ask
  <2>3. asked' \subseteq Partitions \X Texts /\ calls' \in 0..MaxCalls
    BY <1>1, <2>1, <2>2
  <2>4. QED BY <1>1, <1>4, <2>3 DEF Ask, RestTyped
<1>5. CASE Note(c)
  <2>1. call[c].part \in Partitions /\ call[c].text \in Texts
    BY <1>2, <1>5 DEF Note, Call
  <2>2. queries' \subseteq Partitions \X Texts
    BY <1>1, <1>5, <2>1 DEF Note
  <2>3. QED BY <1>1, <1>5, <2>2 DEF Note, RestTyped
<1>6. CASE Gate(c) \/ Wake(c)
  BY <1>1, <1>3, <1>6 DEF Gate, Wake, Pass, RestTyped
<1>7. CASE Request(c)
  BY <1>1, <1>3, <1>7 DEF Request, RestTyped
<1>8. CASE Answer(c) \/ Save(c)
  <2>1. files' \in [Items -> {"none", "torn", "whole"}]
    BY <1>1, <1>8 DEF Answer, Save
  <2>2. QED BY <1>1, <1>8, <2>1 DEF Answer, Save, RestTyped
<1>9. CASE RateLimited(c) \/ Fail(c)
  BY <1>1, <1>9 DEF RateLimited, Fail, RestTyped
<1>10. CASE Lookup(c) \/ Match(c) \/ Fetch(c) \/ Retry(c)
  BY <1>1, <1>10 DEF Lookup, Match, Fetch, Retry, RestTyped
<1>11. QED
  BY <1>4, <1>5, <1>6, <1>7, <1>8, <1>9, <1>10 DEF Move, CallStep

\* A tick keeps the types: timers stay within their bounds.
LEMMA TickTyped == TypeOK /\ Tick => TypeOK'
<1> SUFFICES ASSUME TypeOK, Tick PROVE TypeOK'
  OBVIOUS
<1> USE VoyageBounds, Times
<1>1. \A n \in 0..Interval : Older(n) \in 0..Interval
  BY DEF Older
<1>2. gateAge' \in 0..Interval /\ lastCall' \in [age : 0..Interval, retry : BOOLEAN]
  BY <1>1 DEF Tick, TypeOK
<1>3. RestTyped'
  BY <1>2 DEF Tick, TypeOK, RestTyped
<1>4. ASSUME NEW c \in Callers PROVE Local(c)'
  <2>1. call'[c] = IF pc[c] \in Sleeping /\ call[c].left > 0
                   THEN [call[c] EXCEPT !.left = @ - 1] ELSE call[c]
    BY DEF Tick
  <2>2. CASE pc[c] \in Sleeping /\ call[c].left > 0
    <3>1. call[c] \in Call
      BY <2>2, BusyCall DEF Sleeping
    <3>2. call[c].left - 1 \in Nat
      <4>1. call[c].left \in Nat /\ call[c].left > 0
        BY <2>2, <3>1 DEF Call
      <4>2. QED BY <4>1
    <3>3. [call[c] EXCEPT !.left = @ - 1] \in Call
      BY <3>1, <3>2 DEF Call
    <3>4. pc'[c] # "idle" /\ call'[c] \in Call
      BY <2>1, <2>2, <3>3 DEF Tick, Sleeping
    <3>5. QED BY <3>4 DEF Local
  <2>3. CASE ~(pc[c] \in Sleeping /\ call[c].left > 0)
    BY <2>1, <2>3 DEF TypeOK, Local, Tick
  <2>4. QED BY <2>2, <2>3
<1>5. pc' = pc /\ gate' = gate /\ DOMAIN call' = Callers
  BY DEF Tick
<1>6. ThreadsTyped'
  BY <1>4, <1>5 DEF TypeOK, ThreadsTyped
<1>7. QED BY <1>3, <1>6, TypeParts

\* After a restart every thread is idle and the gate forgets.
LEMMA CrashTyped == TypeOK /\ Crash => TypeOK'
<1> SUFFICES ASSUME TypeOK, Crash PROVE TypeOK'
  OBVIOUS
<1>1. RestTyped'
  BY VoyageBounds, Times DEF Crash, TypeOK, RestTyped
<1>2. /\ pc' = [c \in Callers |-> "idle"] /\ call' = [c \in Callers |-> NoCall]
      /\ gate' = NoCaller
  BY DEF Crash
<1>3. "idle" \in Steps
  BY DEF Steps
<1>4. DOMAIN call' = Callers /\ \A c \in Callers : pc'[c] = "idle" /\ call'[c] = NoCall
  BY <1>2
<1>5. \A c \in Callers : Local(c)'
  BY <1>4 DEF Local
<1>6. ThreadsTyped'
  BY <1>2, <1>3, <1>4, <1>5, NobodyIsNobody DEF ThreadsTyped
<1>7. QED BY <1>1, <1>6, TypeParts

\* A step of Next is a thread's, a tick, or a restart.
LEMMA NextMoves == Next <=> (\E c \in Callers : Move(c)) \/ Tick \/ Crash
  BY Zenon DEF Next, Move

\* A thread's step is its own.
LEMMA MoveLeavesOthers ==
  ASSUME TypeOK, NEW c \in Callers, Move(c)
  PROVE  Others(c)
<1>1. PICK s : pc' = [pc EXCEPT ![c] = s]
  BY DEF Move, CallStep, Ask, Lookup, Match, Note, Fetch, Gate, Wake, Pass, Retry, Request,
         Answer, Save, RateLimited, Fail, Leave, Become, Goto
<1>2. call' = call \/ \E local : call' = [call EXCEPT ![c] = local]
  BY DEF Move, CallStep, Ask, Lookup, Match, Note, Fetch, Gate, Wake, Pass, Retry, Request,
         Answer, Save, RateLimited, Fail, Leave, Become
<1>3. QED BY <1>1, <1>2 DEF Others, TypeOK

\* The initial states are typed.
LEMMA TypeInit == Init => TypeOK
<1> SUFFICES ASSUME Init PROVE TypeOK
  OBVIOUS
<1>1. RestTyped
  BY VoyageBounds, Times DEF Init, RestTyped
<1>2. "idle" \in Steps
  BY DEF Steps
<1>3. /\ DOMAIN call = Callers /\ pc = [c \in Callers |-> "idle"]
      /\ \A c \in Callers : pc[c] = "idle" /\ call[c] = NoCall
  BY DEF Init
<1>4. \A c \in Callers : Local(c)
  BY <1>3 DEF Local
<1>5. ThreadsTyped
  BY <1>2, <1>3, <1>4, NobodyIsNobody DEF Init, ThreadsTyped
<1>6. QED BY <1>1, <1>5, TypeParts

\* Every step keeps the types.
LEMMA TypeStep == TypeOK /\ [Next]_vars => TypeOK'
<1> SUFFICES ASSUME TypeOK, [Next]_vars PROVE TypeOK'
  OBVIOUS
<1>1. ASSUME NEW c \in Callers, Move(c) PROVE TypeOK'
  BY <1>1, ThreadsStayTyped, RestStaysTyped, TypeParts
<1>2. CASE UNCHANGED vars
  BY <1>2 DEF vars, TypeOK
<1>3. QED BY <1>1, <1>2, NextMoves, TickTyped, CrashTyped

\* Every variable holds what the code can store in it, and the gate's lock is held
\* exactly by the thread that sleeps in it (voyage_gate).
THEOREM TypeCorrect == Spec => []TypeOK
  BY TypeInit, TypeStep, PTL DEF Spec

-----------------------------------------------------------------------------
(* What the semantic cache says of a query.                                *)

\* The log of a call is true of what it was asked and of what it takes, and an exact
\* hit has the file it hit, torn or whole.
Honest(c) ==
  pc[c] # "idle" =>
    /\ pc[c] \in {"lookup", "match", "note"} => call[c].kind = "query"
    /\ call[c].kind = "query" =>
         /\ <<call[c].part, call[c].text>> \in asked
         /\ <<call[c].part, call[c].use>> \in asked
         /\ call[c].use # call[c].text => Score[call[c].text][call[c].use] >= Threshold
    /\ call[c].decision = "exact_hit" => pc[c] = "fetch" /\ files[Item(c)] # "none"

HonestInv == queries \subseteq asked /\ \A c \in Callers : Honest(c)

\* Cache files are never taken away, and what was asked stays asked.
Grows == asked \subseteq asked' /\ \A i \in Items : files[i] # "none" => files'[i] # "none"

\* A call of the type reads or writes one of the cache files.
LEMMA ItemType ==
  ASSUME NEW c \in Callers, call[c] \in Call
  PROVE  Item(c) \in Items
  BY DEF Item, Items, Call

\* Every step of a thread does so.
LEMMA MovesGrow ==
  ASSUME TypeOK, NEW c \in Callers, Move(c)
  PROVE  Grows
<1>1. CASE Ask(c)
  BY <1>1 DEF Ask, Grows
<1>2. CASE Answer(c) \/ Save(c)
  BY <1>2 DEF Answer, Save, Grows, TypeOK
<1>3. CASE ~(Ask(c) \/ Answer(c) \/ Save(c))
  BY <1>3 DEF Move, CallStep, Lookup, Match, Note, Fetch, Gate, Wake, Retry, Request,
              RateLimited, Fail, Grows
<1>4. QED BY <1>1, <1>2, <1>3

\* A thread that does not move stays honest.
LEMMA StaysHonest ==
  ASSUME TypeOK, NEW c \in Callers, Honest(c), Grows, pc'[c] = pc[c], call'[c] = call[c]
  PROVE  Honest(c)'
<1>1. CASE pc[c] = "idle"
  BY <1>1 DEF Honest
<1>2. CASE pc[c] # "idle"
  <2>1. Item(c) \in Items /\ Item(c)' = Item(c)
    BY <1>2, BusyCall, ItemType DEF Item
  <2>2. QED BY <1>2, <2>1 DEF Honest, Grows
<1>3. QED BY <1>1, <1>2

\* A thread that goes on with the call it has stays honest, unless it was an exact
\* hit, if it does not go back to the semantic cache.
LEMMA GoesOnHonest ==
  ASSUME NEW c \in Callers, Honest(c), Grows, pc[c] # "idle", call'[c] = call[c],
         pc[c] # "fetch" \/ call[c].decision # "exact_hit",
         pc'[c] \in {"match", "note"} => call[c].kind = "query", pc'[c] # "lookup"
  PROVE  Honest(c)'
  BY DEF Honest, Grows

\* The same with another number of attempts, or another wait.
LEMMA RetriesHonest ==
  ASSUME NEW c \in Callers, Honest(c), Grows, pc[c] \notin {"idle", "fetch"},
         call'[c].kind = call[c].kind, call'[c].part = call[c].part,
         call'[c].text = call[c].text, call'[c].use = call[c].use,
         call'[c].decision = call[c].decision, pc'[c] \in Paying
  PROVE  Honest(c)'
  BY DEF Honest, Grows, Paying, Sleeping

\* The thread that moves stays honest, and what it notes was asked.
LEMMA MoverHonest ==
  ASSUME TypeOK, HonestInv, NEW c \in Callers, Move(c)
  PROVE  Honest(c)' /\ queries' \subseteq asked'
<1>1. Honest(c) /\ Grows /\ queries \subseteq asked /\ asked \subseteq asked'
  BY MovesGrow DEF HonestInv, Grows
<1>2. pc[c] # "idle" => call[c] \in Call /\ Item(c) \in Items
  BY BusyCall, ItemType
<1>idle. ASSUME Leave(c) PROVE Honest(c)'
  BY <1>idle, LeaveMoves DEF Honest
<1>goto. ASSUME NEW s \in Steps, Goto(c, s), call' = call
         PROVE  pc'[c] = s /\ call'[c] = call[c]
  BY <1>goto, GotoMoves
<1>steps. {"lookup", "match", "note", "fetch", "gate", "pace", "backoff", "request",
           "answer", "save"} \subseteq Steps
  BY DEF Steps, Paying, Sleeping
<1>3. CASE Ask(c)
  <2>1. PICK kind \in {"query", "embed", "rerank"}, p \in Partitions, t \in Texts :
          /\ Become(c, [kind |-> kind, part |-> p, text |-> t, use |-> t,
                        decision |-> "", attempt |-> 0, left |-> 0],
                    IF kind = "query" THEN "lookup" ELSE "fetch")
          /\ asked' = IF kind = "query" THEN asked \cup {<<p, t>>} ELSE asked
    BY <1>3 DEF Ask
  <2>2. (IF kind = "query" THEN "lookup" ELSE "fetch") \in Steps
    BY <1>steps
  <2>3. /\ call'[c] = [kind |-> kind, part |-> p, text |-> t, use |-> t,
                       decision |-> "", attempt |-> 0, left |-> 0]
        /\ pc'[c] = IF kind = "query" THEN "lookup" ELSE "fetch"
    BY <2>1, <2>2, BecomeMoves
  <2>4. Honest(c)'
    <3>1. /\ call'[c].kind = kind /\ call'[c].part = p /\ call'[c].text = t
          /\ call'[c].use = t /\ call'[c].decision = ""
      <4>1. SUFFICES ASSUME NEW local, local = call'[c]
                     PROVE  /\ local.kind = kind /\ local.part = p /\ local.text = t
                            /\ local.use = t /\ local.decision = ""
        OBVIOUS
      <4>2. local = [kind |-> kind, part |-> p, text |-> t, use |-> t,
                     decision |-> "", attempt |-> 0, left |-> 0]
        BY <2>3, <4>1
      <4>3. QED BY ONLY <4>2
    <3>2. kind = "query" => <<p, t>> \in asked'
      BY <2>1
    <3>3. pc'[c] = "lookup" => kind = "query"
      BY <2>3
    <3>4. pc'[c] \in {"lookup", "fetch"}
      BY <2>3
    <3>5. QED BY <3>1, <3>2, <3>3, <3>4 DEF Honest
  <2>5. QED BY <1>1, <1>3, <2>4 DEF Ask
<1>4. CASE Lookup(c)
  <2>1. CASE files[Item(c)] # "none"
    <3>1. /\ pc'[c] = "fetch" /\ call'[c] = [call[c] EXCEPT !.decision = "exact_hit"]
          /\ pc[c] = "lookup" /\ files' = files
      BY <1>4, <1>steps, <2>1, BecomeMoves DEF Lookup
    <3>2. call[c] \in Call
      BY <1>2, <3>1
    <3>3. /\ call'[c].kind = call[c].kind /\ call'[c].part = call[c].part
          /\ call'[c].text = call[c].text /\ call'[c].use = call[c].use
      BY <3>1, <3>2 DEF Call
    <3>4. Item(c)' = Item(c)
      BY <3>3 DEF Item
    <3>5. QED BY <1>1, <1>4, <2>1, <3>1, <3>3, <3>4 DEF Honest, Lookup
  <2>2. CASE files[Item(c)] = "none"
    <3>1. pc[c] = "lookup" /\ pc'[c] = "match" /\ call'[c] = call[c]
      BY <1>4, <1>goto, <1>steps, <2>2 DEF Lookup
    <3>2. call[c].kind = "query"
      BY <1>1, <3>1 DEF Honest
    <3>3. QED BY <1>1, <1>4, <3>1, <3>2, GoesOnHonest DEF Lookup
  <2>3. QED BY <2>1, <2>2
<1>5. CASE Match(c)
  <2>1. /\ pc[c] = "match" /\ call[c] \in Call /\ asked' = asked /\ queries' = queries
        /\ call[c].kind = "query"
    BY <1>1, <1>2, <1>5 DEF Match, Honest
  <2>2. CASE \E m \in BestMatches(call[c].part, call[c].text) :
               /\ Score[call[c].text][m] >= Threshold
               /\ Become(c, [call[c] EXCEPT !.decision = "semantic_hit", !.use = m], "note")
    <3>1. PICK m \in BestMatches(call[c].part, call[c].text) :
               /\ Score[call[c].text][m] >= Threshold
               /\ Become(c, [call[c] EXCEPT !.decision = "semantic_hit", !.use = m], "note")
      BY <2>2
    <3>2. <<call[c].part, m>> \in queries
      <4>1. PICK q \in queries : q[1] = call[c].part /\ q[2] = m
        BY <3>1 DEF BestMatches
      <4>2. q = <<q[1], q[2]>>
        BY <4>1 DEF TypeOK
      <4>3. QED BY <4>1, <4>2
    <3>3. /\ pc'[c] = "note"
          /\ call'[c] = [call[c] EXCEPT !.decision = "semantic_hit", !.use = m]
      BY <1>steps, <3>1, BecomeMoves
    <3>4. /\ call'[c].kind = "query" /\ call'[c].part = call[c].part
          /\ call'[c].text = call[c].text /\ call'[c].use = m
          /\ call'[c].decision = "semantic_hit"
      BY <2>1, <3>3 DEF Call
    <3>5. QED BY <1>1, <2>1, <3>1, <3>2, <3>3, <3>4 DEF Honest
  <2>3. CASE Become(c, [call[c] EXCEPT !.decision = "miss"], "note")
    <3>1. pc'[c] = "note" /\ call'[c] = [call[c] EXCEPT !.decision = "miss"]
      BY <1>steps, <2>3, BecomeMoves
    <3>2. /\ call'[c].kind = "query" /\ call'[c].part = call[c].part
          /\ call'[c].text = call[c].text /\ call'[c].use = call[c].use
          /\ call'[c].decision = "miss"
      BY <2>1, <3>1 DEF Call
    <3>3. QED BY <1>1, <2>1, <3>1, <3>2 DEF Honest
  <2>4. QED BY <1>5, <2>2, <2>3 DEF Match
<1>6. CASE Note(c)
  <2>1. pc[c] = "note" /\ pc'[c] = "fetch" /\ call'[c] = call[c]
    BY <1>6, <1>goto, <1>steps DEF Note
  <2>2. <<call[c].part, call[c].text>> \in asked
    BY <1>1, <2>1 DEF Honest
  <2>3. QED BY <1>1, <1>6, <2>1, <2>2, GoesOnHonest DEF Note
<1>7. CASE Fetch(c)
  <2>1. CASE files[Item(c)] # "none"
    BY <1>1, <1>7, <1>idle, <2>1 DEF Fetch
  <2>2. CASE files[Item(c)] = "none"
    <3>1. pc[c] = "fetch" /\ pc'[c] = "gate" /\ call'[c] = call[c]
      BY <1>7, <1>goto, <1>steps, <2>2 DEF Fetch
    <3>2. call[c].decision # "exact_hit"
      BY <1>1, <2>2, <3>1 DEF Honest
    <3>3. QED BY <1>1, <1>7, <3>1, <3>2, GoesOnHonest DEF Fetch
  <2>3. QED BY <2>1, <2>2
<1>8. CASE Gate(c) \/ Wake(c)
  <2>1. pc[c] \in {"gate", "pace"} /\ queries' = queries /\ asked' = asked
    BY <1>8 DEF Gate, Wake
  <2>2. CASE Goto(c, "request") /\ call' = call
    BY <1>1, <1>goto, <1>steps, <2>1, <2>2, GoesOnHonest
  <2>3. ASSUME NEW n, NEW s \in {"backoff", "pace"}, Become(c, [call[c] EXCEPT !.left = n], s)
        PROVE  Honest(c)'
    <3>1. pc'[c] = s /\ call'[c] = [call[c] EXCEPT !.left = n]
      BY <1>steps, <2>3, BecomeMoves
    <3>2. call[c] \in Call /\ pc'[c] \in Paying
      BY <1>2, <2>1, <3>1 DEF Paying, Sleeping
    <3>3. /\ call'[c].kind = call[c].kind /\ call'[c].part = call[c].part
          /\ call'[c].text = call[c].text /\ call'[c].use = call[c].use
          /\ call'[c].decision = call[c].decision
      BY <3>1, <3>2 DEF Call
    <3>4. QED BY <1>1, <2>1, <3>2, <3>3, RetriesHonest
  <2>4. QED BY <1>1, <1>8, <2>1, <2>2, <2>3 DEF Gate, Wake, Pass
<1>9. CASE RateLimited(c)
  <2>1. pc[c] = "answer" /\ queries' = queries /\ asked' = asked
    BY <1>9 DEF RateLimited
  <2>2. CASE Leave(c)
    BY <1>1, <1>idle, <2>1, <2>2
  <2>3. CASE Become(c, [call[c] EXCEPT !.attempt = @ + 1], "gate")
    <3>1. pc'[c] = "gate" /\ call'[c] = [call[c] EXCEPT !.attempt = @ + 1]
      BY <1>steps, <2>3, BecomeMoves
    <3>2. call[c] \in Call /\ pc'[c] \in Paying
      BY <1>2, <2>1, <3>1 DEF Paying, Sleeping
    <3>3. /\ call'[c].kind = call[c].kind /\ call'[c].part = call[c].part
          /\ call'[c].text = call[c].text /\ call'[c].use = call[c].use
          /\ call'[c].decision = call[c].decision
      BY <3>1, <3>2 DEF Call
    <3>4. QED BY <1>1, <2>1, <3>2, <3>3, RetriesHonest
  <2>4. QED BY <1>9, <2>2, <2>3 DEF RateLimited
<1>10. CASE Retry(c) \/ Request(c) \/ Answer(c)
  <2>1. /\ pc[c] \in {"backoff", "request", "answer"} /\ call'[c] = call[c]
        /\ pc'[c] \in {"request", "answer", "save"}
        /\ queries' = queries /\ asked' = asked
    BY <1>10, <1>goto, <1>steps DEF Retry, Request, Answer
  <2>2. QED BY <1>1, <2>1, GoesOnHonest
<1>11. CASE Save(c) \/ Fail(c)
  BY <1>1, <1>11, <1>idle DEF Save, Fail
<1>12. QED
  BY <1>3, <1>4, <1>5, <1>6, <1>7, <1>8, <1>9, <1>10, <1>11 DEF Move, CallStep

\* Idle threads are honest.
LEMMA HonestInit == Init => HonestInv
  BY DEF Init, HonestInv, Honest

\* Every step keeps the threads honest.
LEMMA HonestStep == TypeOK /\ HonestInv /\ [Next]_vars => HonestInv'
<1> SUFFICES ASSUME TypeOK, HonestInv, [Next]_vars PROVE HonestInv'
  OBVIOUS
<1>1. ASSUME NEW c \in Callers, Move(c) PROVE HonestInv'
  <2>1. Honest(c)' /\ queries' \subseteq asked' /\ Grows
    BY <1>1, MoverHonest, MovesGrow
  <2>2. Others(c)
    BY <1>1, MoveLeavesOthers
  <2>3. ASSUME NEW d \in Callers PROVE Honest(d)'
    <3>1. CASE d = c
      BY <2>1, <3>1
    <3>2. CASE d # c
      <4>1. Honest(d) /\ pc'[d] = pc[d] /\ call'[d] = call[d]
        BY <2>2, <3>2 DEF Others, HonestInv
      <4>2. QED BY <2>1, <4>1, StaysHonest
    <3>3. QED BY <3>1, <3>2
  <2>4. QED BY <2>1, <2>3 DEF HonestInv
<1>2. CASE Tick
  <2>1. Grows /\ queries' = queries /\ asked' = asked /\ pc' = pc /\ files' = files
    BY <1>2 DEF Tick, Grows
  <2>2. ASSUME NEW c \in Callers PROVE Honest(c)'
    <3>1. CASE pc[c] = "idle"
      BY <2>1, <3>1 DEF Honest
    <3>2. CASE pc[c] # "idle"
      <4>1. call[c] \in Call
        BY <3>2, BusyCall
      <4>2. call'[c] = call[c] \/ call'[c] = [call[c] EXCEPT !.left = @ - 1]
        BY <1>2 DEF Tick
      <4>3. /\ call'[c].kind = call[c].kind /\ call'[c].part = call[c].part
            /\ call'[c].text = call[c].text /\ call'[c].use = call[c].use
            /\ call'[c].decision = call[c].decision
        BY <4>1, <4>2 DEF Call
      <4>4. Item(c)' = Item(c)
        BY <4>3 DEF Item
      <4>5. QED BY <2>1, <4>3, <4>4 DEF Honest, HonestInv
    <3>3. QED BY <3>1, <3>2
  <2>3. QED BY <2>1, <2>2 DEF HonestInv
<1>3. CASE Crash
  BY <1>3 DEF Crash, HonestInv, Honest
<1>4. CASE UNCHANGED vars
  BY <1>4 DEF vars, HonestInv, Honest, Item
<1>5. QED BY <1>1, <1>2, <1>3, <1>4, NextMoves

\* What the semantic cache says of a query is so, for any similarity: the vector is
\* that of a text asked in the same scope and similar to it, and an exact hit is not
\* paid for (embed_query_scoped, _best_match).
THEOREM HitsHold == Spec => []HitsAreWhatTheySay
<1>1. TypeOK /\ HonestInv => HitsAreWhatTheySay
  BY DEF HonestInv, Honest, HitsAreWhatTheySay, Paying, Sleeping
<1>2. QED BY <1>1, TypeInit, TypeStep, HonestInit, HonestStep, PTL DEF Spec

-----------------------------------------------------------------------------
(* The spacing of requests.                                                *)

\* A first attempt that has passed the gate and is about to be sent.
First(c) == pc[c] = "request" /\ call[c].attempt = 0

\* The gate's memory is 0 while a first attempt is about to be sent, so that no
\* other one passes; and the last request, if it was a first attempt, was sent when
\* its thread passed the gate, no later.
SpacedInv ==
  /\ \A c \in Callers : pc[c] = "pace" => gateAge + call[c].left = Interval
  /\ \A c \in Callers : pc[c] = "backoff" => call[c].attempt # 0
  /\ \A c \in Callers : First(c) =>
       gateAge = 0 /\ (lastCall.retry \/ lastCall.age = Interval)
  /\ \A c, d \in Callers : First(c) /\ First(d) => c = d \/ Interval = 0
  /\ lastCall.retry \/ lastCall.age >= gateAge

\* A step of a thread that neither passes the gate nor sends a request, and does not
\* go to sleep, leaves the spacing as it is.
LEMMA CalmSpaced ==
  ASSUME TypeOK, SpacedInv, NEW c \in Callers, Others(c),
         gateAge' = gateAge, lastCall' = lastCall,
         pc'[c] \notin {"pace", "request", "backoff"}
  PROVE  SpacedInv'
  BY DEF SpacedInv, First, Others

\* Whoever leaves the gate finds the last first attempt an interval ago.
LEMMA PassSpaced ==
  ASSUME TypeOK, SpacedInv, NEW c \in Callers, pc[c] \in {"gate", "pace"},
         \A d \in Callers : d # c => pc[d] # "pace",
         gateAge = Interval, Pass(c), lastCall' = lastCall
  PROVE  SpacedInv'
<1> USE Times
<1>1. /\ gateAge \in 0..Interval /\ lastCall \in [age : 0..Interval, retry : BOOLEAN]
      /\ Interval \in Nat
  BY DEF TypeOK
<1>2. lastCall.retry \/ lastCall.age = Interval
  BY <1>1 DEF SpacedInv
<1>3. \A d \in Callers : First(d) => Interval = 0
  BY DEF SpacedInv
<1>4. /\ Others(c) /\ gateAge' = 0
      /\ \/ pc'[c] = "request" /\ call'[c] = call[c]
         \/ pc'[c] = "backoff" /\ call'[c].attempt # 0
  <2>1. call[c] \in Call
    BY BusyCall
  <2>2. CASE call[c].attempt = 0
    <3>1. "request" \in Steps
      BY DEF Steps, Paying
    <3>2. QED BY <2>2, <3>1, GotoMoves DEF Pass
  <2>3. CASE call[c].attempt # 0
    <3>1. "backoff" \in Steps
      BY DEF Steps, Paying, Sleeping
    <3>2. /\ pc'[c] = "backoff" /\ Others(c)
          /\ call'[c] = [call[c] EXCEPT !.left = Backoff[call[c].attempt]]
      BY <2>3, <3>1, BecomeMoves DEF Pass
    <3>3. call'[c].attempt = call[c].attempt
      BY <2>1, <3>2 DEF Call
    <3>4. QED BY <2>3, <3>2, <3>3 DEF Pass
  <2>4. QED BY <2>2, <2>3
<1>6. \A d \in Callers : pc'[d] # "pace"
  BY <1>4 DEF Others
<1>7. \A d \in Callers : pc'[d] = "backoff" => call'[d].attempt # 0
  BY <1>4 DEF SpacedInv, Others
<1>8. \A d \in Callers : First(d)' => d = c \/ First(d)
  BY <1>4 DEF First, Others
<1>9. QED BY <1>1, <1>2, <1>3, <1>4, <1>6, <1>7, <1>8 DEF SpacedInv

\* A thread's step keeps the spacing.
LEMMA MoveSpaced ==
  ASSUME TypeOK, SpacedInv, NEW c \in Callers, Move(c)
  PROVE  SpacedInv'
<1> USE Times
<1>1. /\ gateAge \in 0..Interval /\ lastCall \in [age : 0..Interval, retry : BOOLEAN]
      /\ gate \in Callers \cup {NoCaller} /\ \A d \in Callers : pc[d] = "pace" <=> gate = d
  BY DEF TypeOK
<1>2. Others(c) /\ (pc[c] # "idle" => call[c] \in Call)
  BY MoveLeavesOthers, BusyCall
<1>3. CASE Gate(c)
  <2>1. \A d \in Callers : pc[d] # "pace"
    BY <1>1, <1>3, NobodyIsNobody DEF Gate
  <2>2. CASE gateAge = Interval
    BY <1>3, <2>1, <2>2, PassSpaced DEF Gate
  <2>3. CASE gateAge # Interval
    <3>1. /\ Become(c, [call[c] EXCEPT !.left = Interval - gateAge], "pace")
          /\ gateAge' = gateAge /\ lastCall' = lastCall /\ pc[c] = "gate"
      BY <1>3, <2>3 DEF Gate
    <3>2. "pace" \in Steps
      BY DEF Steps, Paying, Sleeping
    <3>3. pc'[c] = "pace" /\ call'[c] = [call[c] EXCEPT !.left = Interval - gateAge]
      BY <3>1, <3>2, BecomeMoves
    <3>4. call'[c].left = Interval - gateAge
      BY <1>2, <3>1, <3>3 DEF Call
    <3>5. gateAge' + call'[c].left = Interval
      BY <1>1, <3>1, <3>4
    <3>6. \A d \in Callers : pc'[d] = "pace" => gateAge' + call'[d].left = Interval
      BY <1>2, <2>1, <3>5 DEF Others
    <3>7. \A d \in Callers : First(d)' => d # c /\ First(d)
      BY <1>2, <3>3 DEF First, Others
    <3>8. \A d \in Callers : pc'[d] = "backoff" => call'[d].attempt # 0
      BY <1>2, <3>3 DEF Others, SpacedInv
    <3>9. QED BY <3>1, <3>6, <3>7, <3>8 DEF SpacedInv
  <2>4. QED BY <2>2, <2>3
<1>4. CASE Wake(c)
  <2>1. pc[c] = "pace" /\ call[c].left = 0
    BY <1>4 DEF Wake
  <2>2. gateAge = Interval
    BY <1>1, <2>1 DEF SpacedInv
  <2>3. \A d \in Callers : d # c => pc[d] # "pace"
    BY <1>1, <2>1
  <2>4. QED BY <1>4, <2>1, <2>2, <2>3, PassSpaced DEF Wake
<1>5. CASE Request(c)
  <2>1. /\ pc[c] = "request" /\ lastCall' = [age |-> 0, retry |-> call[c].attempt > 0]
        /\ gateAge' = gateAge /\ Goto(c, "answer") /\ call' = call
    BY <1>5 DEF Request
  <2>2. "answer" \in Steps
    BY DEF Steps, Paying
  <2>3. pc'[c] = "answer"
    BY <2>1, <2>2, GotoMoves
  <2>4. lastCall'.age = 0 /\ lastCall'.retry = (call[c].attempt > 0)
    BY <2>1
  <2>5. call[c].attempt \in 0..Len(Backoff)
    BY <1>2, <2>1 DEF Call
  <2>6. CASE First(c)
    <3>1. gateAge = 0 /\ \A d \in Callers : First(d) => d = c \/ Interval = 0
      BY <2>6 DEF SpacedInv
    <3>2. \A d \in Callers : First(d)' => d # c /\ First(d)
      BY <1>2, <2>3 DEF First, Others
    <3>3. QED BY <1>1, <1>2, <2>1, <2>3, <2>4, <3>1, <3>2 DEF SpacedInv, Others
  <2>7. CASE ~First(c)
    <3>1. lastCall'.retry
      <4>1. call[c].attempt # 0
        BY <2>1, <2>7 DEF First
      <4>2. call[c].attempt > 0
        BY <2>5, <4>1, Waits
      <4>3. QED BY <2>4, <4>2
    <3>2. \A d \in Callers : First(d)' => First(d)
      BY <1>2, <2>3 DEF First, Others
    <3>3. QED BY <1>1, <1>2, <2>1, <2>3, <3>1, <3>2 DEF SpacedInv, Others
  <2>8. QED BY <2>6, <2>7
<1>6. CASE Retry(c)
  <2>1. pc[c] = "backoff" /\ pc'[c] = "request" /\ call'[c] = call[c]
    <3>1. "request" \in Steps
      BY DEF Steps, Paying
    <3>2. QED BY <1>6, <3>1, GotoMoves DEF Retry
  <2>2. call'[c].attempt # 0
    BY <2>1 DEF SpacedInv
  <2>3. \A d \in Callers : First(d)' => First(d)
    BY <1>2, <2>2 DEF First, Others
  <2>4. QED BY <1>2, <1>6, <2>1, <2>3 DEF SpacedInv, Others, Retry
<1>7. CASE ~(Gate(c) \/ Wake(c) \/ Request(c) \/ Retry(c))
  <2>1. gateAge' = gateAge /\ lastCall' = lastCall
    BY <1>7 DEF Move, CallStep, Ask, Lookup, Match, Note, Fetch, Answer, Save, RateLimited, Fail
  <2>2. PICK s \in {"idle", "lookup", "match", "note", "fetch", "gate", "save"} :
          pc' = [pc EXCEPT ![c] = s]
    <3>1. CASE Ask(c)
      <4>1. PICK kind \in {"query", "embed", "rerank"} :
              pc' = [pc EXCEPT ![c] = IF kind = "query" THEN "lookup" ELSE "fetch"]
        BY <3>1 DEF Ask, Become, Goto
      <4>2. QED BY <4>1
    <3>2. CASE ~Ask(c)
      BY <1>7, <3>2 DEF Move, CallStep, Lookup, Match, Note, Fetch, Answer, Save, RateLimited,
                        Fail, Leave, Become, Goto
    <3>3. QED BY <3>1, <3>2
  <2>3. pc'[c] \notin {"pace", "request", "backoff"}
    BY <2>2 DEF TypeOK
  <2>4. QED BY <1>2, <2>1, <2>3, CalmSpaced
<1>8. QED BY <1>3, <1>4, <1>5, <1>6, <1>7

\* As the gate's memory grows to the interval, a sleep in it runs down.
LEMMA SleepRunsDown ==
  ASSUME Interval \in Nat, NEW g \in 0..Interval, NEW l \in Nat, g + l = Interval
  PROVE  Older(g) + (IF l > 0 THEN l - 1 ELSE l) = Interval
  BY DEF Older

\* A tick keeps the spacing: no first attempt is about to be sent, the sleep in the gate
\* runs down as its memory grows, and both ages grow together.
LEMMA TickSpaced == TypeOK /\ SpacedInv /\ Tick => SpacedInv'
<1> SUFFICES ASSUME TypeOK, SpacedInv, Tick PROVE SpacedInv'
  OBVIOUS
<1> USE Times
<1>1. /\ gateAge \in 0..Interval /\ lastCall.age \in 0..Interval /\ lastCall.retry \in BOOLEAN
      /\ Interval \in Nat
  BY DEF TypeOK
<1>2. /\ pc' = pc /\ gateAge' = Older(gateAge)
      /\ lastCall'.age = Older(lastCall.age) /\ lastCall'.retry = lastCall.retry
  BY DEF Tick, TypeOK
<1>3. \A c \in Callers : ~First(c)'
  BY DEF Tick, First
<1>4. lastCall'.retry \/ lastCall'.age >= gateAge'
  BY <1>1, <1>2 DEF SpacedInv, Older
<1>5. ASSUME NEW c \in Callers, pc'[c] \in Sleeping
      PROVE  /\ pc'[c] = "pace" => gateAge' + call'[c].left = Interval
             /\ pc'[c] = "backoff" => call'[c].attempt # 0
  <2>1. call[c] \in Call /\ pc[c] \in Sleeping
    BY <1>2, <1>5, BusyCall DEF Sleeping
  <2>2. call'[c] = IF call[c].left > 0 THEN [call[c] EXCEPT !.left = @ - 1] ELSE call[c]
    BY <2>1 DEF Tick
  <2>3. /\ call'[c].attempt = call[c].attempt /\ call[c].left \in Nat
        /\ call'[c].left = IF call[c].left > 0 THEN call[c].left - 1 ELSE call[c].left
    BY <2>1, <2>2 DEF Call
  <2>4. pc[c] = "pace" => gateAge + call[c].left = Interval
    BY DEF SpacedInv
  <2>5. pc[c] = "pace" => gateAge' + call'[c].left = Interval
    BY <1>1, <1>2, <2>3, <2>4, SleepRunsDown
  <2>6. QED BY <1>2, <2>3, <2>5 DEF SpacedInv
<1>6. QED BY <1>3, <1>4, <1>5 DEF SpacedInv, Sleeping

\* The spacing holds before the first request.
LEMMA SpacedInit == Init => SpacedInv
  BY Times DEF Init, SpacedInv, First

\* Every step keeps the spacing.
LEMMA SpacedStep == TypeOK /\ SpacedInv /\ [Next]_vars => SpacedInv'
<1> SUFFICES ASSUME TypeOK, SpacedInv, [Next]_vars PROVE SpacedInv'
  OBVIOUS
<1>1. CASE Crash
  BY <1>1, Times DEF Crash, SpacedInv, First
<1>2. CASE UNCHANGED vars
  BY <1>2 DEF vars, SpacedInv, First
<1>3. QED BY <1>1, <1>2, NextMoves, MoveSpaced, TickSpaced

\* Two first attempts are an interval apart, for any number of threads and any interval
\* (voyage_gate): the sleep keeps the lock, and nobody sends later than a gate passed.
THEOREM RequestsSpacedHolds == Spec => RequestsSpaced
<1>1. TypeOK /\ SpacedInv /\ [Next]_vars =>
        [\A c \in Callers :
           pc[c] = "request" /\ pc'[c] = "answer" =>
             \/ lastCall.age = Interval
             \/ call[c].attempt > 0 \/ lastCall.retry]_vars
  <2> SUFFICES ASSUME TypeOK, SpacedInv, NEW c \in Callers,
                      pc[c] = "request", pc'[c] = "answer"
               PROVE  \/ lastCall.age = Interval
                      \/ call[c].attempt > 0 \/ lastCall.retry
    OBVIOUS
  <2>1. CASE First(c)
    BY <2>1 DEF SpacedInv
  <2>2. CASE ~First(c)
    <3>1. call[c].attempt \in 0..Len(Backoff) /\ call[c].attempt # 0
      BY <2>2, BusyCall DEF First, Call
    <3>2. QED BY <3>1, Waits
  <2>3. QED BY <2>1, <2>2
<1>2. QED
  BY <1>1, TypeInit, TypeStep, SpacedInit, SpacedStep, PTL DEF Spec, RequestsSpaced

=============================================================================
