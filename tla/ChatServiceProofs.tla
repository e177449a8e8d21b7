-------------------------- MODULE ChatServiceProofs --------------------------
(***************************************************************************)
(* Proofs about ChatService for any set of request threads, any supply of  *)
(* turn ids and any number of calls and faults.                            *)
(***************************************************************************)
EXTENDS ChatService, TLAPS

\* Steps at which a request works on a turn.
Working == {"run", "asking", "ended", "remember", "audit_ask",
            "audit_answer", "ask", "log", "commit", "reply"}

\* Turn ids in the checkpoint and in the requests come from the supply, and
\* a checkpoint without a turn is the one no request has written.
TurnsInUse ==
  /\ cp.next = "none" <=> cp.turn = NoTurn
  /\ cp.turn # NoTurn => cp.turn \in used
  /\ \A w \in Workers : pc[w] \in Working => loc[w].turn \in used
  /\ \A w \in Workers : pc[w] = "resume" => cp.next # "none"

-----------------------------------------------------------------------------
(* What the operators a step is built from do to pc, loc and cp.           *)

\* A worker that sets its locals keeps them in Locals and moves no other.
LEMMA HoldType ==
  ASSUME TypeOK, NEW w \in Workers, NEW r \in Locals, Hold(w, r)
  PROVE  /\ loc' \in [Workers -> Locals]
         /\ loc'[w] = r
         /\ \A v \in Workers : v # w => loc'[v] = loc[v]
  BY DEF Hold, TypeOK

\* A worker that moves on stays among the steps and moves no other.
LEMMA GotoType ==
  ASSUME TypeOK, NEW w \in Workers, NEW s \in Steps, Goto(w, s)
  PROVE  /\ pc' \in [Workers -> Steps]
         /\ pc'[w] = s
         /\ \A v \in Workers : v # w => pc'[v] = pc[v]
  BY DEF Goto, TypeOK

\* The locals of an idle worker are locals.
LEMMA NoLocalsType == NoLocals \in Locals
  BY DEF NoLocals, Locals, Answers

\* A request that is over leaves its worker idle and the others alone.
LEMMA LeaveType ==
  ASSUME TypeOK, NEW w \in Workers, Leave(w)
  PROVE  /\ pc' \in [Workers -> Steps] /\ loc' \in [Workers -> Locals]
         /\ pc'[w] = "idle" /\ loc'[w] = NoLocals
         /\ \A v \in Workers : v # w => pc'[v] = pc[v] /\ loc'[v] = loc[v]
  BY HoldType, GotoType, NoLocalsType DEF Leave, Steps, Idle

\* The checkpoint a running graph writes is one, of the worker's turn.
LEMMA SnapshotType ==
  ASSUME TypeOK, NEW w \in Workers, NEW n \in {"run", "pause", "end"},
         NEW a \in Answers
  PROVE  /\ Snapshot(w, n, a) \in Checkpoint
         /\ Snapshot(w, n, a).next = n
         /\ Snapshot(w, n, a).turn = loc[w].turn
  <1>1. loc[w] \in Locals
    BY DEF TypeOK
  <1>2. QED BY <1>1 DEF Snapshot, Checkpoint, Locals

\* update_state keeps the turn, and a fresh thread fresh.
LEMMA UpdatedType ==
  ASSUME TypeOK, NEW w \in Workers, NEW h \in Seq(Turns), NEW a \in Answers
  PROVE  /\ Updated(w, h, a) \in Checkpoint
         /\ Updated(w, h, a).turn = cp.turn
         /\ Updated(w, h, a).next = "none" <=> cp.next = "none"
  <1> DEFINE n == IF cp.next = "pause" THEN "run" ELSE cp.next
  <1>1. cp \in Checkpoint
    BY DEF TypeOK
  <1>2. n \in {"none", "run", "end"} /\ (n = "none" <=> cp.next = "none")
    BY <1>1 DEF Checkpoint
  <1> HIDE DEF n
  <1>3. /\ [cp EXCEPT !.hist = h, !.answer = a, !.by = w, !.next = n] \in Checkpoint
        /\ [cp EXCEPT !.hist = h, !.answer = a, !.by = w, !.next = n].turn = cp.turn
        /\ [cp EXCEPT !.hist = h, !.answer = a, !.by = w, !.next = n].next = n
    BY <1>1, <1>2 DEF Checkpoint
  <1>4. QED BY <1>2, <1>3 DEF Updated, n

\* The types of the checkpoint's fields and of a worker's locals.
LEMMA FieldTypes ==
  ASSUME TypeOK, NEW w \in Workers
  PROVE  /\ cp.turn \in Turns \cup {NoTurn} /\ cp.answer \in Answers
         /\ cp.hist \in Seq(Turns) /\ cp.next \in {"none", "run", "pause", "end"}
         /\ loc[w] \in Locals
         /\ loc[w].turn \in Turns \cup {NoTurn} /\ loc[w].answer \in Answers
         /\ loc[w].hist \in Seq(Turns) /\ loc[w].prev \in Seq(Turns)
         /\ loc[w].kind \in {"question", "clarification_reply"}
  <1>1. cp \in Checkpoint /\ loc[w] \in Locals
    BY DEF TypeOK
  <1>2. QED BY <1>1 DEF Checkpoint, Locals

\* Appending an exchange of two keeps a sequence in its set.
LEMMA PairType ==
  ASSUME NEW S, NEW s \in Seq(S), NEW a \in S, NEW b \in S
  PROVE  s \o <<a, b>> \in Seq(S)
  <1>1. <<a, b>> \in Seq(S)
    OBVIOUS
  <1>2. QED BY <1>1

\* A fresh process over a fresh thread is well typed.
LEMMA TypeInit == Init => TypeOK /\ TurnsInUse
  <1> SUFFICES ASSUME Init PROVE TypeOK /\ TurnsInUse
    OBVIOUS
  <1>1. cp = NoCheckpoint /\ transcript = <<>>
    BY Zenon DEF Init
  <1>2. /\ cp \in Checkpoint /\ cp.next = "none" /\ cp.turn = NoTurn
        /\ transcript \in Seq(MessageOf)
    <2>1. NoCheckpoint \in Checkpoint
      BY DEF NoCheckpoint, Checkpoint, Answers
    <2>2. NoCheckpoint.next = "none" /\ NoCheckpoint.turn = NoTurn
      BY DEF NoCheckpoint
    <2>3. <<>> \in Seq(MessageOf)
      OBVIOUS
    <2>4. QED BY Zenon, <1>1, <2>1, <2>2, <2>3
  <1>3. /\ pc \in [Workers -> Steps] /\ loc \in [Workers -> Locals]
        /\ \A w \in Workers : pc[w] = "idle"
    BY NoLocalsType DEF Init, Steps, Idle
  <1>4. /\ committed \in [Turns -> {"absent", "blank", "draft"}]
        /\ rows \in [Turns -> 0..MaxRows]
    BY Bounds DEF Init
  <1>5. /\ awaiting = FALSE /\ audits = 0 /\ calls = 0 /\ faults = 0
        /\ used = {} /\ ended = {} /\ screened = {} /\ replied = {} /\ told = {}
    BY Zenon DEF Init
  <1>6. TypeOK
    <2>1. audits \in Nat /\ calls \in 0..MaxCalls /\ faults \in 0..MaxFaults
      BY <1>5, Bounds
    <2>2. /\ used \subseteq Turns /\ ended \subseteq used
          /\ screened \subseteq used /\ replied \subseteq used
          /\ told \subseteq used \X Answers
      BY <1>5
    <2>3. QED BY Zenon, <1>2, <1>3, <1>4, <1>5, <2>1, <2>2 DEF TypeOK
  <1>7. TurnsInUse
    BY <1>2, <1>3 DEF TurnsInUse, Working
  <1>8. QED BY <1>6, <1>7

-----------------------------------------------------------------------------
(* Type correctness: one lemma per kind of step.                           *)

\* Steps that only move a request along: nothing stored changes.
LEMMA TypeLocalStep ==
  ASSUME TypeOK, TurnsInUse, NEW w \in Workers, NEW r \in Locals,
         NEW s \in Steps, Hold(w, r), Goto(w, s),
         s \in Working => r.turn \in used,
         s = "resume" => cp.next # "none",
         UNCHANGED <<stored, ghosts>>,
         calls' \in 0..MaxCalls, faults' \in 0..MaxFaults
  PROVE  TypeOK' /\ TurnsInUse'
<1>1. /\ loc' \in [Workers -> Locals] /\ loc'[w] = r
      /\ \A v \in Workers : v # w => loc'[v] = loc[v]
  BY HoldType
<1>2. /\ pc' \in [Workers -> Steps] /\ pc'[w] = s
      /\ \A v \in Workers : v # w => pc'[v] = pc[v]
  BY GotoType
<1>3. TypeOK'
  BY <1>1, <1>2 DEF TypeOK, stored, ghosts
<1>4. TurnsInUse'
  BY <1>1, <1>2 DEF TurnsInUse, stored, ghosts
<1>5. QED BY <1>3, <1>4

\* A worker whose locals do not change holds what it held.
LEMMA HoldSame ==
  ASSUME TypeOK, NEW w \in Workers, UNCHANGED loc
  PROVE  Hold(w, loc[w])
  BY DEF Hold, TypeOK

\* The steps that store nothing keep the types.
LEMMA TypeQuietSteps ==
  ASSUME TypeOK, TurnsInUse, NEW w \in Workers,
         \/ Chat(w) \/ ScreenInput(w) \/ Dispatch(w) \/ Resume(w)
         \/ GuardStop(w) \/ CheckQuestion(w) \/ FailFinalCheck(w) \/ Probe(w)
         \/ Recover(w) \/ HandlerFails(w)
  PROVE  TypeOK' /\ TurnsInUse'
<1> USE FieldTypes, TypeLocalStep DEF Steps
<1>0. calls \in 0..MaxCalls /\ faults \in 0..MaxFaults
  BY DEF TypeOK
<1>1. CASE Chat(w)
  <2>1. PICK k \in {"question", "clarification_reply"} :
          Hold(w, [NoLocals EXCEPT !.kind = k])
    BY <1>1 DEF Chat
  <2>2. [NoLocals EXCEPT !.kind = k] \in Locals
    BY NoLocalsType DEF Locals
  <2>3. calls' \in 0..MaxCalls /\ faults' \in 0..MaxFaults
    BY <1>0, <1>1, Bounds DEF Chat
  <2>4. QED BY <1>1, <2>1, <2>2, <2>3 DEF Chat, Working
<1>2. CASE ScreenInput(w)
  <2>1. CASE Goto(w, "probe") /\ UNCHANGED loc
    BY <1>0, <1>2, <2>1, HoldSame DEF ScreenInput, Working
  <2>2. CASE Goto(w, "dispatch") /\ Hold(w, [loc[w] EXCEPT !.prev = cp.hist])
    <3>1. [loc[w] EXCEPT !.prev = cp.hist] \in Locals
      BY DEF Locals
    <3>2. QED BY <1>0, <1>2, <2>2, <3>1 DEF ScreenInput, Working
  <2>3. QED BY <1>2, <2>1, <2>2 DEF ScreenInput
<1>3. CASE Dispatch(w)
  <2>1. CASE cp.next = "pause" /\ UNCHANGED loc
    BY <1>0, <1>3, <2>1, HoldSame DEF Dispatch, Working
  <2>2. CASE Goto(w, "start") /\ Hold(w, [loc[w] EXCEPT !.hist = cp.hist])
    <3>1. [loc[w] EXCEPT !.hist = cp.hist] \in Locals
      BY DEF Locals
    <3>2. QED BY <1>0, <1>3, <2>2, <3>1 DEF Dispatch, Working
  <2>3. QED BY <1>3, <2>1, <2>2 DEF Dispatch
<1>4. CASE Resume(w)
  <2> DEFINE r == [loc[w] EXCEPT !.turn = cp.turn, !.answer = cp.answer,
                                 !.hist = cp.hist]
  <2>1. r \in Locals /\ r.turn = cp.turn
    BY DEF Locals
  <2>2. cp.turn \in used
    BY <1>4 DEF Resume, TurnsInUse
  <2>3. QED BY <1>0, <1>4, <2>1, <2>2 DEF Resume, Working
<1>5. CASE GuardStop(w)
  BY <1>0, <1>5, HoldSame DEF GuardStop, Working
<1>6. CASE CheckQuestion(w)
  <2>1. loc[w].turn \in used
    BY <1>6 DEF CheckQuestion, TurnsInUse, Working
  <2>2. QED BY <1>0, <1>6, <2>1, HoldSame DEF CheckQuestion
<1>7. CASE FailFinalCheck(w)
  BY <1>0, <1>7, HoldSame DEF FailFinalCheck, Working
<1>8. CASE Probe(w)
  <2>1. [loc[w] EXCEPT !.wait = (cp.next = "pause")] \in Locals
    BY DEF Locals
  <2>2. QED BY <1>0, <1>8, <2>1 DEF Probe, Working
<1>9. CASE Recover(w)
  <2> DEFINE r == [NoLocals EXCEPT !.op = "recover", !.turn = cp.turn,
                                   !.answer = cp.answer]
  <2>1. r \in Locals /\ r.turn = cp.turn
    BY NoLocalsType DEF Locals
  <2>2. cp.turn \in used
    BY <1>9 DEF Recover, Recoverable, TurnsInUse
  <2>3. QED BY <1>0, <1>9, <2>1, <2>2 DEF Recover
<1>10. CASE HandlerFails(w)
  <2>1. calls' \in 0..MaxCalls /\ faults' \in 0..MaxFaults
    BY <1>0, <1>10, Bounds DEF HandlerFails
  <2>2. QED BY <1>10, <2>1, NoLocalsType DEF HandlerFails, Leave, Idle, Working
<1>11. QED
  BY <1>1, <1>2, <1>3, <1>4, <1>5, <1>6, <1>7, <1>8, <1>9, <1>10

\* Steps that write a checkpoint of a turn in use.
LEMMA TypeCheckpointSteps ==
  ASSUME TypeOK, TurnsInUse, NEW w \in Workers,
         \/ Start(w) \/ Node(w) \/ Pause(w) \/ End(w) \/ Remember(w)
         \/ Reset(w)
  PROVE  TypeOK' /\ TurnsInUse'
<1> USE FieldTypes DEF Steps
<1>1. CASE Start(w)
  <2>1. PICK t \in Turns \ used :
          /\ used' = used \cup {t}
          /\ Hold(w, [loc[w] EXCEPT !.turn = t, !.answer = ""])
          /\ cp' = [turn |-> t, next |-> "run", answer |-> "",
                    hist |-> loc[w].hist, by |-> w]
    BY <1>1 DEF Start
  <2>2. /\ [loc[w] EXCEPT !.turn = t, !.answer = ""] \in Locals
        /\ [loc[w] EXCEPT !.turn = t, !.answer = ""].turn = t
    BY DEF Locals, Answers
  <2>3. /\ loc' \in [Workers -> Locals] /\ loc'[w].turn = t
        /\ \A v \in Workers : v # w => loc'[v] = loc[v]
    BY <2>1, <2>2, HoldType
  <2>4. /\ pc' \in [Workers -> Steps] /\ pc'[w] = "run"
        /\ \A v \in Workers : v # w => pc'[v] = pc[v]
    BY <1>1, GotoType DEF Start
  <2>5. cp' \in Checkpoint /\ cp'.turn = t /\ cp'.next = "run" /\ t # NoTurn
    BY <2>1, NoTurnIsNoTurn DEF Checkpoint, Answers
  <2>6. TypeOK'
    BY <1>1, <2>1, <2>3, <2>4, <2>5 DEF TypeOK, Start
  <2>7. TurnsInUse'
    BY <2>1, <2>3, <2>4, <2>5 DEF TurnsInUse
  <2>8. QED BY <2>6, <2>7
<1>2. CASE Node(w)
  <2>1. PICK a \in Answers : /\ Hold(w, [loc[w] EXCEPT !.answer = a])
                             /\ cp' = Snapshot(w, "run", a)
    BY <1>2 DEF Node
  <2>2. /\ [loc[w] EXCEPT !.answer = a] \in Locals
        /\ [loc[w] EXCEPT !.answer = a].turn = loc[w].turn
    BY DEF Locals
  <2>3. /\ loc' \in [Workers -> Locals] /\ loc'[w].turn = loc[w].turn
        /\ \A v \in Workers : v # w => loc'[v] = loc[v]
    BY <2>1, <2>2, HoldType
  <2>4. /\ cp' \in Checkpoint /\ cp'.next = "run" /\ cp'.turn = loc[w].turn
    BY <2>1, SnapshotType
  <2>5. loc[w].turn \in used /\ loc[w].turn # NoTurn
    BY <1>2, NoTurnIsNoTurn DEF Node, TurnsInUse, Working, TypeOK
  <2>6. TypeOK'
    BY <1>2, <2>3, <2>4 DEF TypeOK, Node, ghosts
  <2>7. TurnsInUse'
    BY <1>2, <2>3, <2>4, <2>5 DEF TurnsInUse, Node, ghosts
  <2>8. QED BY <2>6, <2>7
<1>3. CASE Pause(w)
  <2>1. loc[w].turn \in used /\ loc[w].turn # NoTurn
    BY <1>3, NoTurnIsNoTurn DEF Pause, TurnsInUse, Working, TypeOK
  <2>2. /\ pc' \in [Workers -> Steps] /\ pc'[w] = "asking"
        /\ \A v \in Workers : v # w => pc'[v] = pc[v]
    BY <1>3, GotoType DEF Pause
  <2>3. \/ cp' = cp
        \/ cp' \in Checkpoint /\ cp'.next = "pause" /\ cp'.turn = loc[w].turn
    BY <1>3, SnapshotType DEF Pause
  <2>4. TypeOK'
    BY <1>3, <2>2, <2>3 DEF TypeOK, Pause, ghosts
  <2>5. TurnsInUse'
    BY <1>3, <2>1, <2>2, <2>3 DEF TurnsInUse, Pause, ghosts
  <2>6. QED BY <2>4, <2>5
<1>4. CASE End(w)
  <2>1. loc[w].turn \in used /\ loc[w].turn # NoTurn
    BY <1>4, NoTurnIsNoTurn DEF End, TurnsInUse, Working, TypeOK
  <2>2. /\ pc' \in [Workers -> Steps] /\ pc'[w] = "ended"
        /\ \A v \in Workers : v # w => pc'[v] = pc[v]
    BY <1>4, GotoType DEF End
  <2>3. cp' \in Checkpoint /\ cp'.next = "end" /\ cp'.turn = loc[w].turn
    BY <1>4, SnapshotType DEF End
  <2>4. TypeOK'
    BY <1>4, <2>1, <2>2, <2>3 DEF TypeOK, End
  <2>5. TurnsInUse'
    BY <1>4, <2>1, <2>2, <2>3 DEF TurnsInUse, End
  <2>6. QED BY <2>4, <2>5
<1>5. CASE Remember(w)
  <2>1. loc[w].turn \in Turns /\ loc[w].turn \in used
    BY <1>5 DEF Remember, TurnsInUse, Working, TypeOK
  <2>2. Append(loc[w].hist, loc[w].turn) \in Seq(Turns)
    BY <2>1
  <2>3. /\ cp' \in Checkpoint /\ cp'.turn = cp.turn
        /\ cp'.next = "none" <=> cp.next = "none"
    BY <1>5, <2>2, UpdatedType DEF Remember
  <2>4. /\ pc' \in [Workers -> Steps] /\ pc'[w] = "audit_answer"
        /\ \A v \in Workers : v # w => pc'[v] = pc[v]
    BY <1>5, GotoType DEF Remember
  <2>5. TypeOK'
    BY <1>5, <2>3, <2>4 DEF TypeOK, Remember, ghosts
  <2>6. TurnsInUse'
    BY <1>5, <2>1, <2>3, <2>4 DEF TurnsInUse, Remember, ghosts
  <2>7. QED BY <2>5, <2>6
<1>6. CASE Reset(w)
  <2>1. /\ cp' \in Checkpoint /\ cp'.turn = cp.turn
        /\ cp'.next = "none" <=> cp.next = "none"
    BY <1>6, UpdatedType DEF Reset, Answers
  <2>2. /\ pc' \in [Workers -> Steps] /\ pc'[w] = "probe"
        /\ \A v \in Workers : v # w => pc'[v] = pc[v]
    BY <1>6, GotoType DEF Reset
  <2>3. TypeOK'
    BY <1>6, <2>1, <2>2 DEF TypeOK, Reset, ghosts
  <2>4. TurnsInUse'
    BY <1>6, <2>1, <2>2 DEF TurnsInUse, Reset, ghosts, Working
  <2>5. QED BY <2>3, <2>4
<1>7. QED BY <1>1, <1>2, <1>3, <1>4, <1>5, <1>6

\* A request that commits works on a turn, so the guard on the turn id holds.
LEMMA CommitStores ==
  ASSUME TypeOK, TurnsInUse, NEW w \in Workers, CommitTurn(w)
  PROVE  /\ pc[w] = "commit" /\ loc[w].turn \in used /\ loc[w].turn \in Turns
         /\ StoreTurn(loc[w].turn, loc[w].kind, loc[w].answer)
<1>1. pc[w] = "commit"
  BY DEF CommitTurn
<1>2. loc[w].turn \in used /\ used \subseteq Turns
  BY <1>1 DEF TurnsInUse, Working, TypeOK
<1>3. loc[w].turn # NoTurn
  BY <1>2, NoTurnIsNoTurn
<1>4. QED BY <1>1, <1>2, <1>3 DEF CommitTurn

\* The row of a turn keeps its answer, the empty one as a blank.
LEMMA RowOfType ==
  ASSUME NEW a \in Answers
  PROVE  RowOf(a) \in {"blank", "draft"}
  BY DEF RowOf, Answers

\* Steps that write the transcript, the result table or the logs, or reply.
LEMMA TypeStoreSteps ==
  ASSUME TypeOK, TurnsInUse, NEW w \in Workers,
         \/ PassFinalCheck(w) \/ Audit(w) \/ AppendAsk(w) \/ AppendBlock(w)
         \/ LogTurn(w) \/ CommitTurn(w) \/ Reply(w)
  PROVE  TypeOK' /\ TurnsInUse'
<1> USE FieldTypes DEF Steps
<1>1. CASE PassFinalCheck(w)
  <2>1. loc[w].turn \in used
    BY <1>1 DEF PassFinalCheck, TurnsInUse, Working
  <2>2. /\ pc' \in [Workers -> Steps] /\ pc'[w] = "remember"
        /\ \A v \in Workers : v # w => pc'[v] = pc[v]
    BY <1>1, GotoType DEF PassFinalCheck
  <2>3. TypeOK'
    BY <1>1, <2>1, <2>2 DEF TypeOK, PassFinalCheck, stored
  <2>4. TurnsInUse'
    BY <1>1, <2>1, <2>2 DEF TurnsInUse, PassFinalCheck, stored
  <2>5. QED BY <2>3, <2>4
<1>2. CASE Audit(w)
  <2>1. PICK s \in {"ask", "block", "log"} :
          Goto(w, s) /\ (s \in Working => pc[w] \in Working)
    BY <1>2 DEF Audit, Working
  <2>2. /\ pc' \in [Workers -> Steps] /\ pc'[w] = s
        /\ \A v \in Workers : v # w => pc'[v] = pc[v]
    BY <2>1, GotoType
  <2>3. TypeOK'
    BY <1>2, <2>2 DEF TypeOK, Audit, ghosts
  <2>4. TurnsInUse'
    BY <1>2, <2>1, <2>2 DEF TurnsInUse, Audit, ghosts
  <2>5. QED BY <2>3, <2>4
<1>3. CASE AppendAsk(w)
  <2>1. /\ Message("user", loc[w].kind, loc[w].turn) \in MessageOf
        /\ Message("assistant", "clarification_prompt", loc[w].turn) \in MessageOf
    BY DEF Message, MessageOf
  <2>2. transcript' \in Seq(MessageOf)
    BY <1>3, <2>1 DEF AppendAsk, Exchange, TypeOK
  <2>3. TypeOK'
    BY <1>3, <2>2, LeaveType DEF TypeOK, AppendAsk, Exchange, ghosts
  <2>4. TurnsInUse'
    BY <1>3, LeaveType DEF TurnsInUse, AppendAsk, Exchange, ghosts, Working
  <2>5. QED BY <2>3, <2>4
<1>4. CASE AppendBlock(w)
  <2>1. Message("assistant", "blocked", NoTurn) \in MessageOf
    BY DEF Message, MessageOf
  <2>2. transcript' \in Seq(MessageOf) /\ awaiting' \in BOOLEAN
    BY <1>4, <2>1 DEF AppendBlock, Exchange, TypeOK, Locals
  <2>3. TypeOK'
    BY <1>4, <2>2, LeaveType DEF TypeOK, AppendBlock, Exchange, ghosts
  <2>4. TurnsInUse'
    BY <1>4, LeaveType DEF TurnsInUse, AppendBlock, Exchange, ghosts, Working
  <2>5. QED BY <2>3, <2>4
<1>5. CASE LogTurn(w)
  <2>1. /\ pc' \in [Workers -> Steps] /\ pc'[w] = "commit"
        /\ \A v \in Workers : v # w => pc'[v] = pc[v]
    BY <1>5, GotoType DEF LogTurn
  <2> DEFINE t == loc[w].turn
             n == IF rows[t] < MaxRows THEN rows[t] + 1 ELSE rows[t]
  <2>t. t \in Turns /\ rows \in [Turns -> 0..MaxRows]
    BY <1>5 DEF LogTurn, TurnsInUse, Working, TypeOK
  <2>n. n \in 0..MaxRows
    BY <2>t, Bounds
  <2>2. rows' \in [Turns -> 0..MaxRows]
    BY <1>5, <2>t, <2>n DEF LogTurn
  <2>3. TypeOK'
    BY <1>5, <2>1, <2>2 DEF TypeOK, LogTurn, ghosts
  <2>4. TurnsInUse'
    BY <1>5, <2>1 DEF TurnsInUse, LogTurn, ghosts, Working
  <2>5. QED BY <2>3, <2>4
<1>6. CASE CommitTurn(w)
  <2> DEFINE t == loc[w].turn
  <2>1. /\ t \in used /\ StoreTurn(t, loc[w].kind, loc[w].answer)
        /\ pc[w] \in Working
    BY <1>6, CommitStores DEF Working
  <2>2. /\ Message("user", loc[w].kind, t) \in MessageOf
        /\ Message("assistant", "answer", t) \in MessageOf
    BY DEF Message, MessageOf
  <2>3. /\ transcript' \in Seq(MessageOf) /\ awaiting' \in BOOLEAN
        /\ committed' \in [Turns -> {"absent", "blank", "draft"}]
    <3>1. CASE committed[t] = "absent"
      <4>1. /\ transcript' = transcript \o <<Message("user", loc[w].kind, t),
                                             Message("assistant", "answer", t)>>
            /\ awaiting' = FALSE
            /\ committed' = [committed EXCEPT ![t] = RowOf(loc[w].answer)]
        BY <2>1, <3>1 DEF StoreTurn
      <4>2. transcript' \in Seq(MessageOf)
        BY <2>2, <4>1, PairType DEF TypeOK
      <4>3. committed' \in [Turns -> {"absent", "blank", "draft"}]
        BY <4>1, RowOfType DEF TypeOK
      <4>4. QED BY <4>1, <4>2, <4>3
    <3>2. CASE committed[t] # "absent"
      BY <2>1, <3>2 DEF StoreTurn, TypeOK
    <3>3. QED BY <3>1, <3>2
  <2>4. /\ pc' \in [Workers -> Steps] /\ pc'[w] = "reply"
        /\ \A v \in Workers : v # w => pc'[v] = pc[v]
    BY <1>6, GotoType DEF CommitTurn
  <2>5. TypeOK'
    BY <1>6, <2>3, <2>4 DEF TypeOK, CommitTurn, ghosts
  <2>6. TurnsInUse'
    BY <1>6, <2>1, <2>4 DEF TurnsInUse, CommitTurn, ghosts
  <2>7. QED BY <2>5, <2>6
<1>7. CASE Reply(w)
  <2>1. loc[w].turn \in used
    BY <1>7 DEF Reply, TurnsInUse, Working
  <2>2. replied' \subseteq used /\ told' \subseteq used \X Answers
    BY <1>7, <2>1 DEF Reply, TypeOK
  <2>3. TypeOK'
    BY <1>7, <2>2, LeaveType DEF TypeOK, Reply, stored
  <2>4. TurnsInUse'
    BY <1>7, LeaveType DEF TurnsInUse, Reply, stored, Working
  <2>5. QED BY <2>3, <2>4
<1>8. QED BY <1>1, <1>2, <1>3, <1>4, <1>5, <1>6, <1>7

\* A crash leaves every worker idle and what was stored alone.
LEMMA TypeCrash ==
  ASSUME TypeOK, TurnsInUse, Crash
  PROVE  TypeOK' /\ TurnsInUse'
<1>1. faults' \in 0..MaxFaults
  BY Bounds DEF Crash, TypeOK
<1>2. TypeOK'
  BY <1>1, NoLocalsType DEF TypeOK, Crash, stored, ghosts, Steps, Idle
<1>3. TurnsInUse'
  BY DEF TurnsInUse, Crash, stored, ghosts, Idle, Working
<1>4. QED BY <1>2, <1>3

\* Every step keeps the types and the turn ids in use.
LEMMA TypeStep == TypeOK /\ TurnsInUse /\ [Next]_vars => TypeOK' /\ TurnsInUse'
<1> SUFFICES ASSUME TypeOK, TurnsInUse, [Next]_vars
             PROVE  TypeOK' /\ TurnsInUse'
  OBVIOUS
<1>1. CASE Next
  BY <1>1, TypeQuietSteps, TypeCheckpointSteps, TypeStoreSteps, TypeCrash
  DEF Next, ChatStep
<1>2. CASE UNCHANGED vars
  BY <1>2 DEF vars, stored, ghosts, TypeOK, TurnsInUse
<1>3. QED BY <1>1, <1>2

\* Every variable only ever holds what the code can store in it.
THEOREM TypeCorrect == Spec => []TypeOK
<1>1. Spec => [](TypeOK /\ TurnsInUse)
  BY TypeInit, TypeStep, PTL DEF Spec
<1>2. QED BY <1>1, PTL

-----------------------------------------------------------------------------
(* Exactly once.                                                           *)

\* Appending messages none of which is an answer disturbs nothing.
LEMMA OnceAppend ==
  ASSUME TypeOK, ExactlyOnce, NEW ms \in Seq(MessageOf),
         transcript' = transcript \o ms,
         \A k \in 1..Len(ms) : ms[k].kind # "answer",
         UNCHANGED committed
  PROVE  ExactlyOnce'
<1>1. /\ transcript \in Seq(MessageOf)
      /\ Len(transcript') = Len(transcript) + Len(ms)
      /\ \A i \in 1..Len(transcript) : transcript'[i] = transcript[i]
      /\ \A i \in 1..Len(transcript') : i > Len(transcript) =>
           transcript'[i] = ms[i - Len(transcript)]
  BY DEF TypeOK
<1>2. Len(transcript) \in Nat /\ Len(ms) \in Nat
  BY <1>1
<1>3. \A i \in 1..Len(transcript') : transcript'[i].kind = "answer" =>
        i \in 1..Len(transcript) /\ transcript'[i] = transcript[i]
  BY <1>1, <1>2
<1>4. 1..Len(transcript) \subseteq 1..Len(transcript')
  BY <1>1, <1>2
<1>5. ASSUME NEW t \in Turns, NEW i \in 1..Len(transcript')
      PROVE  IsAnswer(i, t)' <=> i \in 1..Len(transcript) /\ IsAnswer(i, t)
  BY <1>1, <1>3 DEF IsAnswer
<1>6. ASSUME NEW t \in Turns
      PROVE  committed'[t] # "absent" <=> \E i \in 1..Len(transcript') : IsAnswer(i, t)'
  <2>1. committed'[t] # "absent" <=> \E i \in 1..Len(transcript) : IsAnswer(i, t)
    BY DEF ExactlyOnce
  <2>2. QED BY <1>4, <1>5, <2>1
<1>7. ASSUME NEW t \in Turns, NEW i \in 1..Len(transcript'), NEW j \in 1..Len(transcript'),
             IsAnswer(i, t)', IsAnswer(j, t)'
      PROVE  i = j
  <2>1. /\ i \in 1..Len(transcript) /\ IsAnswer(i, t)
        /\ j \in 1..Len(transcript) /\ IsAnswer(j, t)
    BY <1>5, <1>7
  <2>2. QED BY <2>1 DEF ExactlyOnce
<1>8. ASSUME NEW t \in Turns, NEW i \in 1..Len(transcript'), IsAnswer(i, t)'
      PROVE  i > 1 /\ transcript'[i - 1].role = "user" /\ transcript'[i - 1].turn = t
  <2>1. i \in 1..Len(transcript) /\ IsAnswer(i, t)
    BY <1>5, <1>8
  <2>2. i > 1 /\ transcript[i - 1].role = "user" /\ transcript[i - 1].turn = t
    BY <2>1 DEF ExactlyOnce
  <2>3. i - 1 \in 1..Len(transcript)
    BY <1>2, <2>1, <2>2
  <2>4. QED BY <1>1, <2>2, <2>3
<1>9. QED BY <1>6, <1>7, <1>8 DEF ExactlyOnce

\* The first commit of a turn appends its only answer, behind its question.
LEMMA OnceCommit ==
  ASSUME TypeOK, ExactlyOnce, NEW u \in Turns, NEW a \in {"blank", "draft"},
         NEW q \in MessageOf, NEW r \in MessageOf,
         q.role = "user", q.turn = u, q.kind # "answer",
         r.kind = "answer", r.turn = u,
         committed[u] = "absent",
         committed' = [committed EXCEPT ![u] = a],
         transcript' = transcript \o <<q, r>>
  PROVE  ExactlyOnce'
<1> DEFINE n == Len(transcript)
<1>1. n \in Nat /\ transcript \in Seq(MessageOf)
  BY DEF TypeOK
<1>2. Len(transcript') = n + 2
  BY <1>1
<1>3. \A i \in 1..n : transcript'[i] = transcript[i]
  BY <1>1
<1>4. transcript'[n + 1] = q /\ transcript'[n + 2] = r
  BY <1>1
<1> HIDE DEF n
<1>5. 1..Len(transcript') = 1..n \cup {n + 1, n + 2}
  BY <1>1, <1>2
<1>6. \A i \in 1..n : ~ IsAnswer(i, u)
  BY DEF ExactlyOnce, n
<1>7. \A t \in Turns : \A i \in 1..Len(transcript') :
        IsAnswer(i, t)' <=> \/ i \in 1..n /\ IsAnswer(i, t)
                            \/ i = n + 2 /\ t = u
  BY <1>1, <1>3, <1>4, <1>5 DEF IsAnswer
<1>8. \A t \in Turns : committed'[t] # "absent"
        <=> \E i \in 1..Len(transcript') : IsAnswer(i, t)'
  <2>1. \A t \in Turns : committed'[t] = IF t = u THEN a ELSE committed[t]
    BY DEF TypeOK
  <2>2. \A t \in Turns : committed[t] # "absent" <=> \E i \in 1..n : IsAnswer(i, t)
    BY DEF ExactlyOnce, n
  <2>3. n + 2 \in 1..Len(transcript') /\ 1..n \subseteq 1..Len(transcript')
    BY <1>1, <1>2
  <2>4. QED BY <1>7, <2>1, <2>2, <2>3
<1>9. \A t \in Turns : \A i, j \in 1..Len(transcript') :
        IsAnswer(i, t)' /\ IsAnswer(j, t)' => i = j
  <2> SUFFICES ASSUME NEW t \in Turns, NEW i \in 1..Len(transcript'),
                      NEW j \in 1..Len(transcript'),
                      IsAnswer(i, t)', IsAnswer(j, t)'
               PROVE  i = j
    OBVIOUS
  <2>1. \/ i \in 1..n /\ IsAnswer(i, t)
        \/ i = n + 2 /\ t = u
    BY <1>7
  <2>2. \/ j \in 1..n /\ IsAnswer(j, t)
        \/ j = n + 2 /\ t = u
    BY <1>7
  <2>3. i \in 1..n /\ j \in 1..n /\ IsAnswer(i, t) /\ IsAnswer(j, t) => i = j
    BY DEF ExactlyOnce, n
  <2>4. QED BY <1>6, <2>1, <2>2, <2>3
<1>10. \A t \in Turns : \A i \in 1..Len(transcript') :
         IsAnswer(i, t)' =>
           i > 1 /\ transcript'[i - 1].role = "user" /\ transcript'[i - 1].turn = t
  <2> SUFFICES ASSUME NEW t \in Turns, NEW i \in 1..Len(transcript'), IsAnswer(i, t)'
               PROVE  /\ i > 1 /\ transcript'[i - 1].role = "user"
                      /\ transcript'[i - 1].turn = t
    OBVIOUS
  <2>1. CASE i \in 1..n /\ IsAnswer(i, t)
    <3>1. i > 1 /\ transcript[i - 1].role = "user" /\ transcript[i - 1].turn = t
      BY <2>1 DEF ExactlyOnce, n
    <3>2. i - 1 \in 1..n
      BY <1>1, <2>1, <3>1
    <3>3. QED BY <1>3, <3>1, <3>2
  <2>2. CASE i = n + 2 /\ t = u
    <3>1. i - 1 = n + 1 /\ i > 1
      BY <1>1, <2>2
    <3>2. QED BY <1>4, <2>2, <3>1
  <2>3. QED BY <1>7, <2>1, <2>2
<1>11. QED BY <1>8, <1>9, <1>10 DEF ExactlyOnce

\* Every step keeps the transcript and the result table in agreement.
LEMMA OnceStep ==
  TypeOK /\ TurnsInUse /\ ExactlyOnce /\ [Next]_vars => ExactlyOnce'
<1> SUFFICES ASSUME TypeOK, TurnsInUse, ExactlyOnce, [Next]_vars
             PROVE  ExactlyOnce'
  OBVIOUS
<1>1. CASE UNCHANGED <<transcript, committed>>
  BY <1>1 DEF ExactlyOnce, IsAnswer
<1>2. ASSUME NEW w \in Workers, AppendAsk(w) PROVE ExactlyOnce'
  <2> DEFINE q == Message("user", loc[w].kind, loc[w].turn)
             p == Message("assistant", "clarification_prompt", loc[w].turn)
  <2>1. q \in MessageOf /\ p \in MessageOf /\ q.kind # "answer" /\ p.kind # "answer"
    BY FieldTypes DEF Message, MessageOf
  <2>2. transcript' = transcript \o <<q, p>> /\ UNCHANGED committed
    BY <1>2 DEF AppendAsk, Exchange
  <2> HIDE DEF q, p
  <2>3. /\ <<q, p>> \in Seq(MessageOf)
        /\ \A k \in 1..Len(<<q, p>>) : <<q, p>>[k].kind # "answer"
    BY <2>1
  <2>4. QED BY <2>2, <2>3, OnceAppend
<1>3. ASSUME NEW w \in Workers, AppendBlock(w) PROVE ExactlyOnce'
  <2> DEFINE b == Message("assistant", "blocked", NoTurn)
  <2>1. b \in MessageOf /\ b.kind # "answer"
    BY DEF Message, MessageOf
  <2>2. transcript' = transcript \o <<b>> /\ UNCHANGED committed
    BY <1>3 DEF AppendBlock, Exchange
  <2> HIDE DEF b
  <2>3. /\ <<b>> \in Seq(MessageOf)
        /\ \A k \in 1..Len(<<b>>) : <<b>>[k].kind # "answer"
    BY <2>1
  <2>4. QED BY <2>2, <2>3, OnceAppend
<1>4. ASSUME NEW w \in Workers, CommitTurn(w) PROVE ExactlyOnce'
  <2> DEFINE u == loc[w].turn
             a == RowOf(loc[w].answer)
             q == Message("user", loc[w].kind, u)
             r == Message("assistant", "answer", u)
  <2>0. u \in Turns /\ StoreTurn(u, loc[w].kind, loc[w].answer)
    BY <1>4, CommitStores
  <2>1. CASE committed[u] # "absent"
    BY <1>1, <2>0, <2>1 DEF StoreTurn
  <2>2. CASE committed[u] = "absent"
    <3>1. u \in Turns
      BY <2>0
    <3>2. a \in {"blank", "draft"}
      BY FieldTypes, RowOfType
    <3>3. /\ q \in MessageOf /\ q.role = "user" /\ q.turn = u /\ q.kind # "answer"
          /\ r \in MessageOf /\ r.kind = "answer" /\ r.turn = u
      BY FieldTypes DEF Message, MessageOf
    <3>4. /\ committed' = [committed EXCEPT ![u] = a]
          /\ transcript' = transcript \o <<q, r>>
      BY <2>0, <2>2 DEF StoreTurn
    <3> HIDE DEF u, a, q, r
    <3>5. committed[u] = "absent"
      BY <2>2 DEF u
    <3>6. QED BY <3>1, <3>2, <3>3, <3>4, <3>5, OnceCommit
  <2>3. QED BY <2>1, <2>2
<1>5. ASSUME NEW w \in Workers,
             \/ Chat(w) \/ ScreenInput(w) \/ Dispatch(w) \/ Resume(w)
             \/ GuardStop(w) \/ CheckQuestion(w) \/ FailFinalCheck(w)
             \/ Probe(w) \/ Recover(w) \/ HandlerFails(w) \/ PassFinalCheck(w)
             \/ Reply(w)
      PROVE  UNCHANGED <<transcript, committed>>
  BY <1>5 DEF stored, Chat, ScreenInput, Dispatch, Resume, GuardStop,
      CheckQuestion, FailFinalCheck, Probe, Recover, HandlerFails,
      PassFinalCheck, Reply
<1>6. ASSUME NEW w \in Workers,
             \/ Start(w) \/ Node(w) \/ Pause(w) \/ End(w) \/ Remember(w)
             \/ Reset(w) \/ Audit(w) \/ LogTurn(w)
      PROVE  UNCHANGED <<transcript, committed>>
  BY <1>6 DEF Start, Node, Pause, End, Remember, Reset, Audit, LogTurn
<1>7. CASE Crash \/ UNCHANGED vars
  BY <1>1, <1>7 DEF Crash, vars, stored
<1>8. QED
  BY <1>1, <1>2, <1>3, <1>4, <1>5, <1>6, <1>7 DEF Next, ChatStep

\* commit_turn's promise for any number of crashes, retries and concurrent
\* requests: a turn's answer is in the transcript exactly when its result row
\* exists, once, right behind the user message of the same exchange.
THEOREM ExactlyOnceHolds == Spec => []ExactlyOnce
<1>1. Init => ExactlyOnce
  <2> SUFFICES ASSUME Init PROVE ExactlyOnce
    OBVIOUS
  <2>1. Len(transcript) = 0
    <3>1. transcript = <<>>
      BY Zenon DEF Init
    <3>2. QED BY <3>1
  <2>2. \A t \in Turns : committed[t] = "absent"
    BY DEF Init
  <2>3. QED BY <2>1, <2>2 DEF ExactlyOnce
<1>2. Spec => [](TypeOK /\ TurnsInUse)
  BY TypeInit, TypeStep, PTL DEF Spec
<1>3. QED BY <1>1, <1>2, OnceStep, PTL DEF Spec

-----------------------------------------------------------------------------
(* What a commit and the conversation memory rest on.                      *)

\* A commit only ever adds: no result is changed or removed.
LEMMA CommittedGrows ==
  ASSUME TypeOK, TurnsInUse, [Next]_vars, NEW t \in Turns, committed[t] # "absent"
  PROVE  committed'[t] = committed[t]
<1>1. ASSUME NEW w \in Workers, CommitTurn(w) PROVE committed'[t] = committed[t]
  BY <1>1, CommitStores DEF StoreTurn, TypeOK
<1>2. ASSUME NEW w \in Workers,
             \/ Chat(w) \/ ScreenInput(w) \/ Dispatch(w) \/ Resume(w)
             \/ GuardStop(w) \/ CheckQuestion(w) \/ FailFinalCheck(w)
             \/ Probe(w) \/ Recover(w) \/ HandlerFails(w) \/ PassFinalCheck(w)
             \/ Reply(w)
      PROVE  UNCHANGED committed
  BY <1>2 DEF stored, Chat, ScreenInput, Dispatch, Resume, GuardStop,
      CheckQuestion, FailFinalCheck, Probe, Recover, HandlerFails,
      PassFinalCheck, Reply
<1>3. ASSUME NEW w \in Workers,
             \/ Start(w) \/ Node(w) \/ Pause(w) \/ End(w) \/ Remember(w)
             \/ Reset(w) \/ Audit(w) \/ LogTurn(w) \/ AppendAsk(w) \/ AppendBlock(w)
      PROVE  UNCHANGED committed
  BY <1>3 DEF Start, Node, Pause, End, Remember, Reset, Audit, LogTurn,
      AppendAsk, AppendBlock, Exchange
<1>4. CASE Crash \/ UNCHANGED vars
  BY <1>4 DEF Crash, vars, stored
<1>5. QED
  BY <1>1, <1>2, <1>3, <1>4 DEF Next, ChatStep

\* Steps at which a request holds a turn that has reached END.
PastEnd == {"ended", "remember", "audit_answer", "log", "commit"}

\* OnlyFinishedTurnsCommitted made inductive: what is about to be committed
\* has finished, in the requests and in a checkpoint that says END.
FinishedInv ==
  /\ OnlyFinishedTurnsCommitted
  /\ cp.next = "end" => cp.turn \in ended
  /\ \A w \in Workers : pc[w] \in PastEnd => loc[w].turn \in ended

\* MemoryWasScreened made inductive: what is about to be remembered has passed
\* final_check.
ScreenedInv ==
  /\ MemoryWasScreened
  /\ \A w \in Workers : pc[w] = "remember" => loc[w].turn \in screened

\* A step of one request: the others hold what they held, and what this one
\* holds, stores and writes to the checkpoint has finished and been screened.
LEMMA Flow ==
  ASSUME TypeOK, FinishedInv, ScreenedInv, NEW w \in Workers,
         NEW r \in Locals, NEW s \in Steps,
         loc'[w] = r, pc'[w] = s,
         \A v \in Workers : v # w => loc'[v] = loc[v] /\ pc'[v] = pc[v],
         ended \subseteq ended', screened \subseteq screened',
         \A t \in Turns : committed'[t] # "absent" => t \in ended',
         cp'.next = "end" => cp'.turn \in ended',
         \A i \in 1..Len(cp'.hist) : cp'.hist[i] \in screened',
         s \in PastEnd => r.turn \in ended',
         s = "remember" => r.turn \in screened',
         \A i \in 1..Len(r.hist) : r.hist[i] \in screened',
         \A i \in 1..Len(r.prev) : r.prev[i] \in screened'
  PROVE  FinishedInv' /\ ScreenedInv'
<1>1. FinishedInv'
  BY DEF FinishedInv, OnlyFinishedTurnsCommitted
<1>2. \A v \in Workers : /\ \A i \in 1..Len(loc'[v].hist) : loc'[v].hist[i] \in screened'
                         /\ \A i \in 1..Len(loc'[v].prev) : loc'[v].prev[i] \in screened'
  <2> TAKE v \in Workers
  <2>1. CASE v = w
    BY <2>1
  <2>2. CASE v # w
    BY <2>2 DEF ScreenedInv, MemoryWasScreened
  <2>3. QED BY <2>1, <2>2
<1>3. MemoryWasScreened'
  BY <1>2 DEF MemoryWasScreened
<1>4. \A v \in Workers : pc'[v] = "remember" => loc'[v].turn \in screened'
  BY DEF ScreenedInv
<1>5. QED BY <1>1, <1>3, <1>4 DEF ScreenedInv

\* What both invariants say of the state before a step, for a request w.
LEMMA FlowFacts ==
  ASSUME FinishedInv, ScreenedInv, NEW w \in Workers
  PROVE  /\ \A t \in Turns : committed[t] # "absent" => t \in ended
         /\ cp.next = "end" => cp.turn \in ended
         /\ \A i \in 1..Len(cp.hist) : cp.hist[i] \in screened
         /\ pc[w] \in PastEnd => loc[w].turn \in ended
         /\ pc[w] = "remember" => loc[w].turn \in screened
         /\ \A i \in 1..Len(loc[w].hist) : loc[w].hist[i] \in screened
         /\ \A i \in 1..Len(loc[w].prev) : loc[w].prev[i] \in screened
  BY DEF FinishedInv, OnlyFinishedTurnsCommitted, ScreenedInv, MemoryWasScreened

\* Steps that store nothing.
LEMMA FlowQuiet ==
  ASSUME TypeOK, FinishedInv, ScreenedInv, NEW w \in Workers,
         NEW r \in Locals, NEW s \in Steps, Hold(w, r), Goto(w, s),
         UNCHANGED <<cp, committed, ended>>, screened \subseteq screened',
         s \in PastEnd => r.turn \in ended,
         s = "remember" => r.turn \in screened',
         \A i \in 1..Len(r.hist) : r.hist[i] \in screened,
         \A i \in 1..Len(r.prev) : r.prev[i] \in screened
  PROVE  FinishedInv' /\ ScreenedInv'
<1>1. /\ loc'[w] = r /\ pc'[w] = s
      /\ \A v \in Workers : v # w => loc'[v] = loc[v] /\ pc'[v] = pc[v]
  BY HoldType, GotoType
<1>2. \A t \in Turns : committed'[t] # "absent" => t \in ended'
  BY FlowFacts
<1>3. /\ cp'.next = "end" => cp'.turn \in ended'
      /\ \A i \in 1..Len(cp'.hist) : cp'.hist[i] \in screened'
  BY FlowFacts
<1>4. /\ \A i \in 1..Len(r.hist) : r.hist[i] \in screened'
      /\ \A i \in 1..Len(r.prev) : r.prev[i] \in screened'
  OBVIOUS
<1>5. QED BY <1>1, <1>2, <1>3, <1>4, Flow

\* A request that is over holds no turn and no memory.
LEMMA NothingHeld ==
  /\ NoLocals \in Locals /\ "idle" \in Steps
  /\ "idle" \notin PastEnd /\ "idle" # "remember"
  /\ Len(NoLocals.hist) = 0 /\ Len(NoLocals.prev) = 0
  BY NoLocalsType DEF NoLocals, Steps, Idle, PastEnd

\* Steps of a request that store nothing.
LEMMA FlowLocalSteps ==
  ASSUME TypeOK, TurnsInUse, FinishedInv, ScreenedInv, NEW w \in Workers,
         \/ Chat(w) \/ ScreenInput(w) \/ Dispatch(w) \/ Resume(w)
         \/ GuardStop(w) \/ CheckQuestion(w) \/ PassFinalCheck(w)
         \/ FailFinalCheck(w) \/ Probe(w) \/ Recover(w)
  PROVE  FinishedInv' /\ ScreenedInv'
<1> USE FieldTypes, FlowFacts, FlowQuiet DEF Steps
<1>1. CASE Chat(w)
  <2>1. PICK k \in {"question", "clarification_reply"} :
          Hold(w, [NoLocals EXCEPT !.kind = k])
    BY <1>1 DEF Chat
  <2> DEFINE r == [NoLocals EXCEPT !.kind = k]
  <2>2. r \in Locals
    BY NoLocalsType DEF Locals
  <2>3. Len(r.hist) = 0 /\ Len(r.prev) = 0
    BY NothingHeld DEF NoLocals
  <2>4. Goto(w, "screen") /\ UNCHANGED <<cp, committed, ended, screened>>
    BY <1>1 DEF Chat, stored, ghosts
  <2> HIDE DEF r
  <2>5. Hold(w, r)
    BY <2>1 DEF r
  <2>6. QED BY <2>2, <2>3, <2>4, <2>5 DEF PastEnd
<1>2. CASE ScreenInput(w)
  <2>1. UNCHANGED <<cp, committed, ended, screened>>
    BY <1>2 DEF ScreenInput, stored, ghosts
  <2>2. CASE Goto(w, "probe") /\ UNCHANGED loc
    BY <2>1, <2>2, HoldSame DEF PastEnd
  <2>3. CASE Goto(w, "dispatch") /\ Hold(w, [loc[w] EXCEPT !.prev = cp.hist])
    <3> DEFINE r == [loc[w] EXCEPT !.prev = cp.hist]
    <3>1. r \in Locals /\ r.prev = cp.hist /\ r.hist = loc[w].hist
      BY DEF Locals
    <3>2. Hold(w, r)
      BY <2>3
    <3> HIDE DEF r
    <3>3. QED BY <2>1, <2>3, <3>1, <3>2 DEF PastEnd
  <2>4. QED BY <1>2, <2>2, <2>3 DEF ScreenInput
<1>3. CASE Dispatch(w)
  <2>1. UNCHANGED <<cp, committed, ended, screened>>
    BY <1>3 DEF Dispatch, stored, ghosts
  <2>2. CASE UNCHANGED loc /\ (Goto(w, "resume") \/ Goto(w, "reset"))
    BY <2>1, <2>2, HoldSame DEF PastEnd
  <2>3. CASE Goto(w, "start") /\ Hold(w, [loc[w] EXCEPT !.hist = cp.hist])
    <3> DEFINE r == [loc[w] EXCEPT !.hist = cp.hist]
    <3>1. r \in Locals /\ r.hist = cp.hist /\ r.prev = loc[w].prev
      BY DEF Locals
    <3>2. Hold(w, r)
      BY <2>3
    <3> HIDE DEF r
    <3>3. QED BY <2>1, <2>3, <3>1, <3>2 DEF PastEnd
  <2>4. QED BY <1>3, <2>2, <2>3 DEF Dispatch
<1>4. CASE Resume(w)
  <2> DEFINE r == [loc[w] EXCEPT !.turn = cp.turn, !.answer = cp.answer,
                                 !.hist = cp.hist]
             s == IF cp.next = "end" THEN "ended" ELSE "run"
  <2>1. r \in Locals /\ r.turn = cp.turn /\ r.hist = cp.hist /\ r.prev = loc[w].prev
    BY DEF Locals
  <2>2. s \in Steps /\ s # "remember" /\ (s \in PastEnd => cp.turn \in ended)
    BY DEF PastEnd
  <2>3. /\ Hold(w, r) /\ Goto(w, s)
        /\ UNCHANGED <<cp, committed, ended, screened>>
    BY <1>4 DEF Resume, stored, ghosts
  <2> HIDE DEF r, s
  <2>4. QED BY <2>1, <2>2, <2>3
<1>5. CASE GuardStop(w) \/ FailFinalCheck(w)
  <2>1. /\ Goto(w, "reset") /\ UNCHANGED loc
        /\ UNCHANGED <<cp, committed, ended, screened>>
    BY <1>5 DEF GuardStop, FailFinalCheck, stored, ghosts
  <2>2. QED BY <2>1, HoldSame DEF PastEnd
<1>6. CASE CheckQuestion(w)
  <2>1. /\ Goto(w, "audit_ask") \/ Goto(w, "reset")
        /\ UNCHANGED loc /\ UNCHANGED <<cp, committed, ended, screened>>
    BY <1>6 DEF CheckQuestion, stored, ghosts
  <2>2. QED BY <2>1, HoldSame DEF PastEnd
<1>7. CASE PassFinalCheck(w)
  <2>1. /\ Goto(w, "remember") /\ UNCHANGED loc
        /\ UNCHANGED <<cp, committed, ended>>
        /\ screened' = screened \cup {loc[w].turn}
        /\ pc[w] = "ended"
    BY <1>7 DEF PassFinalCheck, stored
  <2>2. loc[w].turn \in ended
    BY <2>1 DEF PastEnd
  <2>3. QED BY <2>1, <2>2, HoldSame
<1>8. CASE Probe(w)
  <2> DEFINE r == [loc[w] EXCEPT !.wait = (cp.next = "pause")]
  <2>1. r \in Locals /\ r.hist = loc[w].hist /\ r.prev = loc[w].prev
    BY DEF Locals
  <2>2. /\ Hold(w, r) /\ Goto(w, "audit_block")
        /\ UNCHANGED <<cp, committed, ended, screened>>
    BY <1>8 DEF Probe, stored, ghosts
  <2> HIDE DEF r
  <2>3. QED BY <2>1, <2>2 DEF PastEnd
<1>9. CASE Recover(w)
  <2> DEFINE r == [NoLocals EXCEPT !.op = "recover", !.turn = cp.turn,
                                   !.answer = cp.answer]
  <2>1. r \in Locals /\ r.turn = cp.turn
    BY NoLocalsType DEF Locals
  <2>2. Len(r.hist) = 0 /\ Len(r.prev) = 0
    BY NothingHeld DEF NoLocals
  <2>3. cp.turn \in ended
    BY <1>9 DEF Recover, Recoverable, TurnsInUse
  <2>4. /\ Hold(w, r) /\ Goto(w, "log")
        /\ UNCHANGED <<cp, committed, ended, screened>>
    BY <1>9 DEF Recover, stored, ghosts
  <2> HIDE DEF r
  <2>5. QED BY <2>1, <2>2, <2>3, <2>4
<1>10. QED BY <1>1, <1>2, <1>3, <1>4, <1>5, <1>6, <1>7, <1>8, <1>9

\* Steps that write a checkpoint.
LEMMA FlowCheckpointSteps ==
  ASSUME TypeOK, TurnsInUse, FinishedInv, ScreenedInv, NEW w \in Workers,
         \/ Start(w) \/ Node(w) \/ Pause(w) \/ End(w) \/ Remember(w) \/ Reset(w)
  PROVE  FinishedInv' /\ ScreenedInv'
<1> USE FieldTypes, FlowFacts DEF Steps
<1>1. CASE Start(w) \/ Node(w)
  <2>1. PICK r \in Locals : /\ Hold(w, r) /\ r.hist = loc[w].hist
                            /\ r.prev = loc[w].prev
    <3>1. CASE Start(w)
      <4>1. PICK t \in Turns : Hold(w, [loc[w] EXCEPT !.turn = t, !.answer = ""])
        BY <3>1 DEF Start
      <4>2. [loc[w] EXCEPT !.turn = t, !.answer = ""] \in Locals
        BY DEF Locals, Answers
      <4>3. QED BY <4>1, <4>2 DEF Locals
    <3>2. CASE Node(w)
      <4>1. PICK a \in Answers : Hold(w, [loc[w] EXCEPT !.answer = a])
        BY <3>2 DEF Node
      <4>2. [loc[w] EXCEPT !.answer = a] \in Locals
        BY DEF Locals
      <4>3. QED BY <4>1, <4>2 DEF Locals
    <3>3. QED BY <1>1, <3>1, <3>2
  <2>2. cp'.next = "run" /\ cp'.hist = loc[w].hist
    <3>1. CASE Start(w)
      <4>1. PICK t \in Turns \ used :
              cp' = [turn |-> t, next |-> "run", answer |-> "",
                     hist |-> loc[w].hist, by |-> w]
        BY Zenon, <3>1 DEF Start
      <4>2. QED BY <4>1
    <3>2. CASE Node(w)
      BY <3>2 DEF Node, Snapshot
    <3>3. QED BY <1>1, <3>1, <3>2
  <2>3. UNCHANGED <<committed, ended, screened>>
    BY <1>1 DEF Start, Node, ghosts
  <2>4. pc[w] \in {"start", "run"} /\ pc' \in [Workers -> Steps] /\ pc'[w] = "run"
        /\ \A v \in Workers : v # w => pc'[v] = pc[v]
    BY <1>1, GotoType DEF Start, Node, TypeOK
  <2>5. loc'[w] = r /\ \A v \in Workers : v # w => loc'[v] = loc[v]
    BY <2>1, HoldType
  <2>6. "run" \notin PastEnd
    BY DEF PastEnd
  <2>7. QED BY <2>1, <2>2, <2>3, <2>4, <2>5, <2>6, Flow
<1>2. CASE Pause(w)
  <2>1. /\ Goto(w, "asking") /\ UNCHANGED loc
        /\ UNCHANGED <<committed, ended, screened>>
    BY <1>2 DEF Pause, ghosts
  <2>2. cp' = cp \/ (cp'.next = "pause" /\ cp'.hist = loc[w].hist)
    BY <1>2 DEF Pause, Snapshot
  <2>3. pc'[w] = "asking" /\ \A v \in Workers : v # w => pc'[v] = pc[v]
    BY <2>1, GotoType
  <2>4. "asking" \notin PastEnd
    BY DEF PastEnd
  <2>5. QED BY <2>1, <2>2, <2>3, <2>4, Flow
<1>3. CASE End(w)
  <2>1. /\ Goto(w, "ended") /\ UNCHANGED loc /\ UNCHANGED <<committed, screened>>
        /\ ended' = ended \cup {loc[w].turn}
    BY <1>3 DEF End
  <2>2. cp'.turn = loc[w].turn /\ cp'.hist = loc[w].hist
    BY <1>3 DEF End, Snapshot
  <2>3. pc'[w] = "ended" /\ \A v \in Workers : v # w => pc'[v] = pc[v]
    BY <2>1, GotoType
  <2>4. QED BY <2>1, <2>2, <2>3, Flow
<1>4. CASE Remember(w)
  <2> DEFINE h == Append(loc[w].hist, loc[w].turn)
  <2>1. pc[w] = "remember" /\ loc[w].turn \in screened /\ loc[w].turn \in ended
    BY <1>4 DEF Remember, PastEnd
  <2>2. h \in Seq(Turns) /\ \A i \in 1..Len(h) : h[i] \in screened
    <3>1. loc[w].turn \in Turns /\ loc[w].hist \in Seq(Turns)
      BY <2>1 DEF TypeOK
    <3>2. h \in Seq(Turns) /\ Len(h) = Len(loc[w].hist) + 1
      BY <3>1
    <3>3. \A i \in 1..Len(h) :
            h[i] = IF i = Len(h) THEN loc[w].turn ELSE loc[w].hist[i]
      BY <3>1
    <3>4. \A i \in 1..Len(h) : i # Len(h) => i \in 1..Len(loc[w].hist)
      BY <3>1, <3>2
    <3>5. QED BY <2>1, <3>2, <3>3, <3>4
  <2>3. /\ Goto(w, "audit_answer") /\ UNCHANGED loc
        /\ UNCHANGED <<committed, ended, screened>>
        /\ cp' = Updated(w, h, cp.answer)
    BY <1>4 DEF Remember, ghosts
  <2> HIDE DEF h
  <2>4. /\ cp'.turn = cp.turn /\ cp'.hist = h
        /\ cp'.next = "end" => cp.next = "end"
    BY <2>2, <2>3 DEF Updated, TypeOK, Checkpoint
  <2>5. pc'[w] = "audit_answer" /\ \A v \in Workers : v # w => pc'[v] = pc[v]
    BY <2>3, GotoType
  <2>6. QED BY <2>1, <2>2, <2>3, <2>4, <2>5, Flow
<1>5. CASE Reset(w)
  <2>1. /\ Goto(w, "probe") /\ UNCHANGED loc
        /\ UNCHANGED <<committed, ended, screened>>
        /\ cp' = Updated(w, loc[w].prev, "")
    BY <1>5 DEF Reset, ghosts
  <2>2. /\ cp'.turn = cp.turn /\ cp'.hist = loc[w].prev
        /\ cp'.next = "end" => cp.next = "end"
    BY <2>1 DEF Updated, TypeOK, Checkpoint
  <2>3. pc'[w] = "probe" /\ \A v \in Workers : v # w => pc'[v] = pc[v]
    BY <2>1, GotoType
  <2>4. "probe" \notin PastEnd
    BY DEF PastEnd
  <2>5. QED BY <2>1, <2>2, <2>3, <2>4, Flow
<1>6. QED BY <1>1, <1>2, <1>3, <1>4, <1>5

\* Steps after the graph: the logs, the commits, and requests that are over.
LEMMA FlowStoreSteps ==
  ASSUME TypeOK, TurnsInUse, FinishedInv, ScreenedInv, NEW w \in Workers,
         \/ Audit(w) \/ LogTurn(w) \/ AppendAsk(w) \/ AppendBlock(w)
         \/ CommitTurn(w) \/ Reply(w) \/ HandlerFails(w)
  PROVE  FinishedInv' /\ ScreenedInv'
<1> USE FieldTypes, FlowFacts DEF Steps
<1>1. CASE Audit(w) \/ LogTurn(w)
  <2>1. PICK s \in {"ask", "block", "log", "commit"} :
          /\ Goto(w, s)
          /\ s \in PastEnd => pc[w] \in PastEnd
    BY <1>1 DEF Audit, LogTurn, PastEnd
  <2>2. UNCHANGED loc /\ UNCHANGED <<cp, committed, ended, screened>>
    BY <1>1 DEF Audit, LogTurn, ghosts
  <2>3. Hold(w, loc[w])
    BY <2>2, HoldSame
  <2>4. QED BY <2>1, <2>2, <2>3, FlowQuiet
<1>2. CASE AppendAsk(w) \/ AppendBlock(w) \/ Reply(w) \/ HandlerFails(w)
  <2>1. Leave(w) /\ UNCHANGED <<cp, committed, ended, screened>>
    BY <1>2 DEF AppendAsk, AppendBlock, Reply, HandlerFails, Exchange, stored, ghosts
  <2>2. Hold(w, NoLocals) /\ Goto(w, "idle")
    BY <2>1 DEF Leave, Idle
  <2>3. QED BY <2>1, <2>2, FlowQuiet, NothingHeld
<1>3. CASE CommitTurn(w)
  <2>1. /\ pc[w] = "commit" /\ UNCHANGED <<cp, loc, ended, screened>>
        /\ StoreTurn(loc[w].turn, loc[w].kind, loc[w].answer)
    BY <1>3, CommitStores DEF CommitTurn, ghosts
  <2>2. loc[w].turn \in ended
    BY <2>1 DEF PastEnd
  <2>3. \A t \in Turns : committed'[t] # "absent" => t \in ended'
    BY <2>1, <2>2 DEF StoreTurn, TypeOK
  <2>4. /\ loc'[w] = loc[w] /\ pc'[w] = "reply"
        /\ \A v \in Workers : v # w => loc'[v] = loc[v] /\ pc'[v] = pc[v]
    BY <1>3, <2>1, GotoType DEF CommitTurn
  <2>5. "reply" \notin PastEnd
    BY DEF PastEnd
  <2>6. QED BY <2>1, <2>3, <2>4, <2>5, Flow
<1>4. QED BY <1>1, <1>2, <1>3

\* Every step keeps both invariants.
LEMMA FlowStep ==
  TypeOK /\ TurnsInUse /\ FinishedInv /\ ScreenedInv /\ [Next]_vars
    => FinishedInv' /\ ScreenedInv'
<1> SUFFICES ASSUME TypeOK, TurnsInUse, FinishedInv, ScreenedInv, [Next]_vars
             PROVE  FinishedInv' /\ ScreenedInv'
  OBVIOUS
<1>1. CASE Crash
  <2>1. UNCHANGED <<cp, committed, ended, screened>>
    BY <1>1 DEF Crash, stored, ghosts
  <2>2. \A v \in Workers : pc'[v] = "idle" /\ loc'[v] = NoLocals
    BY <1>1 DEF Crash, Idle
  <2>3. FinishedInv'
    BY <2>1, <2>2, NothingHeld DEF FinishedInv, OnlyFinishedTurnsCommitted
  <2>4. MemoryWasScreened'
    BY <2>1, <2>2, NothingHeld DEF ScreenedInv, MemoryWasScreened
  <2>5. ScreenedInv'
    BY <2>2, <2>4, NothingHeld DEF ScreenedInv
  <2>6. QED BY <2>3, <2>5
<1>2. CASE UNCHANGED vars
  BY <1>2 DEF vars, stored, ghosts, FinishedInv, OnlyFinishedTurnsCommitted,
      ScreenedInv, MemoryWasScreened
<1>3. QED
  BY <1>1, <1>2, FlowLocalSteps, FlowCheckpointSteps, FlowStoreSteps
  DEF Next, ChatStep

\* A fresh thread has nothing committed and nothing remembered.
LEMMA FlowInit == Init => FinishedInv /\ ScreenedInv
<1> SUFFICES ASSUME Init PROVE FinishedInv /\ ScreenedInv
  OBVIOUS
<1>1. cp = NoCheckpoint
  BY Zenon DEF Init
<1>2. cp.next = "none" /\ Len(cp.hist) = 0
  BY <1>1 DEF NoCheckpoint
<1>3. /\ \A t \in Turns : committed[t] = "absent"
      /\ \A w \in Workers : pc[w] = "idle" /\ loc[w] = NoLocals
  BY DEF Init, Idle
<1>4. QED
  BY <1>2, <1>3, NothingHeld DEF FinishedInv, OnlyFinishedTurnsCommitted,
     ScreenedInv, MemoryWasScreened

\* No crash, retry or other request makes /chat or /recover commit a turn
\* whose graph run has not reached END.
THEOREM OnlyFinishedHolds == Spec => []OnlyFinishedTurnsCommitted
<1>1. Spec => [](TypeOK /\ TurnsInUse)
  BY TypeInit, TypeStep, PTL DEF Spec
<1>2. Spec => [](FinishedInv /\ ScreenedInv)
  BY <1>1, FlowInit, FlowStep, PTL DEF Spec
<1>3. FinishedInv => OnlyFinishedTurnsCommitted
  BY DEF FinishedInv
<1>4. QED BY <1>2, <1>3, PTL

\* Only answers that passed final_check are ever in the conversation memory,
\* the stale copies that concurrent requests write back included.
THEOREM MemoryScreenedHolds == Spec => []MemoryWasScreened
<1>1. Spec => [](TypeOK /\ TurnsInUse)
  BY TypeInit, TypeStep, PTL DEF Spec
<1>2. Spec => [](FinishedInv /\ ScreenedInv)
  BY <1>1, FlowInit, FlowStep, PTL DEF Spec
<1>3. ScreenedInv => MemoryWasScreened
  BY DEF ScreenedInv
<1>4. QED BY <1>2, <1>3, PTL

-----------------------------------------------------------------------------
(* The service implements TurnLedger.                                      *)

\* The positions of a turn's answer, the ledger's place.
Place(t) == {i \in 1..Len(transcript) : IsAnswer(i, t)}

\* A step that appends no answer is a stutter of the ledger.
LEMMA PlaceAppend ==
  ASSUME TypeOK, NEW ms \in Seq(MessageOf), transcript' = transcript \o ms,
         \A k \in 1..Len(ms) : ms[k].kind # "answer"
  PROVE  \A t \in Turns : Place(t)' = Place(t)
<1> DEFINE n == Len(transcript)
<1>1. n \in Nat /\ transcript \in Seq(MessageOf)
  BY DEF TypeOK
<1>2. Len(transcript') = n + Len(ms) /\ Len(ms) \in Nat
  BY <1>1
<1>3. \A i \in 1..n : transcript'[i] = transcript[i]
  BY <1>1
<1>4. \A i \in (n + 1)..(n + Len(ms)) : transcript'[i] = ms[i - n] /\ i - n \in 1..Len(ms)
  BY <1>1, <1>2
<1> HIDE DEF n
<1>5. \A i \in 1..Len(transcript') : i \in 1..n \/ i \in (n + 1)..(n + Len(ms))
  BY <1>1, <1>2
<1>6. 1..n \subseteq 1..Len(transcript')
  BY <1>1, <1>2
<1>7. \A t \in Turns : \A i \in (n + 1)..(n + Len(ms)) : ~ IsAnswer(i, t)'
  BY <1>4 DEF IsAnswer
<1>8. \A t \in Turns : \A i \in 1..n : IsAnswer(i, t)' <=> IsAnswer(i, t)
  BY <1>3 DEF IsAnswer
<1>9. QED BY <1>5, <1>6, <1>7, <1>8 DEF Place, n

\* A turn's first commit places its answer at the end, and nothing else.
LEMMA PlaceCommit ==
  ASSUME TypeOK, ExactlyOnce, NEW u \in Turns,
         NEW q \in MessageOf, NEW r \in MessageOf, q.kind # "answer",
         r.kind = "answer", r.turn = u, committed[u] = "absent",
         transcript' = transcript \o <<q, r>>
  PROVE  \A t \in Turns : Place(t)' = IF t = u THEN {Len(transcript) + 2} ELSE Place(t)
<1>0. PICK n : n = Len(transcript)
  OBVIOUS
<1>1. n \in Nat /\ transcript \in Seq(MessageOf)
  BY <1>0 DEF TypeOK
<1>2. Len(transcript') = n + 2
  BY <1>0, <1>1
<1>3. \A i \in 1..n : transcript'[i] = transcript[i]
  BY <1>0, <1>1
<1>4. transcript'[n + 1] = q /\ transcript'[n + 2] = r
  BY <1>0, <1>1
<1>5. \A i \in 1..n : ~ IsAnswer(i, u)
  BY <1>0 DEF ExactlyOnce
<1>6. /\ \A i \in 1..Len(transcript') : i \in 1..n \/ i = n + 1 \/ i = n + 2
      /\ \A i \in 1..n : i \in 1..Len(transcript')
      /\ n + 2 \in 1..Len(transcript') /\ n + 2 \notin 1..n
  <2>1. n \in Nat
    BY <1>1
  <2>2. \A i \in 1..(n + 2) : i \in 1..n \/ i = n + 1 \/ i = n + 2
    BY <2>1
  <2>3. \A i \in 1..n : i \in 1..(n + 2)
    BY <2>1
  <2>4. n + 2 \in 1..(n + 2) /\ n + 2 \notin 1..n
    BY <2>1
  <2>5. QED BY <1>2, <2>2, <2>3, <2>4
<1>7. \A t \in Turns : \A i \in 1..n : IsAnswer(i, t)' <=> IsAnswer(i, t)
  BY <1>3 DEF IsAnswer
<1>8. \A t \in Turns : ~ IsAnswer(n + 1, t)'
  BY <1>4 DEF IsAnswer
<1>9. \A t \in Turns : IsAnswer(n + 2, t)' <=> t = u
  BY <1>4 DEF IsAnswer
<1>10. \A i : i \in Place(u)' <=> i = n + 2
  BY <1>0, <1>5, <1>6, <1>7, <1>8, <1>9 DEF Place
<1>11. \A t \in Turns : \A i : t # u => (i \in Place(t)' <=> i \in Place(t))
  BY <1>0, <1>6, <1>7, <1>8, <1>9 DEF Place
<1>12. QED BY <1>0, <1>10, <1>11

\* Every step stutters for the ledger or is one turn's first commit.
LEMMA LedgerStep ==
  TypeOK /\ TurnsInUse /\ ExactlyOnce /\ [Next]_vars
    => \/ committed' = committed /\ \A t \in Turns : Place(t)' = Place(t)
       \/ \E u \in Turns, a \in {"blank", "draft"} :
            /\ committed[u] = "absent"
            /\ committed' = [committed EXCEPT ![u] = a]
            /\ \E p \in Place(u)' : \A t \in Turns :
                 Place(t)' = IF t = u THEN {p} ELSE Place(t)
<1> DEFINE Stutter == committed' = committed /\ \A t \in Turns : Place(t)' = Place(t)
           Commits == \E u \in Turns, a \in {"blank", "draft"} :
                        /\ committed[u] = "absent"
                        /\ committed' = [committed EXCEPT ![u] = a]
                        /\ \E p \in Place(u)' : \A t \in Turns :
                             Place(t)' = IF t = u THEN {p} ELSE Place(t)
<1> SUFFICES ASSUME TypeOK, TurnsInUse, ExactlyOnce, [Next]_vars
             PROVE  Stutter \/ Commits
  OBVIOUS
<1>1. CASE UNCHANGED <<transcript, committed>>
  BY <1>1 DEF Place, IsAnswer
<1>2. ASSUME NEW w \in Workers, AppendAsk(w) PROVE Stutter
  <2> DEFINE q == Message("user", loc[w].kind, loc[w].turn)
             p == Message("assistant", "clarification_prompt", loc[w].turn)
  <2>1. q \in MessageOf /\ p \in MessageOf /\ q.kind # "answer" /\ p.kind # "answer"
    BY FieldTypes DEF Message, MessageOf
  <2>2. transcript' = transcript \o <<q, p>> /\ UNCHANGED committed
    BY <1>2 DEF AppendAsk, Exchange
  <2> HIDE DEF q, p
  <2>3. /\ <<q, p>> \in Seq(MessageOf)
        /\ \A k \in 1..Len(<<q, p>>) : <<q, p>>[k].kind # "answer"
    BY <2>1
  <2>4. QED BY <2>2, <2>3, PlaceAppend
<1>3. ASSUME NEW w \in Workers, AppendBlock(w) PROVE Stutter
  <2> DEFINE b == Message("assistant", "blocked", NoTurn)
  <2>1. b \in MessageOf /\ b.kind # "answer"
    BY DEF Message, MessageOf
  <2>2. transcript' = transcript \o <<b>> /\ UNCHANGED committed
    BY <1>3 DEF AppendBlock, Exchange
  <2> HIDE DEF b
  <2>3. /\ <<b>> \in Seq(MessageOf)
        /\ \A k \in 1..Len(<<b>>) : <<b>>[k].kind # "answer"
    BY <2>1
  <2>4. QED BY <2>2, <2>3, PlaceAppend
<1>4. ASSUME NEW w \in Workers, CommitTurn(w) PROVE Stutter \/ Commits
  <2>0. PICK u : u = loc[w].turn
    OBVIOUS
  <2>s. u \in Turns /\ StoreTurn(u, loc[w].kind, loc[w].answer)
    BY <1>4, <2>0, CommitStores
  <2> DEFINE a == RowOf(loc[w].answer)
             q == Message("user", loc[w].kind, u)
             r == Message("assistant", "answer", u)
  <2>1. CASE committed[u] # "absent"
    BY <1>1, <2>s, <2>1 DEF StoreTurn
  <2>2. CASE committed[u] = "absent"
    <3>1. u \in Turns
      BY <2>s
    <3>2. a \in {"blank", "draft"}
      BY FieldTypes, RowOfType
    <3>3. /\ q \in MessageOf /\ q.kind # "answer"
          /\ r \in MessageOf /\ r.kind = "answer" /\ r.turn = u
      BY <2>0, FieldTypes DEF Message, MessageOf
    <3>4. /\ committed' = [committed EXCEPT ![u] = a]
          /\ transcript' = transcript \o <<q, r>>
      BY <2>s, <2>2 DEF StoreTurn
    <3> HIDE DEF a, q, r
    <3>5. committed[u] = "absent"
      BY <2>2
    <3>6. \A t \in Turns : Place(t)' = IF t = u THEN {Len(transcript) + 2} ELSE Place(t)
      BY <3>1, <3>3, <3>4, <3>5, PlaceCommit
    <3>7. Len(transcript) + 2 \in Place(u)'
      BY <3>1, <3>6
    <3>8. Commits
      BY <3>1, <3>2, <3>4, <3>5, <3>6, <3>7
    <3>9. QED BY <3>8
  <2>3. QED BY <2>1, <2>2
<1>5. ASSUME NEW w \in Workers,
             \/ Chat(w) \/ ScreenInput(w) \/ Dispatch(w) \/ Resume(w)
             \/ GuardStop(w) \/ CheckQuestion(w) \/ FailFinalCheck(w)
             \/ Probe(w) \/ Recover(w) \/ HandlerFails(w) \/ PassFinalCheck(w)
             \/ Reply(w)
      PROVE  UNCHANGED <<transcript, committed>>
  BY <1>5 DEF stored, Chat, ScreenInput, Dispatch, Resume, GuardStop,
      CheckQuestion, FailFinalCheck, Probe, Recover, HandlerFails,
      PassFinalCheck, Reply
<1>6. ASSUME NEW w \in Workers,
             \/ Start(w) \/ Node(w) \/ Pause(w) \/ End(w) \/ Remember(w)
             \/ Reset(w) \/ Audit(w) \/ LogTurn(w)
      PROVE  UNCHANGED <<transcript, committed>>
  BY <1>6 DEF Start, Node, Pause, End, Remember, Reset, Audit, LogTurn
<1>7. CASE Crash \/ UNCHANGED vars
  BY <1>1, <1>7 DEF Crash, vars, stored
<1> HIDE DEF Stutter, Commits
<1>8. QED
  BY <1>1, <1>2, <1>3, <1>4, <1>5, <1>6, <1>7 DEF Next, ChatStep

\* The service implements the ledger: for any number of request threads,
\* crashes and retries, results and the places of answers change only by a
\* turn's first commit.
THEOREM ImplementsLedger == Spec => LedgerSpec
<1>1. Init => Ledger!Init
  <2> SUFFICES ASSUME Init PROVE Ledger!Init
    OBVIOUS
  <2>1. transcript = <<>> /\ committed = [t \in Turns |-> "absent"]
    BY Zenon DEF Init
  <2>2. Len(transcript) = 0
    BY <2>1
  <2>3. [t \in Turns |-> {i \in 1..Len(transcript) : IsAnswer(i, t)}]
          = [t \in Turns |-> {}]
    BY <2>2
  <2>4. QED BY <2>1, <2>3 DEF Ledger!Init
<1>2. TypeOK /\ TurnsInUse /\ ExactlyOnce /\ [Next]_vars
        => [Ledger!Next]_<<committed,
              [t \in Turns |-> {i \in 1..Len(transcript) : IsAnswer(i, t)}]>>
  <2> DEFINE place == [t \in Turns |-> {i \in 1..Len(transcript) : IsAnswer(i, t)}]
  <2> SUFFICES ASSUME TypeOK, TurnsInUse, ExactlyOnce, [Next]_vars
               PROVE  Ledger!Next \/ UNCHANGED <<committed, place>>
    OBVIOUS
  <2>1. place = [t \in Turns |-> Place(t)] /\ place' = [t \in Turns |-> Place(t)']
    BY DEF Place
  <2>2. CASE committed' = committed /\ \A t \in Turns : Place(t)' = Place(t)
    BY <2>1, <2>2
  <2>3. ASSUME NEW u \in Turns, NEW a \in {"blank", "draft"},
               committed[u] = "absent",
               committed' = [committed EXCEPT ![u] = a],
               NEW p \in Place(u)',
               \A t \in Turns : Place(t)' = IF t = u THEN {p} ELSE Place(t)
        PROVE  Ledger!Next
    <3>1. p \in place'[u]
      BY <2>1, <2>3
    <3>2. place' = [place EXCEPT ![u] = {p}]
      BY <2>1, <2>3
    <3>3. Ledger!Commit(u, a)
      BY <2>3, <3>1, <3>2 DEF Ledger!Commit
    <3>4. QED BY <3>3 DEF Ledger!Next, Ledger!Results
  <2>4. QED BY <2>2, <2>3, LedgerStep
<1>3. Spec => [](TypeOK /\ TurnsInUse)
  BY TypeInit, TypeStep, PTL DEF Spec
<1>4. QED
  BY <1>1, <1>2, <1>3, ExactlyOnceHolds, PTL DEF Spec, LedgerSpec, Ledger!Spec
=============================================================================
