--------------------------- MODULE CalmServiceProofs ---------------------------
(***************************************************************************)
(* Proofs about ChatService with one request at a time, for any number of  *)
(* calls and turns: it keeps its three records of a conversation in        *)
(* agreement as long as nothing fails (CalmServiceAgrees), and whatever    *)
(* fails, what it told of a turn is what it stored (ReplyIsDurable).       *)
(***************************************************************************)
EXTENDS ChatServiceProofs

\* A clarification prompt of turn t stands at the end of the transcript, with
\* nothing but rejected inputs behind it.
PromptStands(t) ==
  \E j \in 1..Len(transcript) :
    /\ transcript[j].kind = "clarification_prompt" /\ transcript[j].turn = t
    /\ \A k \in (j + 1)..Len(transcript) : transcript[k].kind = "blocked"

\* h holds the turns of S, each once.
Remembers(h, S) ==
  /\ {h[i] : i \in 1..Len(h)} = S
  /\ \A i, j \in 1..Len(h) : h[i] = h[j] => i = j

\* A request whose answer is in the memory and not yet returned, or which works
\* on a turn that nobody has answered, or which recovers one.
Late(w) == loc[w].op = "chat" /\ pc[w] \in {"audit_answer", "log", "commit"}

\* A request whose answer is committed and not yet returned.
Answering(w) == loc[w].op = "chat" /\ pc[w] = "reply"

InTurn(w) ==
  pc[w] \in {"run", "asking", "audit_ask", "ask", "ended", "remember"} \/ Late(w)

Recovering(w) == loc[w].op = "recover" /\ pc[w] \in {"log", "commit", "reply"}

\* The checkpoint's memory, and the copies of it that the request may write back.
MemoryAt(w) ==
  /\ Remembers(cp.hist, IF Late(w) \/ Answering(w) THEN replied \cup {loc[w].turn} ELSE replied)
  /\ pc[w] \in {"dispatch", "start", "resume", "run", "asking", "ended", "reset"} =>
       Remembers(loc[w].prev, replied)
  /\ pc[w] \in {"start", "run", "asking", "ended", "remember"} =>
       Remembers(loc[w].hist, replied)

\* Where the checkpoint stands when the request is at a step.
CheckpointAt(w) ==
  /\ cp.next # "none" => cp.by \in Workers
  /\ cp.next = "pause" => cp.turn \notin replied /\ committed[cp.turn] = "absent"
  /\ InTurn(w) => /\ cp.turn = loc[w].turn /\ loc[w].turn \notin replied
                  /\ committed[loc[w].turn] = "absent"
  /\ pc[w] = "start" => cp.next # "pause"
  /\ pc[w] = "run" => cp.next \in {"run", "pause"}
  /\ pc[w] \in {"resume", "asking", "audit_ask", "ask"} => cp.next = "pause"
  /\ pc[w] \in {"ended", "remember", "reply"} \/ Late(w) \/ Recovering(w) => cp.next = "end"

\* What the request was told when it began, and what it will write in the thread row.
RowAt(w) ==
  /\ pc[w] \notin {"idle", "log", "commit", "reply"} => loc[w].op = "chat"
  /\ pc[w] \in {"idle", "screen", "dispatch"} => PauseAgrees
  /\ pc[w] \in {"screen", "dispatch"} =>
       (loc[w].kind = "clarification_reply" <=> cp.next = "pause")
  /\ pc[w] = "start" \/ Recovering(w) => loc[w].kind = "question"
  /\ pc[w] \in {"audit_block", "block"} => (loc[w].wait <=> cp.next = "pause")
  /\ Recovering(w) \/ pc[w] = "reply" => ~awaiting

\* The prompt that a reply will stand behind.
PromptAt(w) ==
  /\ RepliesFollowPrompts
  /\ (pc[w] \in {"idle", "screen", "dispatch", "resume", "probe", "audit_block", "block"}
      /\ cp.next = "pause") => PromptStands(cp.turn)
  /\ (InTurn(w) /\ loc[w].kind = "clarification_reply") => PromptStands(loc[w].turn)

CalmAt(w) == MemoryAt(w) /\ CheckpointAt(w) /\ RowAt(w) /\ PromptAt(w)

CalmInv == faults = 0 => \A w \in Workers : CalmAt(w)

-----------------------------------------------------------------------------
(* A step, field by field.                                                 *)

\* What a step that stores no message and no result leaves alone.
Silent == UNCHANGED <<transcript, committed, replied, awaiting, faults>>

\* The locals of a request, field by field.
Held(r, op, kind, wait, turn, hist, prev) ==
  r.op = op /\ r.kind = kind /\ r.wait = wait /\ r.turn = turn /\ r.hist = hist /\ r.prev = prev

\* A step of the request that keeps its locals apart from those named.
LEMMA LocalsSet ==
  ASSUME TypeOK, NEW w \in Workers, NEW k, NEW t, NEW a, NEW h, NEW p, NEW b
  PROVE  /\ Held([loc[w] EXCEPT !.prev = p], loc[w].op, loc[w].kind, loc[w].wait, loc[w].turn, loc[w].hist, p)
         /\ Held([loc[w] EXCEPT !.hist = h], loc[w].op, loc[w].kind, loc[w].wait, loc[w].turn, h, loc[w].prev)
         /\ Held([loc[w] EXCEPT !.turn = t, !.answer = a],
                 loc[w].op, loc[w].kind, loc[w].wait, t, loc[w].hist, loc[w].prev)
         /\ Held([loc[w] EXCEPT !.turn = t, !.answer = a, !.hist = h],
                 loc[w].op, loc[w].kind, loc[w].wait, t, h, loc[w].prev)
         /\ Held([loc[w] EXCEPT !.answer = a],
                 loc[w].op, loc[w].kind, loc[w].wait, loc[w].turn, loc[w].hist, loc[w].prev)
         /\ Held([loc[w] EXCEPT !.wait = b],
                 loc[w].op, loc[w].kind, b, loc[w].turn, loc[w].hist, loc[w].prev)
         /\ Held([NoLocals EXCEPT !.kind = k], "chat", k, FALSE, NoTurn, <<>>, <<>>)
         /\ Held([NoLocals EXCEPT !.op = "recover", !.turn = t, !.answer = a],
                 "recover", "question", FALSE, t, <<>>, <<>>)
         /\ Held(NoLocals, "chat", "question", FALSE, NoTurn, <<>>, <<>>)
<1>1. loc[w] \in Locals
  BY DEF TypeOK
<1>2. QED BY <1>1 DEF Locals, Held, NoLocals

\* What a request's place and locals become, step by step.
LEMMA HoldSets ==
  ASSUME TypeOK, NEW w \in Workers, NEW r, Hold(w, r)
  PROVE  loc'[w] = r
  BY DEF Hold, TypeOK

LEMMA ChatMoves ==
  ASSUME TypeOK, NEW w \in Workers, Chat(w)
  PROVE  /\ pc[w] = "idle" /\ pc'[w] = "screen"
         /\ Held(loc'[w], "chat", IF awaiting THEN "clarification_reply" ELSE "question",
                 FALSE, NoTurn, <<>>, <<>>)
<1>1. pc[w] = "idle" /\ pc'[w] = "screen"
  BY GotoType DEF Chat, Idle, Steps
<1>2. PICK k : k = IF awaiting THEN "clarification_reply" ELSE "question"
  OBVIOUS
<1>3. loc'[w] = [NoLocals EXCEPT !.kind = k]
  BY <1>2, HoldSets DEF Chat
<1>4. Held([NoLocals EXCEPT !.kind = k], "chat", k, FALSE, NoTurn, <<>>, <<>>)
  BY Zenon, LocalsSet
<1>5. QED BY Zenon, <1>1, <1>2, <1>3, <1>4

LEMMA ResumeMoves ==
  ASSUME TypeOK, NEW w \in Workers, cp.next # "end", Resume(w)
  PROVE  /\ pc[w] = "resume" /\ pc'[w] = "run"
         /\ Held(loc'[w], loc[w].op, loc[w].kind, loc[w].wait, cp.turn, cp.hist, loc[w].prev)
<1>1. pc[w] = "resume" /\ pc'[w] = "run"
  <2>1. Goto(w, "run") /\ "run" \in Steps
    BY DEF Resume, Steps
  <2>2. QED BY <2>1, GotoType DEF Resume
<1>2. loc'[w] = [loc[w] EXCEPT !.turn = cp.turn, !.answer = cp.answer, !.hist = cp.hist]
  BY HoldSets DEF Resume
<1>3. Held([loc[w] EXCEPT !.turn = cp.turn, !.answer = cp.answer, !.hist = cp.hist],
           loc[w].op, loc[w].kind, loc[w].wait, cp.turn, cp.hist, loc[w].prev)
  BY Zenon, LocalsSet
<1>4. QED BY Zenon, <1>1, <1>2, <1>3

LEMMA ProbeMoves ==
  ASSUME TypeOK, NEW w \in Workers, Probe(w)
  PROVE  /\ pc[w] = "probe" /\ pc'[w] = "audit_block"
         /\ Held(loc'[w], loc[w].op, loc[w].kind, cp.next = "pause", loc[w].turn, loc[w].hist, loc[w].prev)
<1>1. pc[w] = "probe" /\ pc'[w] = "audit_block"
  BY GotoType DEF Probe, Steps
<1>2. loc'[w] = [loc[w] EXCEPT !.wait = (cp.next = "pause")]
  BY HoldSets DEF Probe
<1>3. Held([loc[w] EXCEPT !.wait = (cp.next = "pause")],
           loc[w].op, loc[w].kind, cp.next = "pause", loc[w].turn, loc[w].hist, loc[w].prev)
  BY Zenon, LocalsSet
<1>4. QED BY Zenon, <1>1, <1>2, <1>3

LEMMA RecoverMoves ==
  ASSUME TypeOK, TurnsInUse, NEW w \in Workers, Recover(w)
  PROVE  /\ pc[w] = "idle" /\ pc'[w] = "log" /\ cp.next = "end"
         /\ Held(loc'[w], "recover", "question", FALSE, cp.turn, <<>>, <<>>)
<1>1. pc[w] = "idle" /\ pc'[w] = "log"
  BY GotoType DEF Recover, Idle, Steps
<1>2. cp.next = "end"
  BY FieldTypes DEF Recover, Recoverable, TurnsInUse
<1>3. loc'[w] = [NoLocals EXCEPT !.op = "recover", !.turn = cp.turn, !.answer = cp.answer]
  BY HoldSets DEF Recover
<1>4. Held([NoLocals EXCEPT !.op = "recover", !.turn = cp.turn, !.answer = cp.answer],
           "recover", "question", FALSE, cp.turn, <<>>, <<>>)
  BY Zenon, LocalsSet
<1>5. QED BY Zenon, <1>1, <1>2, <1>3, <1>4

LEMMA GuardMoves ==
  ASSUME TypeOK, NEW w \in Workers,
         GuardStop(w) \/ CheckQuestion(w) \/ PassFinalCheck(w) \/ FailFinalCheck(w)
  PROVE  /\ loc'[w] = loc[w]
         /\ \/ pc[w] = "run" /\ pc'[w] = "reset"
            \/ pc[w] = "asking" /\ pc'[w] \in {"audit_ask", "reset"}
            \/ pc[w] = "ended" /\ pc'[w] \in {"remember", "reset"}
<1>1. {"reset", "audit_ask", "remember"} \subseteq Steps
  BY DEF Steps
<1>2. CASE GuardStop(w) BY <1>1, <1>2, GotoType DEF GuardStop
<1>3. CASE CheckQuestion(w) BY <1>1, <1>3, GotoType DEF CheckQuestion
<1>4. CASE PassFinalCheck(w) BY <1>1, <1>4, GotoType DEF PassFinalCheck, stored
<1>5. CASE FailFinalCheck(w) BY <1>1, <1>5, GotoType DEF FailFinalCheck
<1>6. QED BY <1>2, <1>3, <1>4, <1>5

\* With the transcript, the prompts in it and their replies stay.
LEMMA SilentKeepsPrompts ==
  ASSUME Silent
  PROVE  /\ \A t : PromptStands(t)' <=> PromptStands(t)
         /\ RepliesFollowPrompts' <=> RepliesFollowPrompts
         /\ PauseAgrees' <=> (awaiting <=> cp'.next = "pause")
  BY DEF Silent, PromptStands, RepliesFollowPrompts, PauseAgrees

\* Steps that store nothing keep the agreement.
LEMMA CalmLocalSteps ==
  ASSUME TypeOK, TurnsInUse, NEW w \in Workers, CalmAt(w),
         \/ Chat(w) \/ ScreenInput(w) \/ Dispatch(w) \/ Resume(w)
         \/ GuardStop(w) \/ CheckQuestion(w) \/ PassFinalCheck(w)
         \/ FailFinalCheck(w) \/ Probe(w) \/ Recover(w) \/ Audit(w) \/ LogTurn(w)
  PROVE  CalmAt(w)'
<1>0. Silent /\ UNCHANGED cp
  BY DEF Chat, ScreenInput, Dispatch, Resume, GuardStop, CheckQuestion, PassFinalCheck,
         FailFinalCheck, Probe, Recover, Audit, LogTurn, Silent, stored, ghosts
<1> USE <1>0, SilentKeepsPrompts, FieldTypes
    DEF CalmAt, MemoryAt, CheckpointAt, RowAt, PromptAt, Late, Answering, InTurn, Recovering, Silent
<1>1. CASE Chat(w)
  <2>1. /\ pc[w] = "idle" /\ pc'[w] = "screen"
        /\ Held(loc'[w], "chat", IF awaiting THEN "clarification_reply" ELSE "question",
                FALSE, NoTurn, <<>>, <<>>)
    BY Zenon, <1>1, ChatMoves
  <2>2. QED BY <2>1 DEF Held, PauseAgrees
<1>2. CASE ScreenInput(w)
  <2>1. pc[w] = "screen"
    BY <1>2 DEF ScreenInput
  <2>2. CASE pc'[w] = "probe" /\ loc'[w] = loc[w]
    BY <2>1, <2>2
  <2>3. CASE /\ pc'[w] = "dispatch"
             /\ Held(loc'[w], loc[w].op, loc[w].kind, loc[w].wait, loc[w].turn, loc[w].hist, cp.hist)
    BY <2>1, <2>3 DEF Held, PauseAgrees
  <2>4. CASE Goto(w, "probe") /\ UNCHANGED loc
    BY <2>2, <2>4, GotoType DEF Steps
  <2>5. CASE Goto(w, "dispatch") /\ Hold(w, [loc[w] EXCEPT !.prev = cp.hist])
    <3>1. pc'[w] = "dispatch"
      BY <2>5, GotoType DEF Steps
    <3>2. loc'[w] = [loc[w] EXCEPT !.prev = cp.hist]
      BY <2>5 DEF Hold, TypeOK
    <3>3. Held([loc[w] EXCEPT !.prev = cp.hist],
               loc[w].op, loc[w].kind, loc[w].wait, loc[w].turn, loc[w].hist, cp.hist)
      BY Zenon, LocalsSet
    <3>4. QED BY Zenon, <2>3, <3>1, <3>2, <3>3
  <2>6. QED BY <1>2, <2>4, <2>5 DEF ScreenInput
<1>3. CASE Dispatch(w)
  <2>1. pc[w] = "dispatch"
    BY <1>3 DEF Dispatch
  <2>2. CASE cp.next = "pause" /\ pc'[w] \in {"resume", "reset"} /\ loc'[w] = loc[w]
    BY <2>1, <2>2
  <2>3. CASE /\ cp.next # "pause" /\ pc'[w] = "start"
             /\ Held(loc'[w], loc[w].op, loc[w].kind, loc[w].wait, loc[w].turn, cp.hist, loc[w].prev)
    BY <2>1, <2>3 DEF Held
  <2>4. CASE cp.next = "pause" /\ (Goto(w, "resume") \/ Goto(w, "reset")) /\ UNCHANGED loc
    BY <2>2, <2>4, GotoType DEF Steps
  <2>5. CASE cp.next # "pause" /\ Goto(w, "start") /\ Hold(w, [loc[w] EXCEPT !.hist = cp.hist])
    <3>1. pc'[w] = "start"
      BY <2>5, GotoType DEF Steps
    <3>2. loc'[w] = [loc[w] EXCEPT !.hist = cp.hist]
      BY <2>5 DEF Hold, TypeOK
    <3>3. Held([loc[w] EXCEPT !.hist = cp.hist],
               loc[w].op, loc[w].kind, loc[w].wait, loc[w].turn, cp.hist, loc[w].prev)
      BY Zenon, LocalsSet
    <3>4. QED BY Zenon, <2>3, <2>5, <3>1, <3>2, <3>3
  <2>6. QED BY <1>3, <2>4, <2>5 DEF Dispatch
<1>4. CASE Resume(w)
  <2>1. cp.next # "end"
    BY <1>4 DEF Resume
  <2>2. /\ pc[w] = "resume" /\ pc'[w] = "run"
        /\ Held(loc'[w], loc[w].op, loc[w].kind, loc[w].wait, cp.turn, cp.hist, loc[w].prev)
    BY Zenon, <1>4, <2>1, ResumeMoves
  <2>3. QED BY <2>2 DEF Held
<1>5. CASE GuardStop(w) \/ CheckQuestion(w) \/ PassFinalCheck(w) \/ FailFinalCheck(w)
  <2>1. /\ loc'[w] = loc[w]
        /\ \/ pc[w] = "run" /\ pc'[w] = "reset"
           \/ pc[w] = "asking" /\ pc'[w] \in {"audit_ask", "reset"}
           \/ pc[w] = "ended" /\ pc'[w] \in {"remember", "reset"}
    BY Zenon, <1>5, GuardMoves
  <2>2. QED BY <2>1
<1>6. CASE Probe(w)
  <2>1. /\ pc[w] = "probe" /\ pc'[w] = "audit_block"
        /\ Held(loc'[w], loc[w].op, loc[w].kind, cp.next = "pause", loc[w].turn, loc[w].hist, loc[w].prev)
    BY Zenon, <1>6, ProbeMoves
  <2>2. QED BY <2>1 DEF Held
<1>7. CASE Recover(w)
  <2>1. /\ pc[w] = "idle" /\ pc'[w] = "log" /\ cp.next = "end"
        /\ Held(loc'[w], "recover", "question", FALSE, cp.turn, <<>>, <<>>)
    BY Zenon, <1>7, RecoverMoves
  <2>2. QED BY <2>1 DEF Held, PauseAgrees
<1>8. CASE Audit(w) \/ LogTurn(w)
  <2>1. /\ loc'[w] = loc[w]
        /\ \/ pc[w] = "audit_ask" /\ pc'[w] = "ask"
           \/ pc[w] = "audit_block" /\ pc'[w] = "block"
           \/ pc[w] = "audit_answer" /\ pc'[w] = "log"
           \/ pc[w] = "log" /\ pc'[w] = "commit"
    BY <1>8, GotoType DEF Audit, LogTurn, Steps
  <2>2. QED BY <2>1
<1>9. QED BY <1>1, <1>2, <1>3, <1>4, <1>5, <1>6, <1>7, <1>8

\* A memory with one turn more.
LEMMA RemembersAppend ==
  ASSUME NEW h \in Seq(Turns), NEW S, NEW t \in Turns, Remembers(h, S), t \notin S
  PROVE  Remembers(Append(h, t), S \cup {t})
<1> DEFINE n == Len(h)
           g == Append(h, t)
<1>1. /\ n \in Nat /\ Len(g) = n + 1 /\ g[n + 1] = t
      /\ \A i \in 1..n : g[i] = h[i]
  OBVIOUS
<1>2. \A i \in 1..(n + 1) : i = n + 1 \/ i \in 1..n
  BY <1>1
<1>3. {g[i] : i \in 1..(n + 1)} = S \cup {t}
  <2>1. {h[i] : i \in 1..n} = S
    BY DEF Remembers
  <2>2. \A i \in 1..n : i \in 1..(n + 1)
    BY <1>1
  <2>3. n + 1 \in 1..(n + 1)
    BY <1>1
  <2> HIDE DEF g, n
  <2>4. QED BY <1>1, <1>2, <2>1, <2>2, <2>3
<1>4. \A i, j \in 1..(n + 1) : g[i] = g[j] => i = j
  <2>1. \A i \in 1..n : h[i] \in S
    BY DEF Remembers
  <2>2. \A i, j \in 1..n : h[i] = h[j] => i = j
    BY DEF Remembers
  <2> HIDE DEF g, n
  <2>3. QED BY <1>1, <1>2, <2>1, <2>2
<1>5. QED BY <1>1, <1>3, <1>4 DEF Remembers

\* A checkpoint, field by field.
Written(c, turn, next, hist, by) ==
  c.turn = turn /\ c.next = next /\ c.hist = hist /\ c.by = by

\* Steps that write a checkpoint keep the agreement.
LEMMA CalmCheckpointSteps ==
  ASSUME TypeOK, TurnsInUse, OnlyFinishedTurnsCommitted,
         NEW w \in Workers, \A v \in Workers : v = w, CalmAt(w),
         \/ Start(w) \/ Node(w) \/ Pause(w) \/ End(w) \/ Remember(w) \/ Reset(w)
  PROVE  CalmAt(w)'
<1>0. Silent
  BY DEF Start, Node, Pause, End, Remember, Reset, Silent, ghosts
<1> USE <1>0, SilentKeepsPrompts, FieldTypes
    DEF CalmAt, MemoryAt, CheckpointAt, RowAt, PromptAt, Late, Answering, InTurn, Recovering, Silent
<1>1. CASE Start(w)
  <2>1. PICK t \in Turns \ used :
          /\ Hold(w, [loc[w] EXCEPT !.turn = t, !.answer = ""])
          /\ cp' = [turn |-> t, next |-> "run", answer |-> "",
                    hist |-> loc[w].hist, by |-> w]
    BY <1>1 DEF Start
  <2>2. pc[w] = "start" /\ pc'[w] = "run"
    BY <1>1, GotoType DEF Start, Steps
  <2>3. loc'[w] = [loc[w] EXCEPT !.turn = t, !.answer = ""]
    BY <2>1 DEF Hold, TypeOK
  <2>4. Held(loc'[w], loc[w].op, loc[w].kind, loc[w].wait, t, loc[w].hist, loc[w].prev)
    <3>1. Held([loc[w] EXCEPT !.turn = t, !.answer = ""],
               loc[w].op, loc[w].kind, loc[w].wait, t, loc[w].hist, loc[w].prev)
      BY Zenon, LocalsSet
    <3>2. QED BY Zenon, <2>3, <3>1
  <2>5. Written(cp', t, "run", loc[w].hist, w)
    BY <2>1 DEF Written
  <2>6. t \notin replied /\ committed[t] = "absent"
    BY DEF TypeOK, OnlyFinishedTurnsCommitted
  <2>7. QED BY <2>2, <2>4, <2>5, <2>6 DEF Held, Written
<1>2. CASE Node(w)
  <2>1. PICK a \in Answers : /\ Hold(w, [loc[w] EXCEPT !.answer = a])
                             /\ cp' = Snapshot(w, "run", a)
    BY <1>2 DEF Node
  <2>2. pc[w] = "run" /\ pc'[w] = "run"
    BY <1>2 DEF Node
  <2>3. loc'[w] = [loc[w] EXCEPT !.answer = a]
    BY <2>1 DEF Hold, TypeOK
  <2>4. Held(loc'[w], loc[w].op, loc[w].kind, loc[w].wait, loc[w].turn, loc[w].hist, loc[w].prev)
    <3>1. Held([loc[w] EXCEPT !.answer = a],
               loc[w].op, loc[w].kind, loc[w].wait, loc[w].turn, loc[w].hist, loc[w].prev)
      BY Zenon, LocalsSet
    <3>2. QED BY Zenon, <2>3, <3>1
  <2>5. Written(cp', loc[w].turn, "run", loc[w].hist, w)
    BY <2>1 DEF Written, Snapshot
  <2>6. QED BY <2>2, <2>4, <2>5 DEF Held, Written
<1>3. CASE Pause(w)
  <2>1. pc[w] = "run" /\ pc'[w] = "asking" /\ loc' = loc
    BY <1>3, GotoType DEF Pause, Steps
  <2>2. cp.by = w
    BY <2>1
  <2>3. Written(cp', loc[w].turn, "pause", loc[w].hist, w)
    BY <1>3, <2>2 DEF Written, Snapshot, Pause
  <2>4. QED BY <2>1, <2>3 DEF Written
<1>4. CASE End(w)
  <2>1. pc[w] = "run" /\ pc'[w] = "ended" /\ loc' = loc
    BY <1>4, GotoType DEF End, Steps
  <2>2. Written(cp', loc[w].turn, "end", loc[w].hist, w)
    BY <1>4 DEF Written, Snapshot, End
  <2>3. QED BY <2>1, <2>2 DEF Written
<1>5. CASE Remember(w)
  <2> DEFINE h == Append(loc[w].hist, loc[w].turn)
  <2>1. pc[w] = "remember" /\ pc'[w] = "audit_answer" /\ loc' = loc
    BY <1>5, GotoType DEF Remember, Steps
  <2>2. loc[w].turn \in Turns
    BY <2>1 DEF TurnsInUse, Working, TypeOK
  <2>3. Remembers(h, replied \cup {loc[w].turn}) /\ h \in Seq(Turns)
    BY <2>1, <2>2, RemembersAppend
  <2>4. cp' = Updated(w, h, cp.answer)
    BY <1>5 DEF Remember
  <2> HIDE DEF h
  <2>5. cp.next = "end"
    BY <2>1
  <2>6. Written(cp', cp.turn, "end", h, w)
    BY <2>4, <2>5 DEF Written, Updated, TypeOK, Checkpoint
  <2>7. loc[w].op = "chat"
    BY <2>1
  <2>8. QED BY <2>1, <2>3, <2>6, <2>7 DEF Written
<1>6. CASE Reset(w)
  <2>1. pc[w] = "reset" /\ pc'[w] = "probe" /\ loc' = loc
    BY <1>6, GotoType DEF Reset, Steps
  <2>2. Written(cp', cp.turn, IF cp.next = "pause" THEN "run" ELSE cp.next, loc[w].prev, w)
    BY <1>6 DEF Written, Updated, Reset, TypeOK, Checkpoint
  <2>3. QED BY <2>1, <2>2 DEF Written
<1>7. QED BY <1>1, <1>2, <1>3, <1>4, <1>5, <1>6

-----------------------------------------------------------------------------
(* Steps that write messages.                                              *)

\* Messages are appended: a reply among them is the first, and its prompt stands.
LEMMA RepliesAppend ==
  ASSUME TypeOK, RepliesFollowPrompts, NEW ms \in Seq(MessageOf),
         transcript' = transcript \o ms,
         \A k \in 1..Len(ms) : ms[k].kind = "clarification_reply" =>
           k = 1 /\ PromptStands(ms[k].turn)
  PROVE  RepliesFollowPrompts'
<1> DEFINE n == Len(transcript)
<1>1. /\ transcript \in Seq(MessageOf) /\ n \in Nat /\ Len(ms) \in Nat
      /\ Len(transcript') = n + Len(ms)
      /\ \A i \in 1..n : transcript'[i] = transcript[i]
      /\ \A k \in 1..Len(ms) : transcript'[n + k] = ms[k]
  BY DEF TypeOK
<1> HIDE DEF n
<1>2. SUFFICES ASSUME NEW i \in 1..(n + Len(ms)), transcript'[i].kind = "clarification_reply"
               PROVE  \E j \in 1..(i - 1) :
                        /\ transcript'[j].kind = "clarification_prompt"
                        /\ transcript'[j].turn = transcript'[i].turn
                        /\ \A k \in (j + 1)..(i - 1) : transcript'[k].kind = "blocked"
  BY <1>1 DEF RepliesFollowPrompts
<1>3. CASE i \in 1..n
  <2>1. PICK j \in 1..(i - 1) :
          /\ transcript[j].kind = "clarification_prompt"
          /\ transcript[j].turn = transcript[i].turn
          /\ \A k \in (j + 1)..(i - 1) : transcript[k].kind = "blocked"
    BY <1>1, <1>2, <1>3 DEF RepliesFollowPrompts, n
  <2>2. /\ j \in 1..n /\ \A k \in (j + 1)..(i - 1) : k \in 1..n
    BY <1>1, <1>3
  <2>3. QED BY <1>1, <1>3, <2>1, <2>2
<1>4. CASE i \notin 1..n
  <2>1. i - n \in 1..Len(ms) /\ i = n + (i - n)
    BY <1>1, <1>4
  <2>2. ms[i - n].kind = "clarification_reply" /\ transcript'[i] = ms[i - n]
    BY <1>1, <1>2, <2>1
  <2>3. i - n = 1 /\ PromptStands(ms[i - n].turn)
    BY <2>1, <2>2
  <2>4. PICK j \in 1..n :
          /\ transcript[j].kind = "clarification_prompt"
          /\ transcript[j].turn = transcript'[i].turn
          /\ \A k \in (j + 1)..n : transcript[k].kind = "blocked"
    BY <2>2, <2>3 DEF PromptStands, n
  <2>5. i - 1 = n
    BY <1>1, <2>3
  <2>6. \A k \in (j + 1)..n : k \in 1..n
    BY <1>1
  <2>7. QED BY <1>1, <2>4, <2>5, <2>6
<1>5. QED BY <1>3, <1>4

\* A prompt still stands when a rejected input follows it.
LEMMA PromptBehindBlocked ==
  ASSUME TypeOK, NEW m \in MessageOf, m.kind = "blocked",
         transcript' = transcript \o <<m>>, NEW t, PromptStands(t)
  PROVE  PromptStands(t)'
<1> DEFINE n == Len(transcript)
<1>1. /\ transcript \in Seq(MessageOf) /\ n \in Nat
      /\ Len(transcript') = n + 1 /\ transcript'[n + 1] = m
      /\ \A i \in 1..n : transcript'[i] = transcript[i]
  BY DEF TypeOK
<1>2. PICK j \in 1..n :
          /\ transcript[j].kind = "clarification_prompt" /\ transcript[j].turn = t
          /\ \A k \in (j + 1)..n : transcript[k].kind = "blocked"
  BY DEF PromptStands
<1> HIDE DEF n
<1>3. \A k \in (j + 1)..(n + 1) : k = n + 1 \/ (k \in (j + 1)..n /\ k \in 1..n)
  BY <1>1
<1>4. j \in 1..(n + 1)
  BY <1>1
<1>5. QED BY <1>1, <1>2, <1>3, <1>4 DEF PromptStands

\* A prompt that was just appended stands.
LEMMA PromptAppended ==
  ASSUME TypeOK, NEW q \in MessageOf, NEW m \in MessageOf, NEW t,
         m.kind = "clarification_prompt", m.turn = t,
         transcript' = transcript \o <<q, m>>
  PROVE  PromptStands(t)'
<1> DEFINE n == Len(transcript)
<1>1. /\ transcript \in Seq(MessageOf) /\ n \in Nat
      /\ Len(transcript') = n + 2 /\ transcript'[n + 2] = m
  BY DEF TypeOK
<1> HIDE DEF n
<1>2. n + 2 \in 1..(n + 2) /\ (n + 2 + 1)..(n + 2) = {}
  BY <1>1
<1>3. QED BY <1>1, <1>2 DEF PromptStands

\* Steps that end a request keep the agreement.
LEMMA CalmLastSteps ==
  ASSUME TypeOK, TurnsInUse, NEW w \in Workers, CalmAt(w),
         AppendAsk(w) \/ AppendBlock(w) \/ Reply(w)
  PROVE  CalmAt(w)'
<1>a. pc'[w] = "idle" /\ loc'[w] = NoLocals
  BY LeaveType DEF AppendAsk, AppendBlock, Reply
<1>b. Held(NoLocals, "chat", "question", FALSE, NoTurn, <<>>, <<>>)
  BY Zenon, LocalsSet
<1>0. /\ pc'[w] = "idle" /\ loc'[w] = NoLocals
      /\ Held(NoLocals, "chat", "question", FALSE, NoTurn, <<>>, <<>>)
  BY <1>a, <1>b
<1> USE <1>0, FieldTypes
    DEF CalmAt, MemoryAt, CheckpointAt, RowAt, PromptAt, Late, Answering, InTurn, Recovering
<1>1. CASE AppendAsk(w)
  <2>1. PICK q, m :
          /\ q = Message("user", loc[w].kind, loc[w].turn)
          /\ m = Message("assistant", "clarification_prompt", loc[w].turn)
    OBVIOUS
  <2>2. PICK t : t = loc[w].turn
    OBVIOUS
  <2>3. /\ pc[w] = "ask" /\ transcript' = transcript \o <<q, m>> /\ awaiting' = TRUE
        /\ UNCHANGED <<cp, committed, replied>>
    BY <1>1, <2>1 DEF AppendAsk, Exchange, ghosts
  <2>4. q \in MessageOf /\ m \in MessageOf /\ m.turn = t /\ q.turn = t
        /\ q.kind = loc[w].kind /\ m.kind = "clarification_prompt"
    BY <2>1, <2>2 DEF Message, MessageOf
  <2>5. PromptStands(t)'
    BY <2>3, <2>4, PromptAppended
  <2>6. RepliesFollowPrompts'
    <3>1. q.kind = "clarification_reply" => PromptStands(q.turn)
      BY <2>2, <2>3, <2>4
    <3>2. <<q, m>> \in Seq(MessageOf) /\ Len(<<q, m>>) = 2
          /\ <<q, m>>[1] = q /\ <<q, m>>[2] = m
      BY <2>4
    <3>3. \A k \in 1..Len(<<q, m>>) : <<q, m>>[k].kind = "clarification_reply" =>
            k = 1 /\ PromptStands(<<q, m>>[k].turn)
      BY <2>4, <3>1, <3>2
    <3>4. QED BY <2>3, <3>2, <3>3, RepliesAppend
  <2>7. cp.turn = t /\ cp.next = "pause" /\ cp.by \in Workers
    BY <2>2, <2>3
  <2>8. QED BY <2>3, <2>5, <2>6, <2>7 DEF Held, PauseAgrees
<1>2. CASE AppendBlock(w)
  <2>1. PICK m : m = Message("assistant", "blocked", NoTurn)
    OBVIOUS
  <2>2. PICK t : t = cp.turn
    OBVIOUS
  <2>3. /\ pc[w] = "block" /\ transcript' = transcript \o <<m>> /\ awaiting' = loc[w].wait
        /\ UNCHANGED <<cp, committed, replied>>
    BY <1>2, <2>1 DEF AppendBlock, Exchange, ghosts
  <2>4. m \in MessageOf /\ m.kind = "blocked"
    BY <2>1 DEF Message, MessageOf
  <2>5. cp.next = "pause" => PromptStands(t)'
    BY <2>2, <2>3, <2>4, PromptBehindBlocked
  <2>6. RepliesFollowPrompts'
    <3>1. <<m>> \in Seq(MessageOf) /\ Len(<<m>>) = 1 /\ <<m>>[1] = m
      BY <2>4
    <3>2. \A k \in 1..Len(<<m>>) : <<m>>[k].kind # "clarification_reply"
      BY <2>4, <3>1
    <3>3. QED BY <2>3, <3>1, <3>2, RepliesAppend
  <2>7. QED BY <2>2, <2>3, <2>5, <2>6 DEF Held, PauseAgrees
<1>3. CASE Reply(w)
  <2>1. /\ pc[w] = "reply" /\ cp.next = "end" /\ ~awaiting
        /\ UNCHANGED <<cp, committed, transcript, awaiting>>
        /\ replied' = IF loc[w].op = "chat" THEN replied \cup {loc[w].turn} ELSE replied
    BY <1>3 DEF Reply, stored
  <2>2. Remembers(cp.hist, replied')
    <3>1. CASE loc[w].op = "chat"
      BY <2>1, <3>1
    <3>2. CASE loc[w].op # "chat"
      BY <2>1, <3>2
    <3>3. QED BY <3>1, <3>2
  <2>3. RepliesFollowPrompts'
    BY <2>1 DEF RepliesFollowPrompts
  <2>4. cp.by \in Workers
    BY <2>1
  <2>5. QED BY <2>1, <2>2, <2>3, <2>4 DEF Held, PauseAgrees
<1>4. QED BY <1>1, <1>2, <1>3

\* The commit keeps the agreement: the row, the messages and the thread row are
\* written together, and only by a request whose turn is not stored yet, unless it
\* recovers one.
LEMMA CalmCommit ==
  ASSUME TypeOK, TurnsInUse, NEW w \in Workers, CalmAt(w), CommitTurn(w)
  PROVE  CalmAt(w)'
<1> USE FieldTypes
    DEF CalmAt, MemoryAt, CheckpointAt, RowAt, PromptAt, Late, Answering, InTurn, Recovering
<1>1. PICK q, m :
        /\ q = Message("user", loc[w].kind, loc[w].turn)
        /\ m = Message("assistant", "answer", loc[w].turn)
  OBVIOUS
<1>2. PICK t : t = loc[w].turn
  OBVIOUS
<1>3. /\ pc[w] = "commit" /\ UNCHANGED <<cp, loc, replied>>
      /\ StoreTurn(t, loc[w].kind, loc[w].answer)
  BY <1>2, CommitStores DEF CommitTurn, ghosts
<1>4. pc'[w] = "reply" /\ cp.next = "end" /\ loc[w].op \in {"chat", "recover"}
  <2>1. pc'[w] = "reply"
    BY GotoType DEF CommitTurn, Steps
  <2>2. loc[w].op \in {"chat", "recover"}
    BY DEF Locals
  <2>3. QED BY <1>3, <2>1, <2>2
<1>5. /\ RepliesFollowPrompts' /\ awaiting' = FALSE
  <2>1. CASE committed[t] = "absent"
    <3>1. transcript' = transcript \o <<q, m>> /\ awaiting' = FALSE
      BY <1>1, <1>2, <1>3, <2>1 DEF StoreTurn
    <3>2. q \in MessageOf /\ m \in MessageOf /\ q.turn = t
          /\ q.kind = loc[w].kind /\ m.kind = "answer"
      BY <1>1, <1>2 DEF Message, MessageOf
    <3>3. q.kind = "clarification_reply" => PromptStands(q.turn)
      BY <1>2, <1>3, <1>4, <3>2
    <3>4. <<q, m>> \in Seq(MessageOf) /\ Len(<<q, m>>) = 2
          /\ <<q, m>>[1] = q /\ <<q, m>>[2] = m
      BY <3>2
    <3>5. \A k \in 1..Len(<<q, m>>) : <<q, m>>[k].kind = "clarification_reply" =>
            k = 1 /\ PromptStands(<<q, m>>[k].turn)
      BY <3>2, <3>3, <3>4
    <3>6. QED BY <3>1, <3>4, <3>5, RepliesAppend
  <2>2. CASE committed[t] # "absent"
    <3>1. UNCHANGED <<transcript, awaiting>>
      BY <1>3, <2>2 DEF StoreTurn
    <3>2. loc[w].op = "recover"
      BY <1>2, <1>3, <1>4, <2>2
    <3>3. awaiting = FALSE
      BY <1>3, <3>2 DEF TypeOK
    <3>4. QED BY <3>1, <3>3 DEF RepliesFollowPrompts
  <2>3. QED BY <2>1, <2>2
<1>6. MemoryAt(w)' BY <1>3, <1>4
<1>7. CheckpointAt(w)' BY <1>3, <1>4
<1>8. RowAt(w)' BY <1>3, <1>4, <1>5
<1>9. PromptAt(w)' BY <1>3, <1>4, <1>5
<1>10. QED BY <1>6, <1>7, <1>8, <1>9

-----------------------------------------------------------------------------
(* The theorem.                                                            *)

\* As long as nothing has failed, a step keeps the agreement, or is a failure.
LEMMA CalmStep ==
  ASSUME \A v, w \in Workers : v = w, TypeOK, TurnsInUse, OnlyFinishedTurnsCommitted,
         CalmInv, [Next]_vars
  PROVE  CalmInv'
<1>1. SUFFICES ASSUME faults' = 0, NEW w \in Workers PROVE CalmAt(w)'
  BY DEF CalmInv
<1>2. faults \in Nat
  BY DEF TypeOK
<1>3. ~Crash /\ \A v \in Workers : ~HandlerFails(v)
  BY <1>1, <1>2 DEF Crash, HandlerFails
<1>4. faults = 0
  <2>1. UNCHANGED faults
    BY Zenon, <1>3 DEF Next, ChatStep, Chat, ScreenInput, Dispatch, Resume, GuardStop,
       CheckQuestion, PassFinalCheck, FailFinalCheck, Probe, Recover, Audit, LogTurn,
       Start, Node, Pause, End, Remember, Reset, AppendAsk, AppendBlock, CommitTurn, Reply, vars
  <2>2. QED BY <1>1, <2>1
<1>5. CalmAt(w)
  BY <1>4 DEF CalmInv
<1>6. CASE UNCHANGED vars
  <2>1. UNCHANGED <<cp, awaiting, committed, transcript, pc, loc, replied>>
    BY <1>6 DEF vars, stored, ghosts
  <2>2. QED
    BY <1>5, <2>1 DEF CalmAt, MemoryAt, CheckpointAt, RowAt, PromptAt, Late, Answering, InTurn,
       Recovering, PauseAgrees, PromptStands, RepliesFollowPrompts
<1>7. CASE Next
  BY <1>3, <1>5, <1>7, CalmLocalSteps, CalmCheckpointSteps, CalmLastSteps, CalmCommit DEF Next, ChatStep
<1>8. QED BY <1>6, <1>7

\* A fresh thread agrees with itself.
LEMMA CalmInit == Init => CalmInv
<1> SUFFICES ASSUME Init, NEW w \in Workers PROVE CalmAt(w)
  BY DEF CalmInv
<1>1. cp = NoCheckpoint /\ transcript = <<>> /\ awaiting = FALSE /\ replied = {}
  BY Zenon DEF Init
<1>2. cp.next = "none" /\ cp.hist = <<>> /\ Len(cp.hist) = 0 /\ Len(transcript) = 0
  BY <1>1 DEF NoCheckpoint
<1>3. pc[w] = "idle"
  BY DEF Init, Idle
<1>4. RepliesFollowPrompts /\ PauseAgrees /\ Remembers(cp.hist, replied)
  BY <1>1, <1>2 DEF RepliesFollowPrompts, PauseAgrees, Remembers
<1>5. QED
  BY <1>2, <1>3, <1>4 DEF CalmAt, MemoryAt, CheckpointAt, RowAt, PromptAt, Late, Answering, InTurn, Recovering

\* With one request at a time, and as long as no handler raises and no process
\* dies, the Postgres thread row, the memory in the checkpoint and the transcript
\* agree between requests, however many there are and whatever they come to.
THEOREM CalmServiceHolds ==
  ASSUME NEW w \in Workers, \A v \in Workers : v = w
  PROVE  Spec => []CalmServiceAgrees
<1>1. CalmInv => CalmServiceAgrees
  <2> SUFFICES ASSUME CalmInv, faults = 0, Quiescent
               PROVE  PauseAgrees /\ MemoryMatchesReplies /\ RepliesFollowPrompts
    BY DEF CalmServiceAgrees
  <2>1. CalmAt(w) /\ pc[w] = "idle"
    BY DEF CalmInv, Quiescent, Idle
  <2>2. Remembers(cp.hist, replied)
    BY <2>1 DEF CalmAt, MemoryAt, Late, Answering
  <2>3. QED
    BY <2>1, <2>2 DEF CalmAt, RowAt, PromptAt, Remembers, MemoryMatchesReplies
<1>2. TypeOK /\ TurnsInUse /\ OnlyFinishedTurnsCommitted /\ CalmInv /\ [Next]_vars => CalmInv'
  BY CalmStep
<1>3. Spec => [](TypeOK /\ TurnsInUse)
  BY TypeInit, TypeStep, PTL DEF Spec
<1>4. QED BY <1>1, <1>2, <1>3, CalmInit, OnlyFinishedHolds, PTL DEF Spec

-----------------------------------------------------------------------------
(* What callers are told, one request at a time, whatever fails.           *)

\* Steps at which a request has the turn of a checkpoint that says END.
FromEnd == {"ended", "remember", "audit_answer", "log", "commit", "reply"}

\* ReplyIsDurable made inductive.  A turn that is not at END has no row.  The row
\* of one at END is missing or holds the checkpoint's answer, from which /recover
\* will word it, and a request past END has the checkpoint's turn and answer.  An
\* answer is cleared before its turn has a row, or not at all.
StoredAt(w) ==
  /\ ReplyIsDurable
  /\ cp.next = "end" => committed[cp.turn] \in {"absent", RowOf(cp.answer)}
  /\ cp.next \in {"run", "pause"} => committed[cp.turn] = "absent"
  /\ pc[w] = "resume" => cp.next = "pause"
  /\ pc[w] \in {"run", "asking"} => cp.next # "end"
  /\ pc[w] \in {"run", "ended"} => committed[loc[w].turn] = "absent"
  /\ pc[w] = "reset" /\ cp.next = "end" => committed[cp.turn] = "absent"
  /\ pc[w] \in FromEnd =>
       cp.next = "end" /\ cp.turn = loc[w].turn /\ cp.answer = loc[w].answer
  /\ pc[w] = "reply" => committed[loc[w].turn] = RowOf(loc[w].answer)

\* What a request leaves alone between its writes to checkpoint and result table.
Unheard == UNCHANGED <<cp, committed, told>>

\* Steps of a request that keep its locals, or will not look at them again.
LEMMA StoredMoves ==
  ASSUME TypeOK, NEW w \in Workers, StoredAt(w), Unheard,
         \/ /\ loc'[w] = loc[w]
            /\ \/ pc[w] = "run" /\ pc'[w] = "reset"
               \/ pc[w] = "asking" /\ pc'[w] \in {"audit_ask", "reset"}
               \/ pc[w] = "ended" /\ pc'[w] \in {"remember", "reset"}
               \/ pc[w] = "audit_answer" /\ pc'[w] = "log"
               \/ pc[w] = "log" /\ pc'[w] = "commit"
         \/ pc[w] = "dispatch" /\ pc'[w] \in {"resume", "reset"} /\ cp.next = "pause"
         \/ pc'[w] \in {"idle", "screen", "probe", "dispatch", "start", "audit_block",
                        "ask", "block"}
  PROVE  StoredAt(w)'
<1>1. ReplyIsDurable'
  BY DEF StoredAt, ReplyIsDurable, Unheard
<1>2. QED BY <1>1 DEF StoredAt, Unheard, FromEnd

\* Steps that write neither a checkpoint nor a row, and send no answer.
LEMMA StoredLocalSteps ==
  ASSUME TypeOK, TurnsInUse, NEW w \in Workers, StoredAt(w),
         \/ Chat(w) \/ ScreenInput(w) \/ Dispatch(w) \/ Resume(w)
         \/ GuardStop(w) \/ CheckQuestion(w) \/ PassFinalCheck(w)
         \/ FailFinalCheck(w) \/ Probe(w) \/ Recover(w) \/ Audit(w) \/ LogTurn(w)
         \/ AppendAsk(w) \/ AppendBlock(w) \/ HandlerFails(w)
  PROVE  StoredAt(w)'
<1>0. Unheard
  BY DEF Chat, ScreenInput, Dispatch, Resume, GuardStop, CheckQuestion, PassFinalCheck,
         FailFinalCheck, Probe, Recover, Audit, LogTurn, AppendAsk, AppendBlock, Exchange,
         HandlerFails, Unheard, stored, ghosts
<1> USE <1>0
<1>1. CASE Chat(w) \/ ScreenInput(w) \/ Probe(w)
  <2>1. pc'[w] \in {"screen", "probe", "dispatch", "audit_block"}
    BY <1>1, GotoType DEF Chat, ScreenInput, Probe, Steps
  <2>2. QED BY <2>1, StoredMoves
<1>2. CASE Dispatch(w)
  <2>1. pc[w] = "dispatch"
    BY <1>2 DEF Dispatch
  <2>2. pc'[w] = "start" \/ (pc'[w] \in {"resume", "reset"} /\ cp.next = "pause")
    BY <1>2, GotoType DEF Dispatch, Steps
  <2>3. QED BY <2>1, <2>2, StoredMoves
<1>3. CASE GuardStop(w) \/ CheckQuestion(w) \/ PassFinalCheck(w) \/ FailFinalCheck(w)
  <2>1. /\ loc'[w] = loc[w]
        /\ \/ pc[w] = "run" /\ pc'[w] = "reset"
           \/ pc[w] = "asking" /\ pc'[w] \in {"audit_ask", "reset"}
           \/ pc[w] = "ended" /\ pc'[w] \in {"remember", "reset"}
    BY Zenon, <1>3, GuardMoves
  <2>2. QED BY <2>1, StoredMoves
<1>4. CASE Audit(w) \/ LogTurn(w)
  <2>1. /\ loc'[w] = loc[w]
        /\ \/ pc[w] = "audit_ask" /\ pc'[w] = "ask"
           \/ pc[w] = "audit_block" /\ pc'[w] = "block"
           \/ pc[w] = "audit_answer" /\ pc'[w] = "log"
           \/ pc[w] = "log" /\ pc'[w] = "commit"
    BY <1>4, GotoType DEF Audit, LogTurn, Steps
  <2>2. QED BY <2>1, StoredMoves
<1>5. CASE AppendAsk(w) \/ AppendBlock(w) \/ HandlerFails(w)
  <2>1. pc'[w] = "idle"
    BY <1>5, LeaveType DEF AppendAsk, AppendBlock, HandlerFails
  <2>2. QED BY <2>1, StoredMoves
<1>6. CASE Resume(w)
  <2>1. pc[w] = "resume"
    BY <1>6 DEF Resume
  <2>2. cp.next = "pause" /\ committed[cp.turn] = "absent"
    BY <2>1 DEF StoredAt
  <2>3. pc'[w] = "run" /\ loc'[w].turn = cp.turn
    BY <1>6, <2>2, ResumeMoves DEF Held
  <2>4. ReplyIsDurable'
    BY DEF StoredAt, ReplyIsDurable, Unheard
  <2>5. QED BY <2>2, <2>3, <2>4 DEF StoredAt, Unheard, FromEnd
<1>7. CASE Recover(w)
  <2>1. pc'[w] = "log" /\ cp.next = "end"
    BY <1>7, RecoverMoves
  <2>2. loc'[w] = [NoLocals EXCEPT !.op = "recover", !.turn = cp.turn, !.answer = cp.answer]
    BY <1>7, HoldSets DEF Recover
  <2>3. loc'[w].turn = cp.turn /\ loc'[w].answer = cp.answer
    BY <2>2 DEF NoLocals
  <2>4. ReplyIsDurable'
    BY DEF StoredAt, ReplyIsDurable, Unheard
  <2>5. QED BY <2>1, <2>3, <2>4 DEF StoredAt, Unheard, FromEnd
<1>8. QED BY <1>1, <1>2, <1>3, <1>4, <1>5, <1>6, <1>7

\* Steps that write a checkpoint: a new turn has no row, and an answer is cleared
\* only while its turn has none.
LEMMA StoredCheckpointSteps ==
  ASSUME TypeOK, TurnsInUse, OnlyFinishedTurnsCommitted, NEW w \in Workers, StoredAt(w),
         \/ Start(w) \/ Node(w) \/ Pause(w) \/ End(w) \/ Remember(w) \/ Reset(w)
  PROVE  StoredAt(w)'
<1>0. UNCHANGED <<committed, told>>
  BY DEF Start, Node, Pause, End, Remember, Reset, ghosts
<1>r. ReplyIsDurable'
  BY <1>0 DEF StoredAt, ReplyIsDurable
<1> USE <1>0, <1>r DEF FromEnd
<1>1. CASE Start(w)
  <2>1. PICK t \in Turns \ used :
          /\ Hold(w, [loc[w] EXCEPT !.turn = t, !.answer = ""])
          /\ cp' = [turn |-> t, next |-> "run", answer |-> "",
                    hist |-> loc[w].hist, by |-> w]
    BY <1>1 DEF Start
  <2>2. pc'[w] = "run"
    BY <1>1, GotoType DEF Start, Steps
  <2>3. loc'[w].turn = t
    BY <2>1, HoldSets DEF TypeOK, Locals
  <2>4. cp'.turn = t /\ cp'.next = "run"
    BY <2>1
  <2>5. committed[t] = "absent"
    BY DEF TypeOK, OnlyFinishedTurnsCommitted
  <2>6. QED BY <2>2, <2>3, <2>4, <2>5 DEF StoredAt
<1>2. CASE Node(w)
  <2>1. PICK a \in Answers : /\ Hold(w, [loc[w] EXCEPT !.answer = a])
                             /\ cp' = Snapshot(w, "run", a)
    BY <1>2 DEF Node
  <2>2. pc[w] = "run" /\ pc'[w] = "run"
    BY <1>2 DEF Node
  <2>3. loc'[w].turn = loc[w].turn
    BY <2>1, HoldSets DEF TypeOK, Locals
  <2>4. cp'.turn = loc[w].turn /\ cp'.next = "run"
    BY <2>1 DEF Snapshot
  <2>5. QED BY <2>2, <2>3, <2>4 DEF StoredAt
<1>3. CASE Pause(w)
  <2>1. pc[w] = "run" /\ pc'[w] = "asking"
    BY <1>3, GotoType DEF Pause, Steps
  <2>2. cp' = cp \/ (cp'.turn = loc[w].turn /\ cp'.next = "pause")
    BY <1>3 DEF Pause, Snapshot
  <2>3. QED BY <2>1, <2>2 DEF StoredAt
<1>4. CASE End(w)
  <2>1. pc[w] = "run" /\ pc'[w] = "ended" /\ loc' = loc
    BY <1>4, GotoType DEF End, Steps
  <2>2. cp'.turn = loc[w].turn /\ cp'.next = "end" /\ cp'.answer = loc[w].answer
    BY <1>4 DEF End, Snapshot
  <2>3. QED BY <2>1, <2>2 DEF StoredAt
<1>5. CASE Remember(w)
  <2>1. pc[w] = "remember" /\ pc'[w] = "audit_answer" /\ loc' = loc
    BY <1>5, GotoType DEF Remember, Steps
  <2>2. PICK h : cp' = Updated(w, h, cp.answer)
    BY <1>5 DEF Remember
  <2>3. cp.next = "end"
    BY <2>1 DEF StoredAt
  <2>4. cp'.turn = cp.turn /\ cp'.next = "end" /\ cp'.answer = cp.answer
    BY <2>2, <2>3 DEF Updated, TypeOK, Checkpoint
  <2>5. QED BY <2>1, <2>3, <2>4 DEF StoredAt
<1>6. CASE Reset(w)
  <2>1. pc[w] = "reset" /\ pc'[w] = "probe"
    BY <1>6, GotoType DEF Reset, Steps
  <2>2. /\ cp'.turn = cp.turn
        /\ cp'.next = IF cp.next = "pause" THEN "run" ELSE cp.next
    BY <1>6 DEF Reset, Updated, TypeOK, Checkpoint
  <2>3. QED BY <2>1, <2>2 DEF StoredAt
<1>7. QED BY <1>1, <1>2, <1>3, <1>4, <1>5, <1>6

\* The commit finds no row or the very answer it would write, and the response
\* that follows says it.
LEMMA StoredCommitSteps ==
  ASSUME TypeOK, TurnsInUse, NEW w \in Workers, StoredAt(w), [Next]_vars,
         CommitTurn(w) \/ Reply(w)
  PROVE  StoredAt(w)'
<1>1. \A r \in told : r[1] \in Turns /\ committed[r[1]] # "absent" /\ r[2] \in Answers
  <2>1. \A r \in told : r[1] \in Turns /\ r[2] \in Answers
    BY DEF TypeOK
  <2>2. \A r \in told : committed[r[1]] = RowOf(r[2])
    BY DEF StoredAt, ReplyIsDurable
  <2>3. QED BY <2>1, <2>2 DEF RowOf, Answers
<1>2. \A r \in told : committed'[r[1]] = RowOf(r[2])
  BY <1>1, CommittedGrows DEF StoredAt, ReplyIsDurable
<1>3. CASE CommitTurn(w)
  <2>1. PICK t : t = loc[w].turn
    OBVIOUS
  <2>2. /\ pc[w] = "commit" /\ t \in Turns
        /\ StoreTurn(t, loc[w].kind, loc[w].answer)
    BY <1>3, <2>1, CommitStores
  <2>3. /\ cp.next = "end" /\ cp.turn = t /\ cp.answer = loc[w].answer
        /\ committed[t] \in {"absent", RowOf(loc[w].answer)}
    BY <2>1, <2>2 DEF StoredAt, FromEnd
  <2>4. committed'[t] = RowOf(loc[w].answer)
    BY <2>2, <2>3 DEF StoreTurn, TypeOK
  <2>5. pc'[w] = "reply" /\ UNCHANGED <<cp, loc, told>>
    BY <1>3, GotoType DEF CommitTurn, Steps, ghosts
  <2>6. ReplyIsDurable'
    BY <1>2, <2>5 DEF ReplyIsDurable
  <2>7. QED BY <2>1, <2>3, <2>4, <2>5, <2>6 DEF StoredAt, FromEnd
<1>4. CASE Reply(w)
  <2>1. /\ pc[w] = "reply" /\ pc'[w] = "idle" /\ UNCHANGED <<cp, committed>>
        /\ told' = told \cup {<<loc[w].turn, loc[w].answer>>}
    BY <1>4, LeaveType DEF Reply, stored
  <2>2. committed[loc[w].turn] = RowOf(loc[w].answer)
    BY <2>1 DEF StoredAt
  <2>3. ReplyIsDurable'
    BY <1>2, <2>1, <2>2 DEF ReplyIsDurable
  <2>4. QED BY <2>1, <2>3 DEF StoredAt, FromEnd
<1>5. QED BY <1>3, <1>4

\* With one request at a time a step keeps rows, checkpoint and replies in agreement.
LEMMA StoredStep ==
  ASSUME NEW w \in Workers, \A v \in Workers : v = w,
         TypeOK, TurnsInUse, OnlyFinishedTurnsCommitted, StoredAt(w), [Next]_vars
  PROVE  StoredAt(w)'
<1>1. CASE Crash
  <2>1. Unheard /\ pc'[w] = "idle"
    BY <1>1 DEF Crash, Unheard, stored, ghosts, Idle
  <2>2. QED BY <2>1, StoredMoves
<1>2. CASE UNCHANGED vars
  <2>1. UNCHANGED <<cp, committed, pc, loc, told>>
    BY <1>2 DEF vars, stored, ghosts
  <2>2. QED BY <2>1 DEF StoredAt, ReplyIsDurable
<1>3. CASE Next /\ ~Crash
  BY <1>3, StoredLocalSteps, StoredCheckpointSteps, StoredCommitSteps DEF Next, ChatStep
<1>4. QED BY <1>1, <1>2, <1>3

\* With one request at a time, and for any number of crashes, handler errors and
\* retries: what a response of /chat or /recover told of a turn is what the turn's
\* row holds from then on.
THEOREM ReplyDurableHolds ==
  ASSUME NEW w \in Workers, \A v \in Workers : v = w
  PROVE  Spec => []ReplyIsDurable
<1>1. Init => StoredAt(w)
  <2> SUFFICES ASSUME Init PROVE StoredAt(w)
    OBVIOUS
  <2>1. cp = NoCheckpoint /\ told = {}
    BY Zenon DEF Init
  <2>2. cp.next = "none" /\ pc[w] = "idle"
    <3>1. cp.next = "none"
      BY <2>1 DEF NoCheckpoint
    <3>2. pc[w] = "idle"
      BY DEF Init, Idle
    <3>3. QED BY <3>1, <3>2
  <2>3. QED BY <2>1, <2>2 DEF StoredAt, ReplyIsDurable, FromEnd
<1>2. TypeOK /\ TurnsInUse /\ OnlyFinishedTurnsCommitted /\ StoredAt(w) /\ [Next]_vars
        => StoredAt(w)'
  BY StoredStep
<1>3. Spec => [](TypeOK /\ TurnsInUse)
  BY TypeInit, TypeStep, PTL DEF Spec
<1>4. StoredAt(w) => ReplyIsDurable
  BY DEF StoredAt
<1>5. QED BY <1>1, <1>2, <1>3, <1>4, OnlyFinishedHolds, PTL DEF Spec
=============================================================================
