----------------------------- MODULE ChatService -----------------------------
(***************************************************************************)
(* One conversation thread served by the request threads of one API        *)
(* process: /chat and /recover (app/server.py), run_turn                    *)
(* (graph/runtime.py), the LangGraph checkpoint of the thread, the durable *)
(* transcript and result table in Postgres (store/state_store.py) and the  *)
(* SQLite scoring log (store/conversations.py).                            *)
(*                                                                         *)
(* A step is one access to state that outlives the request: a checkpoint,  *)
(* a Postgres transaction, a SQLite commit.  Between two steps the process *)
(* may die, the handler may raise, or another request may run.  What the   *)
(* graph computes is abstracted here (AnswerGraph models it): an answer is *)
(* "" or "draft".                                                          *)
(***************************************************************************)
EXTENDS Naturals, Sequences, FiniteSets

CONSTANTS
  Workers,     \* threads of the API process's pool
  Turns,       \* turn ids uuid4 can return
  NoTurn,      \* no turn id
  MaxCalls,    \* bound: /chat requests in a behaviour
  MaxFaults,   \* bound: process crashes and handler exceptions
  MaxRows      \* bound: scoring rows of one turn that are told apart

ASSUME NoTurnIsNoTurn == NoTurn \notin Turns
ASSUME Bounds == MaxCalls \in Nat /\ MaxFaults \in Nat /\ MaxRows \in Nat \ {0}

VARIABLES
  cp,          \* the latest checkpoint of the thread
  awaiting,    \* rag_app.threads.awaiting_clarification
  committed,   \* rag_app.turns: the answer stored for each turn id
  transcript,  \* rag_app.messages in message_seq order
  rows,        \* SQLite turns: number of rows written for each turn
  audits,      \* SQLite guardrail_checks: number of rows
  pc, loc,     \* per worker: the next step of its request, and its locals
  used,        \* turn ids handed out so far
  ended,       \* history: turns whose graph run reached END
  screened,    \* history: turns whose answer passed final_check
  replied,     \* history: turns whose answer a /chat response returned
  told,        \* history: <<turn, answer>> of each /chat and /recover response
  calls, faults

stored == <<cp, awaiting, committed, transcript, rows, audits>>
ghosts == <<used, ended, screened, replied, told>>
vars   == <<stored, pc, loc, ghosts, calls, faults>>

Answers == {"", "draft"}
Idle    == "idle"
Steps   == {Idle, "screen", "dispatch", "start", "resume", "run", "asking",
            "ended", "remember", "reset", "probe", "audit_ask",
            "audit_block", "audit_answer", "ask", "block", "log", "commit",
            "reply"}

\* next: "none" before the first turn, "run" while a node is still to run,
\* "pause" with a pending interrupt, "end" once the graph reached END.
\* by: the worker whose write this checkpoint is.
Checkpoint ==
  [turn : Turns \cup {NoTurn}, next : {"none", "run", "pause", "end"},
   answer : Answers, hist : Seq(Turns), by : Workers \cup {NoTurn}]

Locals ==
  [op : {"chat", "recover"}, kind : {"question", "clarification_reply"},
   prev : Seq(Turns), wait : BOOLEAN,
   turn : Turns \cup {NoTurn}, answer : Answers, hist : Seq(Turns)]

NoLocals == [op |-> "chat", kind |-> "question", prev |-> <<>>, wait |-> FALSE,
             turn |-> NoTurn, answer |-> "", hist |-> <<>>]

MessageOf == [role : {"user", "assistant"},
              kind : {"question", "clarification_reply",
                      "clarification_prompt", "answer", "blocked"},
              turn : Turns \cup {NoTurn}]

Message(role, kind, t) == [role |-> role, kind |-> kind, turn |-> t]

\* A thread that no request has run on.
NoCheckpoint == [turn |-> NoTurn, next |-> "none", answer |-> "",
                 hist |-> <<>>, by |-> NoTurn]

Init ==
  /\ cp = NoCheckpoint
  /\ awaiting = FALSE
  /\ committed = [t \in Turns |-> "absent"]
  /\ transcript = <<>>
  /\ rows = [t \in Turns |-> 0]
  /\ audits = 0
  /\ pc = [w \in Workers |-> Idle]
  /\ loc = [w \in Workers |-> NoLocals]
  /\ used = {} /\ ended = {} /\ screened = {} /\ replied = {} /\ told = {}
  /\ calls = 0 /\ faults = 0

-----------------------------------------------------------------------------
(* Steps of a request.                                                     *)

Goto(w, step) == pc' = [pc EXCEPT ![w] = step]

Hold(w, locals) == loc' = [loc EXCEPT ![w] = locals]

\* The request is over, whatever came of it.
Leave(w) == Goto(w, Idle) /\ Hold(w, NoLocals)

\* The checkpoint a running graph writes: the worker's own in-memory state,
\* which never looks at what another request wrote meanwhile.
Snapshot(w, next, answer) ==
  [turn |-> loc[w].turn, next |-> next, answer |-> answer,
   hist |-> loc[w].hist, by |-> w]

\* update_state: the given fields over the latest checkpoint.  A new
\* checkpoint carries no pending interrupt, so a pause becomes a plain
\* unfinished run; an END stays an END.
Updated(w, hist, answer) ==
  [cp EXCEPT !.hist = hist, !.answer = answer, !.by = w,
             !.next = IF cp.next = "pause" THEN "run" ELSE cp.next]

\* POST /chat: the thread row is read before the graph runs.
Chat(w) ==
  /\ pc[w] = Idle
  /\ calls < MaxCalls
  /\ calls' = calls + 1
  /\ Hold(w, [NoLocals EXCEPT !.kind =
                IF awaiting THEN "clarification_reply" ELSE "question"])
  /\ Goto(w, "screen")
  /\ UNCHANGED <<stored, ghosts, faults>>

\* request_check, then the memory to restore should this turn be rejected.
\* A rejected input leaves the graph alone.
ScreenInput(w) ==
  /\ pc[w] = "screen"
  /\ \/ Goto(w, "probe") /\ UNCHANGED loc
     \/ /\ Goto(w, "dispatch")
        /\ Hold(w, [loc[w] EXCEPT !.prev = cp.hist])
  /\ UNCHANGED <<stored, ghosts, calls, faults>>

\* A paused thread takes the message as the reply (unless what it stored is
\* not clean); any other starts a turn from the memory in the checkpoint.
Dispatch(w) ==
  /\ pc[w] = "dispatch"
  /\ \/ cp.next = "pause" /\ Goto(w, "resume") /\ UNCHANGED loc
     \/ cp.next = "pause" /\ Goto(w, "reset") /\ UNCHANGED loc
     \/ /\ cp.next # "pause"
        /\ Goto(w, "start")
        /\ Hold(w, [loc[w] EXCEPT !.hist = cp.hist])
  /\ UNCHANGED <<stored, ghosts, calls, faults>>

\* Mutant of Start: no turn id is made.
StartWithoutId(w) ==
  /\ pc[w] = "start"
  /\ Hold(w, [loc[w] EXCEPT !.answer = ""])
  /\ cp' = [turn |-> NoTurn, next |-> "run", answer |-> "",
            hist |-> loc[w].hist, by |-> w]
  /\ Goto(w, "run")
  /\ UNCHANGED <<awaiting, committed, transcript, rows, audits, ghosts,
                 calls, faults>>

\* invoke with fresh input: a new turn id, then begin_turn clears the answer.
Start(w) ==
  /\ pc[w] = "start"
  /\ \E t \in Turns \ used :
       /\ used' = used \cup {t}
       /\ Hold(w, [loc[w] EXCEPT !.turn = t, !.answer = ""])
       /\ cp' = [turn |-> t, next |-> "run", answer |-> "",
                 hist |-> loc[w].hist, by |-> w]
  /\ Goto(w, "run")
  /\ UNCHANGED <<awaiting, committed, transcript, rows, audits, ended,
                 screened, replied, told, calls, faults>>

\* invoke(Command(resume)): goes on from the latest checkpoint, which may no
\* longer be the one that was paused; nothing is left to run after an END.
Resume(w) ==
  /\ pc[w] = "resume"
  /\ Hold(w, [loc[w] EXCEPT !.turn = cp.turn, !.answer = cp.answer,
                            !.hist = cp.hist])
  /\ Goto(w, IF cp.next = "end" THEN "ended" ELSE "run")
  /\ UNCHANGED <<stored, ghosts, calls, faults>>

\* One node ran and was checkpointed; another is still to run.
Node(w) ==
  /\ pc[w] = "run"
  /\ \E a \in Answers :
       /\ Hold(w, [loc[w] EXCEPT !.answer = a])
       /\ cp' = Snapshot(w, "run", a)
  /\ UNCHANGED <<awaiting, committed, transcript, rows, audits, pc, ghosts,
                 calls, faults>>

\* clarify interrupts: the interrupt hangs on this run's own checkpoint and
\* is visible only while that is still the latest.
Pause(w) ==
  /\ pc[w] = "run"
  /\ cp' = IF cp.by = w THEN Snapshot(w, "pause", loc[w].answer) ELSE cp
  /\ Goto(w, "asking")
  /\ UNCHANGED <<awaiting, committed, transcript, rows, audits, loc, ghosts,
                 calls, faults>>

\* The last node ran.
End(w) ==
  /\ pc[w] = "run"
  /\ cp' = Snapshot(w, "end", loc[w].answer)
  /\ ended' = ended \cup {loc[w].turn}
  /\ Goto(w, "ended")
  /\ UNCHANGED <<awaiting, committed, transcript, rows, audits, loc, used,
                 screened, replied, told, calls, faults>>

\* A guard inside a node raises GuardrailError.
GuardStop(w) ==
  /\ pc[w] = "run"
  /\ Goto(w, "reset")
  /\ UNCHANGED <<stored, loc, ghosts, calls, faults>>

\* The generated clarification question is sanitised before it is shown.
CheckQuestion(w) ==
  /\ pc[w] = "asking"
  /\ \E step \in {"audit_ask", "reset"} : Goto(w, step)
  /\ UNCHANGED <<stored, loc, ghosts, calls, faults>>

\* final_check runs on the returned state, after END was checkpointed.
PassFinalCheck(w) ==
  /\ pc[w] = "ended"
  /\ loc[w].answer # ""
  /\ screened' = screened \cup {loc[w].turn}
  /\ Goto(w, "remember")
  /\ UNCHANGED <<stored, loc, used, ended, replied, told, calls, faults>>

\* Mutant of FailFinalCheck: the rejected turn is remembered all the same.
FailFinalCheckRemembered(w) ==
  /\ pc[w] = "ended"
  /\ Goto(w, "remember")
  /\ UNCHANGED <<stored, loc, ghosts, calls, faults>>

FailFinalCheck(w) ==
  /\ pc[w] = "ended"
  /\ Goto(w, "reset")
  /\ UNCHANGED <<stored, loc, ghosts, calls, faults>>

\* Mutant of Remember: the answer is cleared with the memory, as Reset does.
RememberCleared(w) ==
  /\ pc[w] = "remember"
  /\ cp' = Updated(w, Append(loc[w].hist, loc[w].turn), "")
  /\ Goto(w, "audit_answer")
  /\ UNCHANGED <<awaiting, committed, transcript, rows, audits, loc, ghosts,
                 calls, faults>>

\* The answered turn joins the conversation memory.
Remember(w) ==
  /\ pc[w] = "remember"
  /\ cp' = Updated(w, Append(loc[w].hist, loc[w].turn), cp.answer)
  /\ Goto(w, "audit_answer")
  /\ UNCHANGED <<awaiting, committed, transcript, rows, audits, loc, ghosts,
                 calls, faults>>

\* A rejected turn: the memory is what it was before, the answer is cleared.
Reset(w) ==
  /\ pc[w] = "reset"
  /\ cp' = Updated(w, loc[w].prev, "")
  /\ Goto(w, "probe")
  /\ UNCHANGED <<awaiting, committed, transcript, rows, audits, loc, ghosts,
                 calls, faults>>

\* _is_paused, for the blocked response.
Probe(w) ==
  /\ pc[w] = "probe"
  /\ Hold(w, [loc[w] EXCEPT !.wait = (cp.next = "pause")])
  /\ Goto(w, "audit_block")
  /\ UNCHANGED <<stored, ghosts, calls, faults>>

\* record_guards, whatever the outcome of the turn.
Audit(w) ==
  /\ \/ pc[w] = "audit_ask"    /\ Goto(w, "ask")
     \/ pc[w] = "audit_block"  /\ Goto(w, "block")
     \/ pc[w] = "audit_answer" /\ Goto(w, "log")
  /\ audits' = audits + 1
  /\ UNCHANGED <<cp, awaiting, committed, transcript, rows, loc, ghosts,
                 calls, faults>>

-----------------------------------------------------------------------------
(* Durable effects.                                                        *)

\* append_exchange: the messages and the thread row, in one transaction.
Exchange(messages, wait) ==
  /\ transcript' = transcript \o messages
  /\ awaiting' = wait
  /\ UNCHANGED <<cp, committed, rows, audits>>

AppendAsk(w) ==
  /\ pc[w] = "ask"
  /\ Exchange(<<Message("user", loc[w].kind, loc[w].turn),
                Message("assistant", "clarification_prompt", loc[w].turn)>>,
              TRUE)
  /\ Leave(w)
  /\ UNCHANGED <<ghosts, calls, faults>>

\* Mutant of AppendBlock: a blocked message ends the wait for a reply.
AppendBlockAnswered(w) ==
  /\ pc[w] = "block"
  /\ Exchange(<<Message("assistant", "blocked", NoTurn)>>, FALSE)
  /\ Leave(w)
  /\ UNCHANGED <<ghosts, calls, faults>>

AppendBlock(w) ==
  /\ pc[w] = "block"
  /\ Exchange(<<Message("assistant", "blocked", NoTurn)>>, loc[w].wait)
  /\ Leave(w)
  /\ UNCHANGED <<ghosts, calls, faults>>

\* record_turn: a new row under a new key each time it is called.
LogTurn(w) ==
  /\ pc[w] = "log"
  /\ rows' = [rows EXCEPT ![loc[w].turn] =
                IF @ < MaxRows THEN @ + 1 ELSE @]
  /\ Goto(w, "commit")
  /\ UNCHANGED <<cp, awaiting, committed, transcript, audits, loc, ghosts,
                 calls, faults>>

\* What the row of a turn keeps of its answer, masked as every stored text is.
RowOf(answer) == IF answer = "" THEN "blank" ELSE answer

\* Mutant of StoreTurn: DO UPDATE for DO NOTHING, the messages every time.
StoreTurnAgain(t, kind, answer) ==
  /\ committed' = [committed EXCEPT ![t] = RowOf(answer)]
  /\ transcript' = transcript \o <<Message("user", kind, t),
                                   Message("assistant", "answer", t)>>
  /\ awaiting' = FALSE

\* commit_turn: INSERT .. ON CONFLICT (turn_id) DO NOTHING, and the messages
\* and the thread row only when the insert took place.
StoreTurn(t, kind, answer) ==
  IF committed[t] = "absent"
  THEN /\ committed' = [committed EXCEPT ![t] = RowOf(answer)]
       /\ transcript' = transcript \o <<Message("user", kind, t),
                                        Message("assistant", "answer", t)>>
       /\ awaiting' = FALSE
  ELSE UNCHANGED <<committed, transcript, awaiting>>

\* Only a state with a turn id is committed.
CommitTurn(w) ==
  /\ pc[w] = "commit"
  /\ IF loc[w].turn # NoTurn
     THEN StoreTurn(loc[w].turn, loc[w].kind, loc[w].answer)
     ELSE UNCHANGED <<committed, transcript, awaiting>>
  /\ Goto(w, "reply")
  /\ UNCHANGED <<cp, rows, audits, loc, ghosts, calls, faults>>

\* The response: its text is the request's own, made before the commit, not
\* what the row may have held already.
Reply(w) ==
  /\ pc[w] = "reply"
  /\ told' = told \cup {<<loc[w].turn, loc[w].answer>>}
  /\ replied' = IF loc[w].op = "chat" THEN replied \cup {loc[w].turn}
                ELSE replied
  /\ Leave(w)
  /\ UNCHANGED <<stored, used, ended, screened, calls, faults>>

\* Mutant of Recoverable: a dead run is taken for a completed turn.
RecoverableUnlessPaused == cp.next # "pause" /\ cp.turn # NoTurn

\* Mutant of Recoverable: only a turn that is already in the memory.
RecoverableIfRemembered ==
  /\ cp.next = "end"
  /\ \E i \in 1..Len(cp.hist) : cp.hist[i] = cp.turn

\* What /recover takes for a completed turn: no pending interrupt, a turn id,
\* and nothing left to run.
Recoverable == cp.next \notin {"pause", "run"} /\ cp.turn # NoTurn

\* GET /recover: only a checkpoint that looks complete leads to a commit.
Recover(w) ==
  /\ pc[w] = Idle
  /\ Recoverable
  /\ Hold(w, [NoLocals EXCEPT !.op = "recover", !.turn = cp.turn,
                              !.answer = cp.answer])
  /\ Goto(w, "log")
  /\ UNCHANGED <<stored, ghosts, calls, faults>>

-----------------------------------------------------------------------------
(* Failures.                                                               *)

\* An exception the handler does not catch: a provider, Qdrant, Postgres or
\* SQLite error.  What was stored stays stored.
HandlerFails(w) ==
  /\ pc[w] # Idle
  /\ faults < MaxFaults
  /\ faults' = faults + 1
  /\ Leave(w)
  /\ UNCHANGED <<stored, ghosts, calls>>

\* kill -9: every request in flight is gone.
Crash ==
  /\ \E w \in Workers : pc[w] # Idle
  /\ faults < MaxFaults
  /\ faults' = faults + 1
  /\ pc' = [w \in Workers |-> Idle]
  /\ loc' = [w \in Workers |-> NoLocals]
  /\ UNCHANGED <<stored, ghosts, calls>>

ChatStep(w) ==
  \/ ScreenInput(w) \/ Dispatch(w) \/ Start(w) \/ Resume(w)
  \/ Pause(w) \/ End(w) \/ GuardStop(w) \/ CheckQuestion(w)
  \/ PassFinalCheck(w) \/ FailFinalCheck(w) \/ Remember(w) \/ Reset(w)
  \/ Probe(w) \/ Audit(w) \/ AppendAsk(w) \/ AppendBlock(w)
  \/ LogTurn(w) \/ CommitTurn(w) \/ Reply(w)

Next ==
  \/ \E w \in Workers :
       Chat(w) \/ Recover(w) \/ Node(w) \/ ChatStep(w) \/ HandlerFails(w)
  \/ Crash

Spec == Init /\ [][Next]_vars

\* A request in flight goes on, a graph run ends (AnswerGraph shows that it
\* does: End, not Node, is among the fair steps), and a caller who was told
\* nothing keeps asking /recover.
FairSpec ==
  /\ Spec
  /\ \A w \in Workers : WF_vars(ChatStep(w)) /\ WF_vars(Recover(w))

-----------------------------------------------------------------------------
(* Properties.                                                             *)

\* Every variable holds what the code can store in it.
TypeOK ==
  /\ cp \in Checkpoint
  /\ awaiting \in BOOLEAN
  /\ committed \in [Turns -> {"absent", "blank", "draft"}]
  /\ transcript \in Seq(MessageOf)
  /\ rows \in [Turns -> 0..MaxRows]
  /\ audits \in Nat
  /\ pc \in [Workers -> Steps]
  /\ loc \in [Workers -> Locals]
  /\ used \subseteq Turns /\ ended \subseteq used
  /\ screened \subseteq used /\ replied \subseteq used
  /\ told \subseteq used \X Answers
  /\ calls \in 0..MaxCalls /\ faults \in 0..MaxFaults

IsAnswer(i, t) == transcript[i].kind = "answer" /\ transcript[i].turn = t

\* commit_turn's promise (state_store.py:260, "exactly once"), under crashes,
\* retries and concurrent requests: a turn has an answer in the transcript
\* exactly when its result row exists, never two, and the user message of the
\* same exchange stands right before it.
ExactlyOnce ==
  /\ \A t \in Turns :
       committed[t] # "absent" <=> \E i \in 1..Len(transcript) : IsAnswer(i, t)
  /\ \A t \in Turns : \A i, j \in 1..Len(transcript) :
       IsAnswer(i, t) /\ IsAnswer(j, t) => i = j
  /\ \A t \in Turns : \A i \in 1..Len(transcript) :
       IsAnswer(i, t) =>
         /\ i > 1
         /\ transcript[i - 1].role = "user" /\ transcript[i - 1].turn = t

\* Conversation memory only ever holds turns whose answer passed the output
\* guard (runtime.py:106, a rejected turn does not change what a follow-up
\* sees), also in the copies a request in flight may still write back.
MemoryWasScreened ==
  LET Clean(h) == \A i \in 1..Len(h) : h[i] \in screened
  IN  Clean(cp.hist) /\ \A w \in Workers : Clean(loc[w].hist) /\ Clean(loc[w].prev)

\* Neither /chat nor /recover commits a turn whose graph run has not reached
\* END (server.py:356-365, the kill -9 that once committed an empty answer).
OnlyFinishedTurnsCommitted ==
  \A t \in Turns : committed[t] # "absent" => t \in ended

\* "Durably commit the turn, idempotent by turn_id" (server.py:293-294), seen by
\* the caller: what a response of /chat, of /recover after a crash, and of every
\* /recover after that told of a turn is what its row holds for good (masked).  The row is
\* written once, by whichever comes first, and each response words the answer anew:
\* /chat from the state the graph returned, /recover from the checkpoint.  One
\* request at a time: two of them on one thread can part the two (README, section 3).
ReplyIsDurable == \A r \in told : committed[r[1]] = RowOf(r[2])

Quiescent == \A w \in Workers : pc[w] = Idle

\* The thread row and the checkpoint say the same of a pending clarification.
PauseAgrees == awaiting <=> cp.next = "pause"

\* The memory of the next question is the answered turns, each once.
MemoryMatchesReplies ==
  /\ {cp.hist[i] : i \in 1..Len(cp.hist)} = replied
  /\ \A i, j \in 1..Len(cp.hist) : cp.hist[i] = cp.hist[j] => i = j

\* A clarification reply follows the prompt it answers, with nothing but rejected
\* inputs between them.
RepliesFollowPrompts ==
  \A i \in 1..Len(transcript) :
    transcript[i].kind = "clarification_reply" =>
      \E j \in 1..(i - 1) :
        /\ transcript[j].kind = "clarification_prompt"
        /\ transcript[j].turn = transcript[i].turn
        /\ \A k \in (j + 1)..(i - 1) : transcript[k].kind = "blocked"

\* As long as nothing failed, and with one request at a time, the three records of
\* a conversation agree between requests, although no transaction spans them: the
\* Postgres thread row, the memory in the LangGraph checkpoint, and the transcript.
CalmServiceAgrees ==
  faults = 0 /\ Quiescent => PauseAgrees /\ MemoryMatchesReplies /\ RepliesFollowPrompts

\* A turn the graph finished and nobody rejected is committed as long as
\* somebody keeps calling /recover and no newer turn takes its checkpoint.
RecoverySucceeds ==
  \A t \in Turns :
    (cp.next = "end" /\ cp.turn = t /\ cp.answer # "")
      ~> (committed[t] # "absent" \/ cp.turn # t \/ cp.answer = "")

\* The service implements the ledger of TurnLedger: every step is one turn's
\* first and only commit, or changes neither results nor answers.
Ledger == INSTANCE TurnLedger WITH
            result <- committed,
            place  <- [t \in Turns |-> {i \in 1..Len(transcript) : IsAnswer(i, t)}]

LedgerSpec == Ledger!Spec

(***************************************************************************)
(* What the repository says of itself and the code does not keep.          *)
(***************************************************************************)

\* server.py:351-353: recovery must not "release an unreviewed draft", and 359-365:
\* an empty snapshot.next cannot mistake "an empty, never-generated answer" for a
\* completed turn.  END is checkpointed before final_check has seen the answer, and a
\* turn whose answer it rejected stays at END with the answer cleared.
OnlyScreenedAnswersCommitted ==
  \A t \in Turns : committed[t] # "absent" => t \in screened
=============================================================================
