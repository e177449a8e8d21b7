------------------------- MODULE IndexReleaseProofs --------------------------
(***************************************************************************)
(* Proofs about IndexRelease for any builds, operators and numbers of      *)
(* operations and faults.                                                  *)
(***************************************************************************)
EXTENDS IndexRelease, TLAPS

Building  == {"mkdir", "open", "write", "create", "upsert"}
Releasing == {"prior", "validate", "gate", "intent"}
Journaled == {"swap", "verify", "completed", "unknown_outcome", "look", "settle"}

Whole(b) == dir[b] = "complete" /\ coll[b] = "full"

\* A step of operator o: the disjuncts of Next but SwapLate.
Move(o) ==
  \/ Prepare(o) \/ MakeDir(o) \/ OpenManifest(o) \/ WriteManifest(o)
  \/ Install(o) \/ CreateCollection(o) \/ UpsertLast(o)
  \/ Release(o) \/ Lock(o) \/ ReadPrior(o) \/ Validate(o) \/ Gate(o)
  \/ WriteIntent(o) \/ Swap(o) \/ SwapRaises(o) \/ Verify(o) \/ Conclude(o)
  \/ Reconcile(o) \/ Look(o) \/ Settle(o) \/ Die(o)

\* What an operator's command is, where it stands: a build it can name, and
\* an operation that the journal has.
Meant(o) ==
  /\ pc[o] \in Building \cup Releasing => cmd[o].build \in Builds
  /\ pc[o] \in Releasing => cmd[o].kind \in Kinds
  /\ pc[o] = "lock" =>
       IF cmd[o].kind = "reconcile" THEN cmd[o].op \in DOMAIN journal
       ELSE cmd[o].kind \in Kinds /\ cmd[o].build \in Builds
  /\ pc[o] \in Journaled => cmd[o].op \in DOMAIN journal
  /\ pc[o] = "settle" => cmd[o].verdict \in {"completed", "not_applied"}

\* A step is one operator's, or a swap's that was cut off.
LEMMA NextMoves == Next <=> (\E o \in Operators : Move(o)) \/ SwapLate
  BY Zenon DEF Next, Move

-----------------------------------------------------------------------------
(* What the operators a step is built from do to pc, cmd and lock.         *)

\* An operator that moves keeps to the steps and moves no other.
LEMMA GotoMoves ==
  ASSUME TypeOK, NEW o \in Operators, NEW s \in Steps, Goto(o, s)
  PROVE  /\ pc' \in [Operators -> Steps] /\ pc'[o] = s
         /\ \A v \in Operators : v # o => pc'[v] = pc[v]
  BY DEF Goto, TypeOK

\* An operator with a new command keeps to the commands and leaves the others.
LEMMA AskMoves ==
  ASSUME TypeOK, NEW o \in Operators, NEW c \in Command, NEW s \in Steps,
         Ask(o, c, s)
  PROVE  /\ pc' \in [Operators -> Steps] /\ pc'[o] = s
         /\ cmd' \in [Operators -> Command] /\ cmd'[o] = c
         /\ \A v \in Operators : v # o => pc'[v] = pc[v] /\ cmd'[v] = cmd[v]
<1>1. /\ pc' \in [Operators -> Steps] /\ pc'[o] = s
      /\ \A v \in Operators : v # o => pc'[v] = pc[v]
  BY GotoMoves DEF Ask
<1>2. /\ cmd' \in [Operators -> Command] /\ cmd'[o] = c
      /\ \A v \in Operators : v # o => cmd'[v] = cmd[v]
  BY DEF Ask, TypeOK
<1>3. QED BY <1>1, <1>2

\* The command of an idle operator is a command.
LEMMA NoCommandType == NoCommand \in Command
  BY ReleaseBounds DEF NoCommand, Command, Targets, Kinds

\* An operator that is done is idle and holds no lock; the others go on.
LEMMA LeaveMoves ==
  ASSUME TypeOK, NEW o \in Operators, Leave(o)
  PROVE  /\ pc' \in [Operators -> Steps] /\ pc'[o] = "idle"
         /\ cmd' \in [Operators -> Command] /\ cmd'[o] = NoCommand
         /\ \A v \in Operators : v # o => pc'[v] = pc[v] /\ cmd'[v] = cmd[v]
         /\ lock' = IF lock = o THEN NoOperator ELSE lock
<1>1. "idle" \in Steps
  BY DEF Steps
<1>2. QED BY <1>1, NoCommandType DEF Leave, TypeOK

\* The lock stays with whoever is inside it: a step inside or outside, a step
\* that ends the command, and the step that takes it.
LEMMA LockFollows ==
  ASSUME TypeOK, NEW o \in Operators, NEW s \in Steps, pc'[o] = s,
         \A v \in Operators : v # o => pc'[v] = pc[v],
         \/ lock' = lock /\ (s \in Locked <=> pc[o] \in Locked)
         \/ lock' = (IF lock = o THEN NoOperator ELSE lock) /\ s = "idle"
         \/ lock = NoOperator /\ lock' = o /\ s \in Locked
  PROVE  /\ \A v \in Operators : lock' = v <=> pc'[v] \in Locked
         /\ lock' \in Operators \cup {NoOperator}
  BY NoOperatorIsNone, SMTT(20) DEF TypeOK, Locked

\* The types of the fields of a command and of a journal entry.
LEMMA CommandFields ==
  ASSUME TypeOK, NEW o \in Operators
  PROVE  /\ cmd[o] \in Command /\ cmd[o].build \in Targets
         /\ cmd[o].prior \in Targets /\ cmd[o].report \in Targets
         /\ cmd[o].expected \in Targets
  BY DEF TypeOK, Command

LEMMA EntryFields ==
  ASSUME TypeOK, NEW op \in DOMAIN journal
  PROVE  /\ journal[op] \in Entry /\ journal[op].to \in Builds
         /\ journal[op].from \in Targets /\ journal[op].report \in Targets
         /\ op \in 1..Len(journal) /\ op \in 0..MaxOps
<1>1. journal \in Seq(Entry) /\ Len(journal) <= MaxOps
  BY DEF TypeOK
<1>2. journal[op] \in Entry /\ op \in 1..Len(journal)
  BY <1>1
<1>3. QED BY <1>1, <1>2, ReleaseBounds DEF Entry

\* A step of o that keeps the types of what it writes keeps the types.
LEMMA TypeMove ==
  ASSUME TypeOK, NEW o \in Operators, NEW s \in Steps,
         pc' \in [Operators -> Steps], pc'[o] = s,
         \A v \in Operators : v # o => pc'[v] = pc[v],
         cmd' \in [Operators -> Command],
         \/ lock' = lock /\ (s \in Locked <=> pc[o] \in Locked)
         \/ lock' = (IF lock = o THEN NoOperator ELSE lock) /\ s = "idle"
         \/ lock = NoOperator /\ lock' = o /\ s \in Locked,
         dir' \in [Builds -> {"none", "made", "torn", "complete"}],
         coll' \in [Builds -> {"none", "partial", "full"}],
         alias' \in Targets, journal' \in Seq(Entry), Len(journal') <= MaxOps,
         applied' \subseteq DOMAIN journal', late' \subseteq DOMAIN journal',
         served' \subseteq Builds, faults' \in 0..MaxFaults
  PROVE  TypeOK'
<1>1. /\ \A v \in Operators : lock' = v <=> pc'[v] \in Locked
      /\ lock' \in Operators \cup {NoOperator}
  BY LockFollows
<1>2. QED BY <1>1 DEF TypeOK

\* What the commands of the others mean is kept while the journal only grows.
LEMMA MeantMove ==
  ASSUME NEW o \in Operators, \A v \in Operators : Meant(v), Meant(o)',
         \A v \in Operators : v # o => pc'[v] = pc[v] /\ cmd'[v] = cmd[v],
         DOMAIN journal \subseteq DOMAIN journal'
  PROVE  \A v \in Operators : Meant(v)'
<1>1. SUFFICES ASSUME NEW v \in Operators, v # o PROVE Meant(v)'
  OBVIOUS
<1>2. Meant(v) /\ pc'[v] = pc[v] /\ cmd'[v] = cmd[v]
  BY <1>1
<1>3. QED BY <1>2 DEF Meant

Typed == TypeOK /\ \A o \in Operators : Meant(o)

\* A step that moves o inside or outside the lock and leaves the rest of the
\* world, and the end of a command, keep the types.
LEMMA MoveTyped ==
  ASSUME Typed, NEW o \in Operators, NEW c \in Command, NEW s \in Steps,
         \/ Ask(o, c, s) /\ lock' = lock /\ (s \in Locked <=> pc[o] \in Locked)
         \/ Ask(o, c, s) /\ lock = NoOperator /\ lock' = o /\ s \in Locked
         \/ Leave(o) /\ s = "idle" /\ c = NoCommand,
         Meant(o)',
         dir' \in [Builds -> {"none", "made", "torn", "complete"}],
         coll' \in [Builds -> {"none", "partial", "full"}],
         alias' \in Targets, journal' \in Seq(Entry), Len(journal') <= MaxOps,
         DOMAIN journal \subseteq DOMAIN journal',
         applied' \subseteq DOMAIN journal', late' \subseteq DOMAIN journal',
         served' \subseteq Builds, faults' \in 0..MaxFaults
  PROVE  Typed'
<1>1. TypeOK /\ \A v \in Operators : Meant(v)
  BY DEF Typed
<1>2. /\ pc' \in [Operators -> Steps] /\ pc'[o] = s
      /\ cmd' \in [Operators -> Command] /\ cmd'[o] = c
      /\ \A v \in Operators : v # o => pc'[v] = pc[v] /\ cmd'[v] = cmd[v]
  BY <1>1, AskMoves, LeaveMoves
<1>3. \/ lock' = lock /\ (s \in Locked <=> pc[o] \in Locked)
      \/ lock' = (IF lock = o THEN NoOperator ELSE lock) /\ s = "idle"
      \/ lock = NoOperator /\ lock' = o /\ s \in Locked
  BY DEF Leave
<1>4. TypeOK'
  BY <1>1, <1>2, <1>3, TypeMove
<1>5. \A v \in Operators : Meant(v)'
  BY <1>1, <1>2, MeantMove
<1>6. QED BY <1>4, <1>5 DEF Typed

\* The end of a command, which always keeps the types.
LEMMA LeaveTyped ==
  ASSUME Typed, NEW o \in Operators, Leave(o),
         dir' \in [Builds -> {"none", "made", "torn", "complete"}],
         coll' \in [Builds -> {"none", "partial", "full"}],
         alias' \in Targets, journal' \in Seq(Entry), Len(journal') <= MaxOps,
         DOMAIN journal \subseteq DOMAIN journal',
         applied' \subseteq DOMAIN journal', late' \subseteq DOMAIN journal',
         served' \subseteq Builds, faults' \in 0..MaxFaults
  PROVE  Typed'
<1>1. pc'[o] = "idle"
  BY LeaveMoves DEF Typed
<1>2. Meant(o)'
  BY <1>1 DEF Meant, Building, Releasing, Journaled
<1>3. "idle" \in Steps
  BY DEF Steps
<1>4. QED BY <1>2, <1>3, NoCommandType, MoveTyped

\* Goto is Ask with the command as it is.
LEMMA GotoAsks ==
  ASSUME Typed, NEW o \in Operators, NEW s, Goto(o, s), UNCHANGED cmd
  PROVE  Ask(o, cmd[o], s) /\ cmd[o] \in Command
  BY DEF Typed, TypeOK, Ask

\* What the types say of the world, for a step that leaves a part of it alone.
LEMMA WorldTypes ==
  ASSUME TypeOK
  PROVE  /\ dir \in [Builds -> {"none", "made", "torn", "complete"}]
         /\ coll \in [Builds -> {"none", "partial", "full"}]
         /\ alias \in Targets /\ journal \in Seq(Entry) /\ Len(journal) <= MaxOps
         /\ applied \subseteq DOMAIN journal /\ late \subseteq DOMAIN journal
         /\ served \subseteq Builds /\ faults \in 0..MaxFaults
  BY DEF TypeOK

-----------------------------------------------------------------------------
(* Types.                                                                  *)

\* Building keeps the types: prepare_build and install_candidate.
LEMMA BuildTyped ==
  ASSUME Typed, NEW o \in Operators,
         \/ Prepare(o) \/ MakeDir(o) \/ OpenManifest(o) \/ WriteManifest(o)
         \/ Install(o) \/ CreateCollection(o) \/ UpsertLast(o)
  PROVE  Typed'
<1>1. TypeOK /\ Meant(o)
  BY DEF Typed
<1>2. /\ cmd[o] \in Command
      /\ pc[o] \in {"mkdir", "open", "write", "create", "upsert"} => cmd[o].build \in Builds
  BY <1>1 DEF TypeOK, Meant, Building
<1>3. CASE Prepare(o)
  <2>1. PICK b \in Builds : Ask(o, [NoCommand EXCEPT !.build = b], "mkdir")
    BY <1>3 DEF Prepare
  <2>2. [NoCommand EXCEPT !.build = b] \in Command
    BY NoCommandType DEF Command, Targets
  <2>3. [NoCommand EXCEPT !.build = b].build \in Builds
    BY DEF NoCommand
  <2>4. /\ "mkdir" \in Steps /\ "mkdir" \notin Locked /\ pc[o] \notin Locked
        /\ UNCHANGED <<world, applied, late, served, faults>>
    BY <1>3 DEF Prepare, Steps, Locked
  <2>5. pc'[o] = "mkdir" /\ cmd'[o].build \in Builds
    BY <1>1, <2>1, <2>2, <2>3, <2>4, AskMoves
  <2>6. Meant(o)'
    BY <2>5 DEF Meant, Building, Releasing, Journaled
  <2>7. QED BY <1>1, <2>1, <2>2, <2>4, <2>6, MoveTyped, WorldTypes DEF world
<1>4. CASE Install(o)
  <2>1. PICK b \in Builds :
          Ask(o, [NoCommand EXCEPT !.kind = "install", !.build = b], "create")
    BY <1>4 DEF Install
  <2>2. [NoCommand EXCEPT !.kind = "install", !.build = b] \in Command
    BY NoCommandType DEF Command, Targets
  <2>3. [NoCommand EXCEPT !.kind = "install", !.build = b].build \in Builds
    BY DEF NoCommand
  <2>4. /\ "create" \in Steps /\ "create" \notin Locked /\ pc[o] \notin Locked
        /\ UNCHANGED <<world, applied, late, served, faults>>
    BY <1>4 DEF Install, Steps, Locked
  <2>5. pc'[o] = "create" /\ cmd'[o].build \in Builds
    BY <1>1, <2>1, <2>2, <2>3, <2>4, AskMoves
  <2>6. Meant(o)'
    BY <2>5 DEF Meant, Building, Releasing, Journaled
  <2>7. QED BY <1>1, <2>1, <2>2, <2>4, <2>6, MoveTyped, WorldTypes DEF world
<1>5. CASE MakeDir(o)
  <2>1. /\ pc[o] = "mkdir" /\ UNCHANGED <<coll, alias, journal, applied, late, served, faults>>
        /\ dir' \in [Builds -> {"none", "made", "torn", "complete"}]
    BY <1>1, <1>2, <1>5 DEF MakeDir, TypeOK
  <2>2. CASE Leave(o)
    BY <1>1, <2>1, <2>2, LeaveTyped, WorldTypes
  <2>3. CASE Goto(o, "open") /\ UNCHANGED <<cmd, lock>>
    <3>1. /\ "open" \in Steps /\ "open" \notin Locked /\ pc[o] \notin Locked
      BY <2>1 DEF Steps, Locked
    <3>2. pc'[o] = "open" /\ cmd'[o].build \in Builds
      BY <1>1, <1>2, <2>1, <2>3, <3>1, GotoMoves
    <3>3. Meant(o)'
      BY <3>2 DEF Meant, Building, Releasing, Journaled
    <3>4. QED BY <1>1, <2>1, <2>3, <3>1, <3>3, GotoAsks, MoveTyped, WorldTypes
  <2>4. QED BY <1>5, <2>2, <2>3 DEF MakeDir
<1>6. CASE OpenManifest(o)
  <2>1. /\ pc[o] = "open" /\ UNCHANGED <<coll, alias, journal, lock, cmd, applied, late, served, faults>>
        /\ dir' \in [Builds -> {"none", "made", "torn", "complete"}]
        /\ Goto(o, "write")
    BY <1>1, <1>2, <1>6 DEF OpenManifest, TypeOK
  <2>2. /\ "write" \in Steps /\ "write" \notin Locked /\ pc[o] \notin Locked
    BY <2>1 DEF Steps, Locked
  <2>3. pc'[o] = "write" /\ cmd'[o].build \in Builds
    BY <1>1, <1>2, <2>1, <2>2, GotoMoves
  <2>4. Meant(o)'
    BY <2>3 DEF Meant, Building, Releasing, Journaled
  <2>5. QED BY <1>1, <2>1, <2>2, <2>4, GotoAsks, MoveTyped, WorldTypes
<1>7. CASE CreateCollection(o)
  <2>1. /\ pc[o] = "create" /\ UNCHANGED <<dir, alias, journal, applied, late, served, faults>>
        /\ coll' \in [Builds -> {"none", "partial", "full"}]
    BY <1>1, <1>2, <1>7 DEF CreateCollection, TypeOK
  <2>2. CASE Leave(o)
    BY <1>1, <2>1, <2>2, LeaveTyped, WorldTypes
  <2>3. CASE Goto(o, "upsert") /\ UNCHANGED <<cmd, lock>>
    <3>1. /\ "upsert" \in Steps /\ "upsert" \notin Locked /\ pc[o] \notin Locked
      BY <2>1 DEF Steps, Locked
    <3>2. pc'[o] = "upsert" /\ cmd'[o].build \in Builds
      BY <1>1, <1>2, <2>1, <2>3, <3>1, GotoMoves
    <3>3. Meant(o)'
      BY <3>2 DEF Meant, Building, Releasing, Journaled
    <3>4. QED BY <1>1, <2>1, <2>3, <3>1, <3>3, GotoAsks, MoveTyped, WorldTypes
  <2>4. QED BY <1>7, <2>2, <2>3 DEF CreateCollection
<1>8. CASE WriteManifest(o)
  <2>1. dir' \in [Builds -> {"none", "made", "torn", "complete"}]
    BY <1>1, <1>8 DEF WriteManifest, TypeOK
  <2>2. Leave(o) /\ UNCHANGED <<coll, alias, journal, applied, late, served, faults>>
    BY <1>8 DEF WriteManifest
  <2>3. QED BY <1>1, <2>1, <2>2, LeaveTyped, WorldTypes
<1>9. CASE UpsertLast(o)
  <2>1. coll' \in [Builds -> {"none", "partial", "full"}]
    BY <1>1, <1>9 DEF UpsertLast, TypeOK
  <2>2. Leave(o) /\ UNCHANGED <<dir, alias, journal, applied, late, served, faults>>
    BY <1>9 DEF UpsertLast
  <2>3. QED BY <1>1, <2>1, <2>2, LeaveTyped, WorldTypes
<1>10. QED BY <1>3, <1>4, <1>5, <1>6, <1>7, <1>8, <1>9

\* A release up to its gate keeps the types.
LEMMA AskReleaseTyped ==
  ASSUME Typed, NEW o \in Operators,
         Release(o) \/ Lock(o) \/ ReadPrior(o) \/ Validate(o) \/ Gate(o)
  PROVE  Typed'
<1>1. TypeOK /\ Meant(o)
  BY DEF Typed
<1>2. /\ cmd[o] \in Command
      /\ pc[o] \in {"prior", "validate", "gate"} =>
           cmd[o].kind \in Kinds /\ cmd[o].build \in Builds
  BY <1>1 DEF TypeOK, Meant, Releasing
<1>3. CASE Release(o)
  <2>1. PICK kind \in Kinds, b \in Builds, expected \in Targets, report \in Builds :
          Ask(o, [NoCommand EXCEPT !.kind = kind, !.build = b, !.expected = expected,
                   !.report = IF kind = "promotion" THEN report ELSE NoBuild], "lock")
    BY <1>3 DEF Release
  <2> DEFINE c == [NoCommand EXCEPT !.kind = kind, !.build = b, !.expected = expected,
                     !.report = IF kind = "promotion" THEN report ELSE NoBuild]
  <2>2. c \in Command /\ c.kind = kind /\ c.build = b
    BY NoCommandType DEF Command, Targets, NoCommand
  <2>3. /\ "lock" \in Steps /\ "lock" \notin Locked /\ pc[o] \notin Locked
        /\ UNCHANGED <<world, applied, late, served, faults>>
    BY <1>3 DEF Release, Steps, Locked
  <2>4. Ask(o, c, "lock")
    BY <2>1
  <2> HIDE DEF c
  <2>5. pc'[o] = "lock" /\ cmd'[o].kind \in Kinds /\ cmd'[o].build \in Builds
    BY <1>1, <2>2, <2>3, <2>4, AskMoves
  <2>6. Meant(o)'
    BY <2>5 DEF Meant, Building, Releasing, Journaled, Kinds
  <2>7. QED BY <1>1, <2>2, <2>3, <2>4, <2>6, MoveTyped, WorldTypes DEF world
<1>4. CASE Lock(o)
  <2>1. /\ pc[o] = "lock" /\ lock = NoOperator /\ lock' = o
        /\ Goto(o, IF cmd[o].kind = "reconcile" THEN "look" ELSE "prior")
        /\ UNCHANGED <<dir, coll, alias, journal, cmd, applied, late, served, faults>>
    BY <1>4 DEF Lock
  <2>2. "look" \in Steps \cap Locked /\ "prior" \in Steps \cap Locked
    BY DEF Steps, Locked
  <2>3. CASE cmd[o].kind = "reconcile"
    <3>1. Goto(o, "look") /\ cmd[o].op \in DOMAIN journal
      BY <1>1, <2>1, <2>3 DEF Meant
    <3>2. pc'[o] = "look" /\ cmd'[o].op \in DOMAIN journal'
      BY <1>1, <2>1, <2>2, <3>1, GotoMoves
    <3>3. Meant(o)'
      BY <3>2 DEF Meant, Building, Releasing, Journaled
    <3>4. QED BY <1>1, <2>1, <2>2, <3>1, <3>3, GotoAsks, MoveTyped, WorldTypes
  <2>4. CASE cmd[o].kind # "reconcile"
    <3>1. Goto(o, "prior") /\ cmd[o].kind \in Kinds /\ cmd[o].build \in Builds
      BY <1>1, <2>1, <2>4 DEF Meant
    <3>2. pc'[o] = "prior" /\ cmd'[o].kind \in Kinds /\ cmd'[o].build \in Builds
      BY <1>1, <2>1, <2>2, <3>1, GotoMoves
    <3>3. Meant(o)'
      BY <3>2 DEF Meant, Building, Releasing, Journaled
    <3>4. QED BY <1>1, <2>1, <2>2, <3>1, <3>3, GotoAsks, MoveTyped, WorldTypes
  <2>5. QED BY <2>3, <2>4
<1>5. CASE ReadPrior(o)
  <2>1. /\ pc[o] = "prior"
        /\ UNCHANGED <<dir, coll, alias, journal, applied, late, served, faults>>
    BY <1>5 DEF ReadPrior
  <2>2. CASE Leave(o)
    BY <1>1, <2>1, <2>2, LeaveTyped, WorldTypes
  <2>3. CASE Ask(o, [cmd[o] EXCEPT !.prior = alias], "validate") /\ UNCHANGED lock
    <3> DEFINE c == [cmd[o] EXCEPT !.prior = alias]
    <3>1. c \in Command /\ c.kind = cmd[o].kind /\ c.build = cmd[o].build
      BY <1>1, <1>2 DEF Command, TypeOK
    <3>2. "validate" \in Steps \cap Locked /\ pc[o] \in Locked
      BY <2>1 DEF Steps, Locked
    <3>3. Ask(o, c, "validate")
      BY <2>3
    <3> HIDE DEF c
    <3>4. pc'[o] = "validate" /\ cmd'[o].kind \in Kinds /\ cmd'[o].build \in Builds
      BY <1>1, <1>2, <2>1, <3>1, <3>2, <3>3, AskMoves
    <3>5. Meant(o)'
      BY <3>4 DEF Meant, Building, Releasing, Journaled
    <3>6. QED BY <1>1, <2>1, <2>3, <3>1, <3>2, <3>3, <3>5, MoveTyped, WorldTypes
  <2>4. QED BY <1>5, <2>2, <2>3 DEF ReadPrior
<1>6. ASSUME pc[o] \in {"validate", "gate"}, NEW s \in {"gate", "intent"}, NEW ok,
             Proceed(o, ok, s)
      PROVE  Typed'
  <2>1. UNCHANGED <<dir, coll, alias, journal, applied, late, served, faults>>
    BY <1>6 DEF Proceed
  <2>2. CASE Leave(o)
    BY <1>1, <2>1, <2>2, LeaveTyped, WorldTypes
  <2>3. CASE Goto(o, s) /\ UNCHANGED <<cmd, lock>>
    <3>1. s \in Steps \cap Locked /\ pc[o] \in Locked
      BY <1>6 DEF Steps, Locked
    <3>2. pc'[o] = s /\ cmd'[o].kind \in Kinds /\ cmd'[o].build \in Builds
      BY <1>1, <1>2, <1>6, <2>3, <3>1, GotoMoves
    <3>3. Meant(o)'
      BY <1>6, <3>2 DEF Meant, Building, Releasing, Journaled
    <3>4. QED BY <1>1, <2>1, <2>3, <3>1, <3>3, GotoAsks, MoveTyped, WorldTypes
  <2>4. QED BY <1>6, <2>2, <2>3 DEF Proceed
<1>7. CASE Validate(o)
  <2>1. pc[o] = "validate" /\ \E ok \in BOOLEAN : Proceed(o, ok, "gate")
    BY <1>7 DEF Validate
  <2>2. QED BY <2>1, <1>6
<1>8. CASE Gate(o)
  <2>1. pc[o] = "gate" /\ (Proceed(o, GateOpen(o), "intent") \/ Proceed(o, FALSE, "intent"))
    BY <1>8 DEF Gate
  <2>2. QED BY <2>1, <1>6
<1>9. QED BY <1>3, <1>4, <1>5, <1>7, <1>8

\* The new outcome of an operation is an entry where there was one.
LEMMA RecordTypes ==
  ASSUME TypeOK, NEW op \in DOMAIN journal,
         NEW e \in {"unknown_outcome", "completed", "not_applied"}, Record(op, e)
  PROVE  /\ journal' \in Seq(Entry) /\ Len(journal') = Len(journal)
         /\ DOMAIN journal' = DOMAIN journal
         /\ \A q \in DOMAIN journal :
              /\ journal'[q].to = journal[q].to /\ journal'[q].from = journal[q].from
              /\ journal'[q].kind = journal[q].kind
              /\ journal'[q].report = journal[q].report
              /\ journal'[q].event = IF q = op THEN e ELSE journal[q].event
<1>1. /\ journal' = [journal EXCEPT ![op] = [journal[op] EXCEPT !.event = e]]
      /\ journal \in Seq(Entry)
  BY DEF Record, TypeOK
<1>2. [journal[op] EXCEPT !.event = e] \in Entry
  BY EntryFields DEF Entry
<1>3. /\ journal' \in Seq(Entry) /\ Len(journal') = Len(journal)
      /\ DOMAIN journal' = DOMAIN journal
      /\ \A q \in DOMAIN journal :
           journal'[q] = IF q = op THEN [journal[op] EXCEPT !.event = e] ELSE journal[q]
  BY <1>1, <1>2
<1>4. \A q \in DOMAIN journal : journal[q] \in Entry
  BY <1>1
<1>5. QED BY <1>2, <1>3, <1>4 DEF Entry

\* The swap of a journaled operation writes what the journal has.
LEMMA SwapNowTypes ==
  ASSUME TypeOK, NEW op \in DOMAIN journal, SwapNow(op)
  PROVE  /\ alias' \in Targets /\ applied' \subseteq DOMAIN journal
         /\ served' \subseteq Builds
  BY EntryFields DEF SwapNow, TypeOK, Targets

\* The intent, the swap in its outcomes and the record keep the types.
LEMMA SwapTyped ==
  ASSUME Typed, NEW o \in Operators,
         \/ WriteIntent(o) \/ Swap(o) \/ SwapRaises(o) \/ Verify(o) \/ Conclude(o)
  PROVE  Typed'
<1>1. TypeOK /\ Meant(o)
  BY DEF Typed
<1>2. /\ cmd[o] \in Command
      /\ pc[o] \in {"swap", "verify", "completed", "unknown_outcome"} =>
           cmd[o].op \in DOMAIN journal
  BY <1>1 DEF TypeOK, Meant, Journaled
<1>3. CASE WriteIntent(o)
  <2> DEFINE entry == [from |-> cmd[o].prior, to |-> cmd[o].build,
                       kind |-> cmd[o].kind, report |-> cmd[o].report, event |-> "intent"]
             c == [cmd[o] EXCEPT !.op = Len(journal) + 1]
  <2>1. /\ pc[o] = "intent" /\ Len(journal) < MaxOps /\ journal' = Append(journal, entry)
        /\ Ask(o, c, "swap")
        /\ UNCHANGED <<dir, coll, alias, lock, applied, late, served, faults>>
    BY <1>3 DEF WriteIntent
  <2>2. entry \in Entry
    <3>1. cmd[o].kind \in Kinds /\ cmd[o].build \in Builds
      BY <1>1, <2>1 DEF Meant, Releasing
    <3>2. cmd[o].prior \in Targets /\ cmd[o].report \in Targets
      BY <1>1, CommandFields
    <3>3. QED BY <3>1, <3>2 DEF Entry
  <2>3. journal \in Seq(Entry) /\ Len(journal) \in Nat
    BY <1>1 DEF TypeOK
  <2>4. c \in Command /\ c.op = Len(journal) + 1
    <3>1. PICK n : n = Len(journal) + 1
      OBVIOUS
    <3>2. n \in 0..MaxOps
      BY <2>1, <2>3, <3>1, ReleaseBounds
    <3>3. /\ [cmd[o] EXCEPT !.op = n] \in Command
          /\ [cmd[o] EXCEPT !.op = n].op = n
      BY <1>2, <3>2 DEF Command
    <3>4. QED BY <3>1, <3>3
  <2> HIDE DEF entry, c
  <2>5. /\ journal' \in Seq(Entry) /\ Len(journal') = Len(journal) + 1
        /\ DOMAIN journal \subseteq DOMAIN journal'
        /\ Len(journal) + 1 \in DOMAIN journal'
    BY <2>1, <2>2, <2>3
  <2>6. "swap" \in Steps \cap Locked /\ pc[o] \in Locked
    BY <2>1 DEF Steps, Locked
  <2>7. pc'[o] = "swap" /\ cmd'[o].op \in DOMAIN journal'
    BY <1>1, <2>1, <2>4, <2>5, <2>6, AskMoves
  <2>8. Meant(o)'
    BY <2>7 DEF Meant, Building, Releasing, Journaled
  <2>9. Len(journal') <= MaxOps
    BY <2>1, <2>3, <2>5, ReleaseBounds
  <2>10. applied' \subseteq DOMAIN journal' /\ late' \subseteq DOMAIN journal'
    BY <1>1, <2>1, <2>5, WorldTypes
  <2>11. QED
    BY <1>1, <2>1, <2>4, <2>5, <2>6, <2>8, <2>9, <2>10, MoveTyped, WorldTypes
<1>4. CASE Swap(o)
  <2>1. /\ pc[o] = "swap" /\ SwapNow(cmd[o].op) /\ Goto(o, "verify")
        /\ UNCHANGED <<dir, coll, journal, lock, cmd, late, faults>>
    BY <1>4 DEF Swap
  <2>2. alias' \in Targets /\ applied' \subseteq DOMAIN journal /\ served' \subseteq Builds
    BY <1>1, <1>2, <2>1, SwapNowTypes
  <2>3. "verify" \in Steps \cap Locked /\ pc[o] \in Locked
    BY <2>1 DEF Steps, Locked
  <2>4. pc'[o] = "verify" /\ cmd'[o].op \in DOMAIN journal'
    BY <1>1, <1>2, <2>1, <2>3, GotoMoves
  <2>5. Meant(o)'
    BY <2>4 DEF Meant, Building, Releasing, Journaled
  <2>6. QED BY <1>1, <2>1, <2>2, <2>3, <2>5, GotoAsks, MoveTyped, WorldTypes
<1>5. CASE SwapRaises(o)
  <2>1. /\ pc[o] = "swap" /\ faults' = faults + 1 /\ faults < MaxFaults
        /\ Goto(o, "unknown_outcome")
        /\ UNCHANGED <<dir, coll, journal, lock, cmd>>
    BY <1>5 DEF SwapRaises
  <2>2. /\ alias' \in Targets /\ applied' \subseteq DOMAIN journal
        /\ served' \subseteq Builds /\ late' \subseteq DOMAIN journal
    <3>1. CASE SwapNow(cmd[o].op) /\ UNCHANGED late
      BY <1>1, <1>2, <2>1, <3>1, SwapNowTypes, WorldTypes
    <3>2. CASE UNCHANGED <<alias, applied, served, late>>
      BY <1>1, <3>2, WorldTypes
    <3>3. CASE late' = late \cup {cmd[o].op} /\ UNCHANGED <<alias, applied, served>>
      BY <1>1, <1>2, <2>1, <3>3, WorldTypes
    <3>4. QED BY <1>5, <3>1, <3>2, <3>3 DEF SwapRaises
  <2>3. faults' \in 0..MaxFaults
    BY <1>1, <2>1, WorldTypes, ReleaseBounds
  <2>4. "unknown_outcome" \in Steps \cap Locked /\ pc[o] \in Locked
    BY <2>1 DEF Steps, Locked
  <2>5. pc'[o] = "unknown_outcome" /\ cmd'[o].op \in DOMAIN journal'
    BY <1>1, <1>2, <2>1, <2>4, GotoMoves
  <2>6. Meant(o)'
    BY <2>5 DEF Meant, Building, Releasing, Journaled
  <2>7. QED BY <1>1, <2>1, <2>2, <2>3, <2>4, <2>6, GotoAsks, MoveTyped, WorldTypes
<1>6. CASE Verify(o)
  <2>1. /\ pc[o] = "verify" /\ UNCHANGED <<world, cmd, applied, late, served, faults>>
        /\ \E s \in {"completed", "unknown_outcome"} : Goto(o, s)
    BY <1>6 DEF Verify
  <2>2. PICK s \in {"completed", "unknown_outcome"} : Goto(o, s)
    BY <2>1
  <2>3. s \in Steps \cap Locked /\ pc[o] \in Locked
    BY <2>1 DEF Steps, Locked
  <2>4. pc'[o] = s /\ cmd'[o].op \in DOMAIN journal'
    BY <1>1, <1>2, <2>1, <2>2, <2>3, GotoMoves DEF world
  <2>5. Meant(o)'
    BY <2>4 DEF Meant, Building, Releasing, Journaled
  <2>6. QED BY <1>1, <2>1, <2>2, <2>3, <2>5, GotoAsks, MoveTyped, WorldTypes DEF world
<1>7. CASE Conclude(o)
  <2>1. /\ pc[o] \in {"completed", "unknown_outcome"} /\ Record(cmd[o].op, pc[o]) /\ Leave(o)
        /\ UNCHANGED <<dir, coll, alias, applied, late, served, faults>>
    BY <1>7 DEF Conclude
  <2>2. journal' \in Seq(Entry) /\ Len(journal') = Len(journal) /\ DOMAIN journal' = DOMAIN journal
    BY <1>1, <1>2, <2>1, RecordTypes
  <2>3. QED BY <1>1, <2>1, <2>2, LeaveTyped, WorldTypes
<1>8. QED BY <1>3, <1>4, <1>5, <1>6, <1>7

\* A reconciliation, and the end of a process, keep the types.
LEMMA SettleTyped ==
  ASSUME Typed, NEW o \in Operators,
         Reconcile(o) \/ Look(o) \/ Settle(o) \/ Die(o)
  PROVE  Typed'
<1>1. TypeOK /\ Meant(o)
  BY DEF Typed
<1>2. /\ cmd[o] \in Command
      /\ pc[o] \in {"swap", "look", "settle"} => cmd[o].op \in DOMAIN journal
      /\ pc[o] = "settle" => cmd[o].verdict \in {"completed", "not_applied"}
  BY <1>1 DEF TypeOK, Meant, Journaled
<1>3. CASE Reconcile(o)
  <2>1. PICK op \in DOMAIN journal :
          Ask(o, [NoCommand EXCEPT !.kind = "reconcile", !.op = op], "lock")
    BY <1>3 DEF Reconcile
  <2> DEFINE c == [NoCommand EXCEPT !.kind = "reconcile", !.op = op]
  <2>2. op \in 0..MaxOps
    BY <1>1, EntryFields
  <2>3. c \in Command /\ c.kind = "reconcile" /\ c.op = op
    BY <2>2, NoCommandType DEF Command, NoCommand
  <2>4. /\ "lock" \in Steps /\ "lock" \notin Locked /\ pc[o] \notin Locked
        /\ UNCHANGED <<world, applied, late, served, faults>>
    BY <1>3 DEF Reconcile, Steps, Locked
  <2>5. Ask(o, c, "lock")
    BY <2>1
  <2> HIDE DEF c
  <2>6. pc'[o] = "lock" /\ cmd'[o].kind = "reconcile" /\ cmd'[o].op \in DOMAIN journal'
    BY <1>1, <2>3, <2>4, <2>5, AskMoves DEF world
  <2>7. Meant(o)'
    BY <2>6 DEF Meant, Building, Releasing, Journaled
  <2>8. QED BY <1>1, <2>3, <2>4, <2>5, <2>7, MoveTyped, WorldTypes DEF world
<1>4. CASE Look(o)
  <2>1. /\ pc[o] = "look"
        /\ UNCHANGED <<dir, coll, alias, journal, applied, late, served, faults>>
    BY <1>4 DEF Look
  <2>2. CASE Leave(o)
    BY <1>1, <2>1, <2>2, LeaveTyped, WorldTypes
  <2>3. CASE ~Leave(o)
    <3>1. PICK verdict \in {"completed", "not_applied"} :
            Ask(o, [cmd[o] EXCEPT !.verdict = verdict], "settle") /\ UNCHANGED lock
      BY <1>4, <2>3 DEF Look, Verdict
    <3> DEFINE c == [cmd[o] EXCEPT !.verdict = verdict]
    <3>2. c \in Command /\ c.op = cmd[o].op /\ c.verdict = verdict
      BY <1>2 DEF Command
    <3>3. "settle" \in Steps \cap Locked /\ pc[o] \in Locked
      BY <2>1 DEF Steps, Locked
    <3>4. Ask(o, c, "settle") /\ UNCHANGED lock
      BY <3>1
    <3> HIDE DEF c
    <3>5. /\ pc'[o] = "settle" /\ cmd'[o].op \in DOMAIN journal'
          /\ cmd'[o].verdict \in {"completed", "not_applied"}
      BY <1>1, <1>2, <2>1, <3>2, <3>3, <3>4, AskMoves
    <3>6. Meant(o)'
      BY <3>5 DEF Meant, Building, Releasing, Journaled
    <3>7. QED BY <1>1, <2>1, <3>2, <3>3, <3>4, <3>6, MoveTyped, WorldTypes
  <2>4. QED BY <2>2, <2>3
<1>5. CASE Settle(o)
  <2>1. /\ pc[o] = "settle" /\ Record(cmd[o].op, cmd[o].verdict) /\ Leave(o)
        /\ UNCHANGED <<dir, coll, alias, applied, late, served, faults>>
    BY <1>5 DEF Settle
  <2>2. journal' \in Seq(Entry) /\ Len(journal') = Len(journal) /\ DOMAIN journal' = DOMAIN journal
    BY <1>1, <1>2, <2>1, RecordTypes
  <2>3. QED BY <1>1, <2>1, <2>2, LeaveTyped, WorldTypes
<1>6. CASE Die(o)
  <2>1. /\ Leave(o) /\ faults' = faults + 1 /\ faults < MaxFaults
        /\ UNCHANGED <<dir, coll, alias, journal, applied, served>>
    BY <1>6 DEF Die
  <2>2. late' \subseteq DOMAIN journal
    BY <1>1, <1>2, <1>6, WorldTypes DEF Die
  <2>3. faults' \in 0..MaxFaults
    BY <1>1, <2>1, WorldTypes, ReleaseBounds
  <2>4. QED BY <1>1, <2>1, <2>2, <2>3, LeaveTyped, WorldTypes
<1>7. QED BY <1>3, <1>4, <1>5, <1>6

\* A swap that takes effect late keeps the types: it moves no operator.
LEMMA LateTyped ==
  ASSUME Typed, SwapLate
  PROVE  Typed'
<1>1. TypeOK /\ \A o \in Operators : Meant(o)
  BY DEF Typed
<1>2. PICK op \in late \ applied : SwapNow(op)
  BY DEF SwapLate
<1>3. UNCHANGED <<dir, coll, journal, lock, pc, cmd, late, faults>>
  BY DEF SwapLate
<1>4. op \in DOMAIN journal
  BY <1>1, WorldTypes
<1>5. alias' \in Targets /\ applied' \subseteq DOMAIN journal /\ served' \subseteq Builds
  BY <1>1, <1>2, <1>4, SwapNowTypes
<1>6. TypeOK'
  BY <1>1, <1>3, <1>5 DEF TypeOK
<1>7. \A o \in Operators : Meant(o)'
  BY <1>1, <1>3 DEF Meant
<1>8. QED BY <1>6, <1>7 DEF Typed

\* Every reachable state is typed, the lock has the holder that is inside it,
\* and every command means something (manage_index.py's operators, whatever
\* dies or arrives late).
THEOREM TypedAlways == Spec => []Typed
<1>1. Init => Typed
  <2>1. SUFFICES ASSUME Init PROVE Typed
    OBVIOUS
  <2>2. /\ dir = [b \in Builds |-> "none"] /\ coll = [b \in Builds |-> "none"]
        /\ alias = NoBuild /\ journal = <<>> /\ lock = NoOperator
        /\ pc = [o \in Operators |-> "idle"] /\ cmd = [o \in Operators |-> NoCommand]
        /\ applied = {} /\ late = {} /\ served = {} /\ faults = 0
    BY <2>1, Zenon DEF Init
  <2>3. <<>> \in Seq(Entry) /\ Len(<<>>) = 0
    OBVIOUS
  <2>4. "idle" \in Steps /\ "idle" \notin Locked
    BY DEF Steps, Locked
  <2>5. TypeOK
    BY <2>2, <2>3, <2>4, NoCommandType, NoOperatorIsNone, ReleaseBounds DEF TypeOK, Targets
  <2>6. \A o \in Operators : Meant(o)
    BY <2>2 DEF Meant, Building, Releasing, Journaled
  <2>7. QED BY <2>5, <2>6 DEF Typed
<1>2. Typed /\ [Next]_vars => Typed'
  <2>1. SUFFICES ASSUME Typed, [Next]_vars PROVE Typed'
    OBVIOUS
  <2>2. CASE UNCHANGED vars
    BY <2>1, <2>2 DEF Typed, TypeOK, Meant, vars, world
  <2>3. CASE SwapLate
    BY <2>1, <2>3, LateTyped
  <2>4. ASSUME NEW o \in Operators, Move(o)
        PROVE  Typed'
    BY <2>1, <2>4, BuildTyped, AskReleaseTyped, SwapTyped, SettleTyped DEF Move
  <2>5. QED BY <2>1, <2>2, <2>3, <2>4, NextMoves
<1>3. QED BY <1>1, <1>2, PTL DEF Spec

\* The type invariant holds for any builds, operators and bounds.
THEOREM TypeCorrect == Spec => []TypeOK
<1>1. Typed => TypeOK
  BY DEF Typed
<1>2. QED BY <1>1, TypedAlways, PTL

-----------------------------------------------------------------------------
(* The alias names a complete build.                                       *)

\* A build stays whole once it is: only the process that made a directory
\* opens and writes its manifest, only the one that created a collection
\* fills it.  The alias, the journal and a validated command name whole
\* builds.
Making(o) ==
  /\ pc[o] = "open" => dir[cmd[o].build] = "made"
  /\ pc[o] = "write" => dir[cmd[o].build] = "torn"

Apart(u, v) ==
  pc[u] \in {"open", "write"} /\ pc[v] \in {"open", "write"} /\ cmd[u].build = cmd[v].build
    => u = v

Validated(o) == pc[o] \in {"gate", "intent"} => Whole(cmd[o].build)

WholeInv ==
  /\ \A o \in Operators : Making(o) /\ Validated(o)
  /\ \A u, v \in Operators : Apart(u, v)
  /\ \A op \in DOMAIN journal : Whole(journal[op].to)
  /\ alias # NoBuild => Whole(alias)

\* A build that is whole stays so.
LEMMA WholeStays ==
  ASSUME Typed, WholeInv, [Next]_vars, NEW b \in Builds, Whole(b)
  PROVE  Whole(b)'
<1>1. CASE UNCHANGED <<dir, coll>>
  BY <1>1 DEF Whole
<1>2. ASSUME NEW o \in Operators, MakeDir(o) \/ OpenManifest(o) \/ WriteManifest(o)
      PROVE  Whole(b)'
  <2>1. dir'[b] = "complete"
    BY <1>2 DEF Whole, MakeDir, OpenManifest, WriteManifest, WholeInv, Making, Typed, TypeOK
  <2>2. coll' = coll
    BY <1>2 DEF MakeDir, OpenManifest, WriteManifest
  <2>3. QED BY <2>1, <2>2 DEF Whole
<1>3. ASSUME NEW o \in Operators, CreateCollection(o) \/ UpsertLast(o)
      PROVE  Whole(b)'
  <2>1. coll'[b] = "full"
    BY <1>3 DEF Whole, CreateCollection, UpsertLast, Typed, TypeOK
  <2>2. dir' = dir
    BY <1>3 DEF CreateCollection, UpsertLast
  <2>3. QED BY <2>1, <2>2 DEF Whole
<1>4. ASSUME NEW o \in Operators,
             \/ Prepare(o) \/ Install(o) \/ Release(o) \/ Lock(o) \/ ReadPrior(o)
             \/ Validate(o) \/ Gate(o) \/ WriteIntent(o) \/ Swap(o) \/ SwapRaises(o)
             \/ Verify(o) \/ Conclude(o) \/ Reconcile(o) \/ Look(o) \/ Settle(o) \/ Die(o)
      PROVE  UNCHANGED <<dir, coll>>
  BY <1>4 DEF Prepare, Install, Release, Lock, ReadPrior, Validate, Gate, Proceed,
     WriteIntent, Swap, SwapRaises, Verify, Conclude, Reconcile, Look, Settle, Die, world
<1>5. QED BY <1>1, <1>2, <1>3, <1>4 DEF Next, SwapLate, vars, world

\* A step of o moves no other operator.
LEMMA OthersStay ==
  ASSUME Typed, NEW o \in Operators, Move(o), NEW v \in Operators, v # o
  PROVE  pc'[v] = pc[v] /\ cmd'[v] = cmd[v]
<1>1. pc \in [Operators -> Steps] /\ cmd \in [Operators -> Command]
  BY DEF Typed, TypeOK
<1>2. ASSUME NEW s, Goto(o, s)
      PROVE  pc'[v] = pc[v]
  BY <1>1, <1>2 DEF Goto
<1>3. ASSUME NEW s, NEW c, Ask(o, c, s)
      PROVE  pc'[v] = pc[v] /\ cmd'[v] = cmd[v]
  BY <1>1, <1>2, <1>3 DEF Ask
<1>4. ASSUME Leave(o)
      PROVE  pc'[v] = pc[v] /\ cmd'[v] = cmd[v]
  BY <1>1, <1>4 DEF Leave
<1>5. CASE Prepare(o) \/ Install(o) \/ Release(o) \/ Reconcile(o)
  BY <1>3, <1>5 DEF Prepare, Install, Release, Reconcile
<1>6. CASE MakeDir(o) \/ OpenManifest(o) \/ WriteManifest(o) \/ CreateCollection(o) \/ UpsertLast(o)
  BY <1>2, <1>4, <1>6 DEF MakeDir, OpenManifest, WriteManifest, CreateCollection, UpsertLast
<1>7. CASE Lock(o) \/ ReadPrior(o) \/ Validate(o) \/ Gate(o)
  BY <1>2, <1>3, <1>4, <1>7 DEF Lock, ReadPrior, Validate, Gate, Proceed
<1>8. CASE WriteIntent(o) \/ Swap(o) \/ SwapRaises(o) \/ Verify(o) \/ Conclude(o)
  BY <1>2, <1>3, <1>4, <1>8 DEF WriteIntent, Swap, SwapRaises, Verify, Conclude
<1>9. CASE Look(o) \/ Settle(o) \/ Die(o)
  BY <1>3, <1>4, <1>9 DEF Look, Settle, Die
<1>10. QED BY <1>5, <1>6, <1>7, <1>8, <1>9 DEF Move

\* Which step brings an operator where it is, for the places that the
\* invariants speak of.
LEMMA CameFrom ==
  ASSUME Typed, NEW o \in Operators, Move(o)
  PROVE  /\ pc'[o] = "open" => MakeDir(o) /\ cmd' = cmd /\ dir[cmd[o].build] = "none"
         /\ pc'[o] = "write" => OpenManifest(o)
         /\ pc'[o] = "validate" => ReadPrior(o) /\ cmd'[o] = [cmd[o] EXCEPT !.prior = alias]
         /\ pc'[o] = "gate" =>
              /\ Validate(o) /\ cmd' = cmd
              /\ Whole(cmd[o].build) /\ cmd[o].build # cmd[o].prior
         /\ pc'[o] = "intent" => Gate(o) /\ cmd' = cmd /\ GateOpen(o)
         /\ pc'[o] = "swap" => WriteIntent(o)
         /\ pc'[o] = "verify" => Swap(o)
         /\ pc'[o] = "completed" => Verify(o) /\ alias = cmd[o].build
         /\ pc'[o] = "settle" =>
              /\ Look(o) /\ journal[cmd[o].op].event \notin {"completed", "not_applied"}
              /\ cmd'[o] = [cmd[o] EXCEPT !.verdict = Verdict(journal[cmd[o].op])]
<1>1. pc \in [Operators -> Steps] /\ cmd \in [Operators -> Command]
  BY DEF Typed, TypeOK
<1>2. ASSUME NEW s, Goto(o, s)
      PROVE  pc'[o] = s
  BY <1>1, <1>2 DEF Goto
<1>3. ASSUME NEW s, NEW c, Ask(o, c, s)
      PROVE  pc'[o] = s /\ cmd'[o] = c
  BY <1>1, <1>2, <1>3 DEF Ask
<1>4. ASSUME Leave(o)
      PROVE  pc'[o] = "idle"
  BY <1>1, <1>4 DEF Leave
<1>5. CASE Prepare(o) \/ Install(o) \/ Release(o) \/ Reconcile(o)
  BY <1>3, <1>5 DEF Prepare, Install, Release, Reconcile
<1>6. CASE MakeDir(o)
  BY <1>2, <1>4, <1>6 DEF MakeDir
<1>7. CASE OpenManifest(o) \/ WriteManifest(o) \/ CreateCollection(o) \/ UpsertLast(o)
  BY <1>2, <1>4, <1>7 DEF OpenManifest, WriteManifest, CreateCollection, UpsertLast
<1>8. CASE Lock(o)
  <2>1. PICK s \in {"look", "prior"} : Goto(o, s)
    BY <1>8 DEF Lock
  <2>2. QED BY <1>2, <2>1
<1>9. CASE ReadPrior(o)
  BY <1>3, <1>4, <1>9 DEF ReadPrior
<1>10. CASE Validate(o)
  BY <1>2, <1>4, <1>10 DEF Validate, Proceed, Whole
<1>11. CASE Gate(o)
  BY <1>2, <1>4, <1>11 DEF Gate, Proceed
<1>12. CASE WriteIntent(o)
  BY <1>3, <1>12 DEF WriteIntent
<1>13. CASE Swap(o) \/ SwapRaises(o)
  BY <1>2, <1>13 DEF Swap, SwapRaises
<1>14. CASE Verify(o)
  BY <1>2, <1>14 DEF Verify
<1>15. CASE Conclude(o) \/ Settle(o) \/ Die(o)
  BY <1>4, <1>15 DEF Conclude, Settle, Die
<1>16. CASE Look(o)
  BY <1>3, <1>4, <1>16 DEF Look
<1>17. QED
  BY <1>5, <1>6, <1>7, <1>8, <1>9, <1>10, <1>11, <1>12, <1>13, <1>14, <1>15, <1>16
     DEF Move

\* The journal is append-only but for the outcome of an operation: a step
\* keeps it, records an outcome, or appends the intent of the operator's
\* command.
LEMMA JournalSteps ==
  ASSUME Typed, NEW o \in Operators, Move(o)
  PROVE  \/ journal' = journal
         \/ WriteIntent(o)
         \/ /\ Conclude(o) \/ Settle(o)
            /\ cmd[o].op \in DOMAIN journal
            /\ \E e \in {"unknown_outcome", "completed", "not_applied"} : Record(cmd[o].op, e)
<1>1. CASE \/ Prepare(o) \/ MakeDir(o) \/ OpenManifest(o) \/ WriteManifest(o)
           \/ Install(o) \/ CreateCollection(o) \/ UpsertLast(o)
           \/ Release(o) \/ Lock(o) \/ ReadPrior(o) \/ Validate(o) \/ Gate(o)
           \/ Swap(o) \/ SwapRaises(o) \/ Verify(o) \/ Reconcile(o) \/ Look(o) \/ Die(o)
  BY <1>1 DEF Prepare, MakeDir, OpenManifest, WriteManifest, Install, CreateCollection,
     UpsertLast, Release, Lock, ReadPrior, Validate, Gate, Proceed, Swap, SwapRaises,
     Verify, Reconcile, Look, Die, world
<1>2. CASE Conclude(o)
  BY <1>2 DEF Conclude, Typed, Meant, Journaled
<1>3. CASE Settle(o)
  BY <1>3 DEF Settle, Typed, Meant, Journaled
<1>4. QED BY <1>1, <1>2, <1>3 DEF Move

\* What an intent appends.
LEMMA IntentAppends ==
  ASSUME Typed, NEW o \in Operators, WriteIntent(o)
  PROVE  /\ DOMAIN journal' = DOMAIN journal \cup {Len(journal) + 1}
         /\ Len(journal) + 1 \notin DOMAIN journal
         /\ \A op \in DOMAIN journal : journal'[op] = journal[op]
         /\ journal'[Len(journal) + 1] =
              [from |-> cmd[o].prior, to |-> cmd[o].build, kind |-> cmd[o].kind,
               report |-> cmd[o].report, event |-> "intent"]
         /\ cmd'[o] = [cmd[o] EXCEPT !.op = Len(journal) + 1]
         /\ cmd'[o].op = Len(journal) + 1
<1>1. /\ journal \in Seq(Entry) /\ Len(journal) \in Nat
      /\ cmd \in [Operators -> Command] /\ cmd[o] \in Command
  BY DEF Typed, TypeOK
<1> DEFINE entry == [from |-> cmd[o].prior, to |-> cmd[o].build, kind |-> cmd[o].kind,
                     report |-> cmd[o].report, event |-> "intent"]
<1>2. journal' = Append(journal, entry)
  BY DEF WriteIntent
<1>3. PICK n : n = Len(journal) + 1
  OBVIOUS
<1>4. cmd'[o] = [cmd[o] EXCEPT !.op = n] /\ cmd'[o].op = n
  BY <1>1, <1>3 DEF WriteIntent, Ask, Command
<1> HIDE DEF entry
<1>5. /\ DOMAIN journal' = DOMAIN journal \cup {n} /\ n \notin DOMAIN journal
      /\ \A op \in DOMAIN journal : journal'[op] = journal[op]
      /\ journal'[n] = entry
  BY <1>1, <1>2, <1>3
<1>6. QED BY <1>3, <1>4, <1>5 DEF entry

\* An operation keeps its builds, its kind and its report for good.
LEMMA JournalGrows ==
  ASSUME Typed, [Next]_vars, NEW op \in DOMAIN journal
  PROVE  /\ op \in DOMAIN journal'
         /\ journal'[op].to = journal[op].to /\ journal'[op].from = journal[op].from
         /\ journal'[op].kind = journal[op].kind
         /\ journal'[op].report = journal[op].report
<1>1. CASE journal' = journal
  BY <1>1
<1>2. ASSUME NEW o \in Operators, Move(o), journal' # journal
      PROVE  /\ op \in DOMAIN journal'
             /\ journal'[op].to = journal[op].to /\ journal'[op].from = journal[op].from
             /\ journal'[op].kind = journal[op].kind
             /\ journal'[op].report = journal[op].report
  <2>1. CASE WriteIntent(o)
    BY <2>1, IntentAppends
  <2>2. CASE ~WriteIntent(o)
    <3>1. PICK e \in {"unknown_outcome", "completed", "not_applied"} : Record(cmd[o].op, e)
      BY <1>2, <2>2, JournalSteps
    <3>2. cmd[o].op \in DOMAIN journal /\ TypeOK
      BY <1>2, <2>2, JournalSteps DEF Typed
    <3>3. QED BY <3>1, <3>2, RecordTypes
  <2>3. QED BY <2>1, <2>2
<1>3. QED BY <1>1, <1>2, NextMoves DEF SwapLate, vars, world

\* The alias moves only with the swap of a journaled operation.
LEMMA AliasMoves ==
  ASSUME Typed, [Next]_vars
  PROVE  \/ UNCHANGED <<alias, applied, served>>
         \/ \E op \in DOMAIN journal :
              /\ SwapNow(op)
              /\ \/ \E o \in Operators : pc[o] = "swap" /\ op = cmd[o].op /\ Move(o)
                 \/ late # {}
<1>1. CASE SwapLate
  <2>1. late \subseteq DOMAIN journal
    BY DEF Typed, TypeOK
  <2>2. QED BY <1>1, <2>1 DEF SwapLate
<1>2. ASSUME NEW o \in Operators, Swap(o) \/ SwapRaises(o)
      PROVE  \/ UNCHANGED <<alias, applied, served>>
             \/ /\ SwapNow(cmd[o].op) /\ cmd[o].op \in DOMAIN journal
                /\ pc[o] = "swap" /\ Move(o)
  <2>1. pc[o] = "swap" /\ Move(o)
    BY <1>2 DEF Swap, SwapRaises, Move
  <2>2. cmd[o].op \in DOMAIN journal
    BY <2>1 DEF Typed, Meant, Journaled
  <2>3. SwapNow(cmd[o].op) \/ UNCHANGED <<alias, applied, served>>
    BY <1>2 DEF Swap, SwapRaises
  <2>4. QED BY <2>1, <2>2, <2>3
<1>3. ASSUME NEW o \in Operators,
             \/ Prepare(o) \/ MakeDir(o) \/ OpenManifest(o) \/ WriteManifest(o)
             \/ Install(o) \/ CreateCollection(o) \/ UpsertLast(o)
             \/ Release(o) \/ Lock(o) \/ ReadPrior(o) \/ Validate(o) \/ Gate(o)
             \/ WriteIntent(o) \/ Verify(o) \/ Conclude(o)
             \/ Reconcile(o) \/ Look(o) \/ Settle(o) \/ Die(o)
      PROVE  UNCHANGED <<alias, applied, served>>
  BY <1>3 DEF Prepare, MakeDir, OpenManifest, WriteManifest, Install, CreateCollection,
     UpsertLast, Release, Lock, ReadPrior, Validate, Gate, Proceed, WriteIntent,
     Verify, Conclude, Reconcile, Look, Settle, Die, world
<1>4. CASE UNCHANGED vars
  BY <1>4 DEF vars, world
<1>5. QED BY <1>1, <1>2, <1>3, <1>4 DEF Next

\* Only the process that made a directory changes it, and only while it builds.
LEMMA DirSteps ==
  ASSUME Typed, [Next]_vars
  PROVE  \/ UNCHANGED dir
         \/ \E o \in Operators :
              /\ cmd[o].build \in Builds /\ Move(o)
              /\ \/ MakeDir(o) /\ pc[o] = "mkdir" /\ dir[cmd[o].build] = "none"
                    /\ dir' = [dir EXCEPT ![cmd[o].build] = "made"]
                 \/ OpenManifest(o) /\ pc[o] = "open"
                    /\ dir' = [dir EXCEPT ![cmd[o].build] = "torn"]
                 \/ WriteManifest(o) /\ pc[o] = "write"
                    /\ dir' = [dir EXCEPT ![cmd[o].build] = "complete"]
<1>1. ASSUME NEW o \in Operators, MakeDir(o) \/ OpenManifest(o) \/ WriteManifest(o)
      PROVE  /\ cmd[o].build \in Builds /\ Move(o)
             /\ \/ UNCHANGED dir
                \/ MakeDir(o) /\ pc[o] = "mkdir" /\ dir[cmd[o].build] = "none"
                   /\ dir' = [dir EXCEPT ![cmd[o].build] = "made"]
                \/ OpenManifest(o) /\ pc[o] = "open"
                   /\ dir' = [dir EXCEPT ![cmd[o].build] = "torn"]
                \/ WriteManifest(o) /\ pc[o] = "write"
                   /\ dir' = [dir EXCEPT ![cmd[o].build] = "complete"]
  <2>1. pc[o] \in {"mkdir", "open", "write"}
    BY <1>1 DEF MakeDir, OpenManifest, WriteManifest
  <2>2. cmd[o].build \in Builds
    BY <2>1 DEF Typed, Meant, Building
  <2>3. QED BY <1>1, <2>2 DEF MakeDir, OpenManifest, WriteManifest, Move
<1>2. ASSUME NEW o \in Operators,
             \/ Prepare(o) \/ Install(o) \/ CreateCollection(o) \/ UpsertLast(o)
             \/ Release(o) \/ Lock(o) \/ ReadPrior(o) \/ Validate(o) \/ Gate(o)
             \/ WriteIntent(o) \/ Swap(o) \/ SwapRaises(o) \/ Verify(o) \/ Conclude(o)
             \/ Reconcile(o) \/ Look(o) \/ Settle(o) \/ Die(o)
      PROVE  UNCHANGED dir
  BY <1>2 DEF Prepare, Install, CreateCollection, UpsertLast, Release, Lock, ReadPrior,
     Validate, Gate, Proceed, WriteIntent, Swap, SwapRaises, Verify, Conclude,
     Reconcile, Look, Settle, Die, world
<1>3. CASE UNCHANGED vars \/ SwapLate
  BY <1>3 DEF vars, world, SwapLate
<1>4. QED BY <1>1, <1>2, <1>3 DEF Next

\* An operator that a step leaves where it was, or the one that it moves.
LEMMA StaysOrMoves ==
  ASSUME Typed, [Next]_vars, NEW v \in Operators
  PROVE  Move(v) \/ (pc'[v] = pc[v] /\ cmd'[v] = cmd[v])
<1>1. CASE UNCHANGED <<pc, cmd>>
  BY <1>1
<1>2. ASSUME NEW o \in Operators, Move(o)
      PROVE  Move(v) \/ (pc'[v] = pc[v] /\ cmd'[v] = cmd[v])
  BY <1>2, OthersStay
<1>3. QED BY <1>1, <1>2, NextMoves DEF vars, world, SwapLate

\* One process at a time builds a directory, and its manifest is what it left.
LEMMA MakingStays ==
  ASSUME Typed, WholeInv, [Next]_vars
  PROVE  /\ \A o \in Operators : Making(o)'
         /\ \A u, v \in Operators : Apart(u, v)'
<1>1. dir \in [Builds -> {"none", "made", "torn", "complete"}]
  BY DEF Typed, TypeOK
<1>2. ASSUME NEW v \in Operators, pc'[v] \in {"open", "write"}
      PROVE  /\ cmd'[v] = cmd[v] /\ cmd[v].build \in Builds
             /\ \/ pc'[v] = pc[v]
                \/ MakeDir(v) /\ dir[cmd[v].build] = "none" /\ pc'[v] = "open"
                \/ OpenManifest(v) /\ pc'[v] = "write"
  <2>1. CASE pc'[v] = pc[v] /\ cmd'[v] = cmd[v]
    BY <1>2, <2>1 DEF Typed, Meant, Building
  <2>2. CASE Move(v)
    <3>1. \/ MakeDir(v) /\ dir[cmd[v].build] = "none" /\ pc'[v] = "open" /\ cmd' = cmd
          \/ OpenManifest(v) /\ pc'[v] = "write"
      BY <1>2, <2>2, CameFrom
    <3>2. cmd' = cmd /\ pc[v] \in {"mkdir", "open"}
      BY <3>1 DEF MakeDir, OpenManifest
    <3>3. cmd[v].build \in Builds
      BY <3>2 DEF Typed, Meant, Building
    <3>4. QED BY <3>1, <3>2, <3>3
  <2>3. QED BY <2>1, <2>2, StaysOrMoves
<1>3. ASSUME NEW v \in Operators
      PROVE  Making(v)'
  <2>1. SUFFICES ASSUME pc'[v] \in {"open", "write"}
                 PROVE  /\ pc'[v] = "open" => dir'[cmd[v].build] = "made"
                        /\ pc'[v] = "write" => dir'[cmd[v].build] = "torn"
    BY <1>2 DEF Making
  <2>2. CASE MakeDir(v) /\ dir[cmd[v].build] = "none" /\ pc'[v] = "open"
    BY <1>1, <1>2, <2>1, <2>2 DEF MakeDir
  <2>3. CASE OpenManifest(v) /\ pc'[v] = "write"
    BY <1>1, <1>2, <2>1, <2>3 DEF OpenManifest
  <2>4. CASE pc'[v] = pc[v]
    <3>1. Making(v) /\ pc[v] \in {"open", "write"} /\ cmd[v].build \in Builds
      BY <1>2, <2>1, <2>4 DEF WholeInv
    <3>2. CASE UNCHANGED dir
      BY <2>4, <3>1, <3>2 DEF Making
    <3>3. ASSUME NEW o \in Operators, cmd[o].build \in Builds, Move(o),
                 MakeDir(o) /\ pc[o] = "mkdir" /\ dir[cmd[o].build] = "none",
                 dir' = [dir EXCEPT ![cmd[o].build] = "made"]
          PROVE  dir'[cmd[v].build] = dir[cmd[v].build]
      BY <1>1, <3>1, <3>3 DEF Making
    <3>4. ASSUME NEW o \in Operators, cmd[o].build \in Builds, Move(o),
                 pc[o] \in {"open", "write"}, OpenManifest(o) \/ WriteManifest(o),
                 NEW m, dir' = [dir EXCEPT ![cmd[o].build] = m]
          PROVE  dir'[cmd[v].build] = dir[cmd[v].build]
      <4>1. pc'[o] # pc[o]
        <5>1. pc \in [Operators -> Steps]
          BY DEF Typed, TypeOK
        <5>2. QED BY <3>4, <5>1 DEF OpenManifest, WriteManifest, Goto, Leave
      <4>2. o # v
        BY <2>4, <4>1
      <4>3. cmd[o].build # cmd[v].build
        BY <3>1, <3>4, <4>2 DEF WholeInv, Apart
      <4>4. QED BY <1>1, <3>1, <3>4, <4>3
    <3>5. QED BY <2>4, <3>1, <3>2, <3>3, <3>4, DirSteps DEF Making
  <2>5. QED BY <1>2, <2>1, <2>2, <2>3, <2>4
<1>4. ASSUME NEW u \in Operators, NEW v \in Operators, u # v,
             pc'[u] \in {"open", "write"}, pc'[v] \in {"open", "write"}
      PROVE  cmd'[u].build # cmd'[v].build
  <2>1. /\ cmd'[u] = cmd[u] /\ cmd'[v] = cmd[v]
        /\ \/ pc[u] \in {"open", "write"}
           \/ Move(u) /\ dir[cmd[u].build] = "none"
        /\ \/ pc[v] \in {"open", "write"}
           \/ Move(v) /\ dir[cmd[v].build] = "none"
    BY <1>2, <1>4 DEF OpenManifest, Move
  <2>2. CASE pc[u] \in {"open", "write"} /\ pc[v] \in {"open", "write"}
    BY <1>4, <2>1, <2>2 DEF WholeInv, Apart
  <2>3. CASE pc[u] \in {"open", "write"} /\ dir[cmd[v].build] = "none"
    BY <2>1, <2>3 DEF WholeInv, Making
  <2>4. CASE pc[v] \in {"open", "write"} /\ dir[cmd[u].build] = "none"
    BY <2>1, <2>4 DEF WholeInv, Making
  <2>5. CASE Move(u) /\ pc[v] \notin {"open", "write"} /\ pc[u] \notin {"open", "write"}
    BY <1>4, <2>5, OthersStay
  <2>6. QED BY <2>1, <2>2, <2>3, <2>4, <2>5
<1>5. \A u, v \in Operators : Apart(u, v)'
  BY <1>4 DEF Apart
<1>6. QED BY <1>3, <1>5

\* WholeInv is inductive.
LEMMA WholeStep ==
  ASSUME Typed, WholeInv, [Next]_vars
  PROVE  WholeInv'
<1>1. ASSUME NEW o \in Operators
      PROVE  Validated(o)'
  <2>1. SUFFICES ASSUME pc'[o] \in {"gate", "intent"} PROVE Whole(cmd[o].build)'
    BY DEF Validated
  <2>2. /\ cmd'[o] = cmd[o] /\ pc[o] \in {"validate", "gate", "intent"}
        /\ Whole(cmd[o].build)
    <3>1. CASE Move(o)
      <4>1. CASE pc'[o] = "gate"
        <5>1. Validate(o) /\ cmd' = cmd /\ Whole(cmd[o].build)
          BY <3>1, <4>1, CameFrom
        <5>2. QED BY <5>1 DEF Validate
      <4>2. CASE pc'[o] = "intent"
        <5>1. Gate(o) /\ cmd' = cmd
          BY <3>1, <4>2, CameFrom
        <5>2. pc[o] = "gate"
          BY <5>1 DEF Gate
        <5>3. QED BY <5>1, <5>2 DEF WholeInv, Validated
      <4>3. QED BY <2>1, <4>1, <4>2
    <3>2. CASE pc'[o] = pc[o] /\ cmd'[o] = cmd[o]
      BY <2>1, <3>2 DEF WholeInv, Validated
    <3>3. QED BY <3>1, <3>2, StaysOrMoves
  <2>3. cmd[o].build \in Builds
    BY <2>2 DEF Typed, Meant, Releasing
  <2>4. PICK b \in Builds : b = cmd[o].build
    BY <2>3
  <2>5. Whole(b)'
    BY <2>2, <2>4, WholeStays
  <2>6. QED BY <2>2, <2>4, <2>5 DEF Whole
<1>2. ASSUME NEW op \in DOMAIN journal
      PROVE  \E b \in Builds : journal'[op].to = b /\ journal[op].to = b /\ Whole(b)'
  <2>1. journal[op].to \in Builds /\ Whole(journal[op].to)
    BY EntryFields DEF Typed, WholeInv
  <2>2. PICK b \in Builds : b = journal[op].to
    BY <2>1
  <2>3. Whole(b)'
    BY <2>1, <2>2, WholeStays
  <2>4. QED BY <2>2, <2>3, JournalGrows
<1>3. ASSUME NEW op \in DOMAIN journal'
      PROVE  Whole(journal[op].to)'
  <2>1. CASE op \in DOMAIN journal
    BY <1>2, <2>1 DEF Whole
  <2>2. CASE op \notin DOMAIN journal
    <3>1. PICK o \in Operators : WriteIntent(o)
      <4>1. PICK o \in Operators : Move(o) /\ DOMAIN journal' # DOMAIN journal
        BY <1>3, <2>2, NextMoves DEF SwapLate, vars, world
      <4>2. CASE WriteIntent(o)
        BY <4>2
      <4>3. CASE ~WriteIntent(o)
        BY <4>1, <4>3, JournalSteps, RecordTypes DEF Typed
      <4>4. QED BY <4>2, <4>3
    <3>2. pc[o] = "intent" /\ op = Len(journal) + 1 /\ journal'[op].to = cmd[o].build
      BY <1>3, <2>2, <3>1, IntentAppends DEF WriteIntent
    <3>3. cmd[o].build \in Builds /\ Whole(cmd[o].build)
      BY <3>2 DEF Typed, Meant, Releasing, WholeInv, Validated
    <3>4. PICK b \in Builds : b = cmd[o].build
      BY <3>3
    <3>5. Whole(b)'
      BY <3>3, <3>4, WholeStays
    <3>6. QED BY <3>2, <3>4, <3>5 DEF Whole
  <2>3. QED BY <2>1, <2>2
<1>4. (alias # NoBuild => Whole(alias))'
  <2>1. CASE UNCHANGED alias
    <3>1. alias \in Builds \/ alias = NoBuild
      BY DEF Typed, TypeOK, Targets
    <3>2. CASE alias = NoBuild
      BY <2>1, <3>2
    <3>3. CASE alias \in Builds /\ alias # NoBuild
      <4>1. Whole(alias)
        BY <3>3 DEF WholeInv
      <4>2. PICK b \in Builds : b = alias
        BY <3>3
      <4>3. Whole(b)'
        BY <4>1, <4>2, WholeStays
      <4>4. QED BY <2>1, <4>2, <4>3 DEF Whole
    <3>4. QED BY <3>1, <3>2, <3>3
  <2>2. CASE ~UNCHANGED alias
    <3>1. PICK op \in DOMAIN journal : SwapNow(op)
      BY <2>2, AliasMoves
    <3>2. alias' = journal[op].to
      BY <3>1 DEF SwapNow
    <3>3. QED BY <1>2, <3>2 DEF Whole
  <2>3. QED BY <2>1, <2>2
<1>5. QED BY <1>1, <1>3, <1>4, MakingStays DEF WholeInv, Whole

\* WholeInv holds in every reachable state.
THEOREM WholeAlways == Spec => []WholeInv
<1>1. Init => WholeInv
  <2>1. SUFFICES ASSUME Init PROVE WholeInv
    OBVIOUS
  <2>2. /\ alias = NoBuild /\ journal = <<>>
        /\ pc = [o \in Operators |-> "idle"]
    BY <2>1, Zenon DEF Init
  <2>3. QED BY <2>2 DEF WholeInv, Making, Validated, Apart
<1>2. Typed /\ WholeInv /\ [Next]_vars => WholeInv'
  BY WholeStep
<1>3. QED BY <1>1, <1>2, TypedAlways, PTL DEF Spec

\* Whatever dies, races or arrives late, the alias never names a collection
\* left half full or a build without its manifest (index_builds.py:255-264).
THEOREM ServesCompleteBuildHolds == Spec => []ServesCompleteBuild
<1>1. WholeInv => ServesCompleteBuild
  BY DEF WholeInv, Whole, ServesCompleteBuild
<1>2. QED BY <1>1, WholeAlways, PTL

-----------------------------------------------------------------------------
(* A rollback goes to a build that was served.                             *)

\* What has been served is known where it is relied upon: at the gate of a
\* rollback, behind a swap that returned, and in a verdict.
Returned(o) ==
  /\ pc[o] = "intent" /\ cmd[o].kind = "rollback" => cmd[o].build \in served
  /\ pc[o] \in {"verify", "completed"} => journal[cmd[o].op].to \in served
  /\ pc[o] = "settle" /\ cmd[o].verdict = "completed" => journal[cmd[o].op].to \in served

ServedInv ==
  /\ \A o \in Operators : Returned(o)
  /\ alias # NoBuild => alias \in served
  /\ \A op \in DOMAIN journal :
       journal[op].kind = "rollback" \/ journal[op].event = "completed"
         => journal[op].to \in served

\* What was served stays served, and the alias names something served.
LEMMA ServedGrows ==
  ASSUME Typed, [Next]_vars
  PROVE  /\ served \subseteq served'
         /\ alias' # alias => alias' \in served'
  BY AliasMoves DEF SwapNow

\* ServedInv for the commands.
LEMMA ReturnedStays ==
  ASSUME Typed, ServedInv, [Next]_vars, NEW o \in Operators
  PROVE  Returned(o)'
<1>1. /\ served \subseteq served' /\ Meant(o) /\ Returned(o) /\ cmd[o] \in Command
  BY ServedGrows DEF Typed, TypeOK, ServedInv
<1>2. CASE pc'[o] = pc[o] /\ cmd'[o] = cmd[o]
  <2>1. pc[o] \in Journaled => journal'[cmd[o].op].to = journal[cmd[o].op].to
    BY <1>1, JournalGrows DEF Meant
  <2>2. QED BY <1>1, <1>2, <2>1 DEF Returned, Journaled
<1>3. CASE Move(o)
  <2>1. CASE pc'[o] = "intent"
    <3>1. Gate(o) /\ cmd' = cmd /\ GateOpen(o)
      BY <1>3, <2>1, CameFrom
    <3>2. cmd[o].kind = "rollback" => cmd[o].build \in served
      BY <3>1 DEF GateOpen, Released, ServedInv
    <3>3. QED BY <1>1, <2>1, <3>1, <3>2 DEF Returned
  <2>2. CASE pc'[o] = "verify"
    <3>1. Swap(o)
      BY <1>3, <2>2, CameFrom
    <3>2. journal[cmd[o].op].to \in served' /\ journal' = journal /\ cmd' = cmd
      BY <3>1 DEF Swap, SwapNow
    <3>3. QED BY <2>2, <3>2 DEF Returned
  <2>3. CASE pc'[o] = "completed"
    <3>1. Verify(o)
      BY <1>3, <2>3, CameFrom
    <3>2. pc[o] = "verify" /\ journal' = journal /\ cmd' = cmd /\ served' = served
      BY <3>1 DEF Verify, world
    <3>3. QED BY <1>1, <2>3, <3>2 DEF Returned
  <2>4. CASE pc'[o] = "settle"
    <3>1. Look(o) /\ cmd'[o] = [cmd[o] EXCEPT !.verdict = Verdict(journal[cmd[o].op])]
      BY <1>3, <2>4, CameFrom
    <3>2. /\ pc[o] = "look" /\ journal' = journal /\ served' = served
          /\ cmd'[o].op = cmd[o].op /\ cmd'[o].verdict = Verdict(journal[cmd[o].op])
      BY <1>1, <3>1 DEF Look, Command
    <3>3. cmd[o].op \in DOMAIN journal
      BY <1>1, <3>2 DEF Meant, Journaled
    <3>4. journal[cmd[o].op].to # NoBuild
      BY <3>3, EntryFields, NoBuildIsNoBuild DEF Typed
    <3>5. cmd'[o].verdict = "completed" => journal[cmd[o].op].to \in served
      BY <3>2, <3>4 DEF Verdict, ServedInv
    <3>6. QED BY <2>4, <3>2, <3>5 DEF Returned
  <2>5. QED BY <2>1, <2>2, <2>3, <2>4 DEF Returned
<1>4. QED BY <1>2, <1>3, StaysOrMoves

\* ServedInv is inductive.
LEMMA ServedStep ==
  ASSUME Typed, ServedInv, [Next]_vars
  PROVE  ServedInv'
<1>1. served \subseteq served' /\ (alias' # alias => alias' \in served')
  BY ServedGrows
<1>2. (alias # NoBuild => alias \in served)'
  BY <1>1 DEF ServedInv
<1>3. ASSUME NEW op \in DOMAIN journal',
             journal'[op].kind = "rollback" \/ journal'[op].event = "completed"
      PROVE  journal'[op].to \in served'
  <2>1. CASE journal' = journal
    BY <1>1, <1>3, <2>1 DEF ServedInv
  <2>2. ASSUME NEW o \in Operators, Move(o), journal' # journal
        PROVE  journal'[op].to \in served'
    <3>1. CASE WriteIntent(o)
      <4>1. pc[o] = "intent"
        BY <3>1 DEF WriteIntent
      <4>2. CASE op \in DOMAIN journal
        <5>1. journal'[op] = journal[op]
          BY <3>1, <4>2, IntentAppends
        <5>2. QED BY <1>1, <1>3, <4>2, <5>1 DEF ServedInv
      <4>3. CASE op \notin DOMAIN journal
        <5>1. /\ journal'[op].kind = cmd[o].kind /\ journal'[op].event = "intent"
              /\ journal'[op].to = cmd[o].build
          <6>1. PICK n : n = Len(journal) + 1
            OBVIOUS
          <6>2. /\ DOMAIN journal' = DOMAIN journal \cup {n}
                /\ journal'[n] = [from |-> cmd[o].prior, to |-> cmd[o].build,
                     kind |-> cmd[o].kind, report |-> cmd[o].report, event |-> "intent"]
            BY <3>1, <6>1, IntentAppends
          <6>3. op = n
            BY <1>3, <4>3, <6>2, Zenon
          <6>4. QED BY <6>2, <6>3
        <5>2. QED BY <1>1, <1>3, <4>1, <5>1 DEF ServedInv, Returned
      <4>4. QED BY <4>2, <4>3
    <3>2. CASE ~WriteIntent(o)
      <4>1. PICK e \in {"unknown_outcome", "completed", "not_applied"} : Record(cmd[o].op, e)
        BY <2>2, <3>2, JournalSteps
      <4>2. Conclude(o) \/ Settle(o)
        BY <2>2, <3>2, JournalSteps
      <4>3. cmd[o].op \in DOMAIN journal /\ TypeOK
        BY <2>2, <3>2, JournalSteps DEF Typed
      <4>4. /\ op \in DOMAIN journal /\ journal'[op].to = journal[op].to
            /\ journal'[op].kind = journal[op].kind
            /\ journal'[op].event = IF op = cmd[o].op THEN e ELSE journal[op].event
        BY <1>3, <4>1, <4>3, RecordTypes
      <4>5. CASE op # cmd[o].op
        BY <1>1, <1>3, <4>4, <4>5 DEF ServedInv
      <4>6. CASE op = cmd[o].op /\ journal'[op].kind = "rollback"
        BY <1>1, <4>4, <4>6 DEF ServedInv
      <4>7. CASE op = cmd[o].op /\ journal'[op].event = "completed"
        <5>1. journal[cmd[o].op].to \in served
          <6>2. CASE Conclude(o)
            <7>1. Record(cmd[o].op, pc[o]) /\ pc[o] \in {"completed", "unknown_outcome"}
              BY <6>2 DEF Conclude
            <7>2. journal'[op].event = pc[o]
              BY <4>3, <4>7, <7>1, RecordTypes
            <7>3. QED BY <4>7, <7>2 DEF ServedInv, Returned
          <6>3. CASE Settle(o)
            <7>1. Record(cmd[o].op, cmd[o].verdict) /\ pc[o] = "settle"
              BY <6>3 DEF Settle
            <7>2. cmd[o].verdict \in {"completed", "not_applied"}
              BY <7>1 DEF Typed, Meant
            <7>3. journal'[op].event = cmd[o].verdict
              BY <4>3, <4>7, <7>1, <7>2, RecordTypes
            <7>4. QED BY <4>7, <7>1, <7>3 DEF ServedInv, Returned
          <6>4. QED BY <4>2, <6>2, <6>3
        <5>2. QED BY <1>1, <4>4, <4>7, <5>1
      <4>8. QED BY <1>3, <4>5, <4>6, <4>7
    <3>3. QED BY <3>1, <3>2
  <2>3. QED BY <2>1, <2>2, NextMoves DEF SwapLate, vars, world
<1>4. QED BY <1>2, <1>3, ReturnedStays DEF ServedInv

\* ServedInv holds in every reachable state.
THEOREM ServedAlways == Spec => []ServedInv
<1>1. Init => ServedInv
  <2>1. SUFFICES ASSUME Init PROVE ServedInv
    OBVIOUS
  <2>2. /\ alias = NoBuild /\ journal = <<>>
        /\ pc = [o \in Operators |-> "idle"]
    BY <2>1, Zenon DEF Init
  <2>3. QED BY <2>2 DEF ServedInv, Returned
<1>2. Typed /\ ServedInv /\ [Next]_vars => ServedInv'
  BY ServedStep
<1>3. QED BY <1>1, <1>2, TypedAlways, PTL DEF Spec

\* A rollback goes to a build the alias has really named, although reconcile
\* may have written the record that proves it (index_builds.py:380-383).
THEOREM RollbackWasServedHolds == Spec => []RollbackWasServed
<1>1. ServedInv => RollbackWasServed
  BY DEF ServedInv, RollbackWasServed
<1>2. QED BY <1>1, ServedAlways, PTL

-----------------------------------------------------------------------------
(* A swap replaces what its operator expected, as long as no swap call was *)
(* cut off in flight: the lock makes what was read under it current.       *)

\* What an operator inside the lock has read of the alias is the alias.
Current(o) ==
  /\ pc[o] \in {"validate", "gate", "intent"} => cmd[o].prior = alias
  /\ pc[o] \in {"gate", "intent"} => cmd[o].build # alias
  /\ pc[o] = "intent" /\ cmd[o].kind = "promotion" => cmd[o].report = alias
  /\ pc[o] = "swap" =>
       LET entry == journal[cmd[o].op]
       IN  /\ entry.from = alias /\ entry.event = "intent" /\ cmd[o].op \notin applied
           /\ entry.kind = "promotion" => entry.report = alias
  /\ pc[o] = "settle" /\ cmd[o].verdict = "not_applied" => alias # journal[cmd[o].op].to

\* The alias is the doing of an operation that the journal does not deny.
Explained ==
  alias # NoBuild =>
    \E op \in DOMAIN journal :
      journal[op].to = alias /\ journal[op].event # "not_applied"

CurrentInv == late = {} => Explained /\ \A o \in Operators : Current(o)

\* Only one operator is inside the lock.
LEMMA OneInside ==
  ASSUME Typed, NEW u \in Operators, NEW v \in Operators,
         pc[u] \in Locked, pc[v] \in Locked
  PROVE  u = v
  BY DEF Typed, TypeOK

\* A swap that was cut off in flight stays on record.
LEMMA LateGrows ==
  ASSUME [Next]_vars, late' = {}
  PROVE  late = {}
<1>1. CASE UNCHANGED late
  BY <1>1
<1>2. ASSUME NEW o \in Operators, SwapRaises(o) \/ Die(o)
      PROVE  late \subseteq late'
  BY <1>2 DEF SwapRaises, Die
<1>3. ASSUME NEW o \in Operators,
             \/ Prepare(o) \/ MakeDir(o) \/ OpenManifest(o) \/ WriteManifest(o)
             \/ Install(o) \/ CreateCollection(o) \/ UpsertLast(o)
             \/ Release(o) \/ Lock(o) \/ ReadPrior(o) \/ Validate(o) \/ Gate(o)
             \/ WriteIntent(o) \/ Swap(o) \/ Verify(o) \/ Conclude(o)
             \/ Reconcile(o) \/ Look(o) \/ Settle(o)
      PROVE  UNCHANGED late
  BY <1>3 DEF Prepare, MakeDir, OpenManifest, WriteManifest, Install, CreateCollection,
     UpsertLast, Release, Lock, ReadPrior, Validate, Gate, Proceed, WriteIntent, Swap,
     Verify, Conclude, Reconcile, Look, Settle, world
<1>4. QED BY <1>1, <1>2, <1>3 DEF Next, SwapLate, vars, world

\* Around an operator inside the lock, nothing that it reads changes but by
\* its own steps.
LEMMA InsideAlone ==
  ASSUME Typed, [Next]_vars, late = {}, NEW v \in Operators, pc[v] \in Locked, ~Move(v)
  PROVE  UNCHANGED <<alias, applied, journal>>
<1>1. UNCHANGED <<alias, applied>>
  <2>1. ASSUME NEW o \in Operators, pc[o] = "swap", Move(o)
        PROVE  FALSE
    BY <2>1, OneInside DEF Locked
  <2>2. QED BY <2>1, AliasMoves
<1>2. UNCHANGED journal
  <2>1. ASSUME NEW o \in Operators, Move(o), journal' # journal
        PROVE  FALSE
    <3>1. WriteIntent(o) \/ Conclude(o) \/ Settle(o)
      BY <2>1, JournalSteps
    <3>2. pc[o] \in Locked
      BY <3>1 DEF WriteIntent, Conclude, Settle, Locked
    <3>3. QED BY <2>1, <3>2, OneInside
  <2>2. QED BY <2>1, NextMoves DEF SwapLate, vars, world
<1>3. QED BY <1>1, <1>2

\* What an operator reads under the lock stays current.
LEMMA CurrentStays ==
  ASSUME Typed, CurrentInv, [Next]_vars, late = {}, NEW o \in Operators
  PROVE  Current(o)'
<1>1. /\ Meant(o) /\ Current(o) /\ cmd[o] \in Command /\ applied \subseteq DOMAIN journal
  BY DEF Typed, TypeOK, CurrentInv
<1>2. CASE ~Move(o)
  <2>1. pc'[o] = pc[o] /\ cmd'[o] = cmd[o]
    BY <1>2, StaysOrMoves
  <2>2. CASE pc[o] \in Locked
    <3>1. UNCHANGED <<alias, applied, journal>>
      BY <1>2, <2>2, InsideAlone
    <3>2. QED BY <1>1, <2>1, <3>1 DEF Current
  <2>3. CASE pc[o] \notin Locked
    BY <2>1, <2>3 DEF Current, Locked
  <2>4. QED BY <2>2, <2>3
<1>3. CASE Move(o)
  <2>1. CASE pc'[o] = "validate"
    <3>1. ReadPrior(o) /\ cmd'[o] = [cmd[o] EXCEPT !.prior = alias]
      BY <1>3, <2>1, CameFrom
    <3>2. cmd'[o].prior = alias /\ alias' = alias
      BY <1>1, <3>1 DEF ReadPrior, Command
    <3>3. QED BY <2>1, <3>2 DEF Current
  <2>2. CASE pc'[o] = "gate"
    <3>1. Validate(o) /\ cmd' = cmd /\ cmd[o].build # cmd[o].prior
      BY <1>3, <2>2, CameFrom
    <3>2. pc[o] = "validate" /\ alias' = alias
      BY <3>1 DEF Validate, Proceed
    <3>3. QED BY <1>1, <2>2, <3>1, <3>2 DEF Current
  <2>3. CASE pc'[o] = "intent"
    <3>1. Gate(o) /\ cmd' = cmd /\ GateOpen(o)
      BY <1>3, <2>3, CameFrom
    <3>2. pc[o] = "gate" /\ alias' = alias
      BY <3>1 DEF Gate, Proceed
    <3>3. cmd[o].kind = "promotion" => cmd[o].report = alias
      BY <3>1 DEF GateOpen
    <3>4. QED BY <1>1, <2>3, <3>1, <3>2, <3>3 DEF Current
  <2>4. CASE pc'[o] = "swap"
    <3>1. WriteIntent(o)
      BY <1>3, <2>4, CameFrom
    <3>2. pc[o] = "intent" /\ alias' = alias /\ applied' = applied
      BY <3>1 DEF WriteIntent
    <3>3. PICK n : n = Len(journal) + 1
      OBVIOUS
    <3>4. /\ n \notin applied' /\ cmd'[o].op = n
          /\ journal'[n] = [from |-> cmd[o].prior, to |-> cmd[o].build,
               kind |-> cmd[o].kind, report |-> cmd[o].report, event |-> "intent"]
      BY <1>1, <3>1, <3>2, <3>3, IntentAppends
    <3>5. /\ journal'[n].from = alias' /\ journal'[n].event = "intent"
          /\ journal'[n].kind = "promotion" => journal'[n].report = alias'
      BY <1>1, <3>2, <3>4 DEF Current
    <3>6. QED BY <2>4, <3>4, <3>5 DEF Current
  <2>5. CASE pc'[o] = "settle"
    <3>1. Look(o) /\ cmd'[o] = [cmd[o] EXCEPT !.verdict = Verdict(journal[cmd[o].op])]
      BY <1>3, <2>5, CameFrom
    <3>2. /\ journal' = journal /\ alias' = alias
          /\ cmd'[o].op = cmd[o].op /\ cmd'[o].verdict = Verdict(journal[cmd[o].op])
      BY <1>1, <3>1 DEF Look, Command
    <3>3. cmd'[o].verdict = "not_applied" => alias # journal[cmd[o].op].to
      BY <3>2 DEF Verdict
    <3>4. QED BY <2>5, <3>2, <3>3 DEF Current
  <2>6. QED BY <2>1, <2>2, <2>3, <2>4, <2>5 DEF Current
<1>4. QED BY <1>2, <1>3

\* The journal explains the alias after a step that does not move it.
LEMMA ExplainedByRecord ==
  ASSUME Typed, CurrentInv, [Next]_vars, late = {}, alias' = alias
  PROVE  Explained'
<1>1. SUFFICES ASSUME alias # NoBuild PROVE Explained'
  BY DEF Explained
<1>2. PICK op \in DOMAIN journal :
        journal[op].to = alias /\ journal[op].event # "not_applied"
  BY <1>1 DEF CurrentInv, Explained
<1>3. op \in DOMAIN journal' /\ journal'[op].to = alias'
  BY <1>2, JournalGrows
<1>4. journal'[op].event # "not_applied"
  <2>1. CASE journal' = journal
    BY <1>2, <2>1
  <2>2. ASSUME NEW o \in Operators, Move(o), journal' # journal
        PROVE  journal'[op].event # "not_applied"
    <3>1. CASE WriteIntent(o)
      <4>1. journal'[op] = journal[op]
        BY <3>1, IntentAppends
      <4>2. QED BY <1>2, <4>1
    <3>2. CASE Conclude(o)
      <4>1. Record(cmd[o].op, pc[o]) /\ pc[o] \in {"completed", "unknown_outcome"}
        BY <3>2 DEF Conclude
      <4>2. cmd[o].op \in DOMAIN journal /\ TypeOK
        BY <4>1 DEF Typed, Meant, Journaled
      <4>3. journal'[op].event \in {pc[o], journal[op].event}
        BY <4>1, <4>2, RecordTypes
      <4>4. QED BY <1>2, <4>1, <4>3
    <3>3. CASE Settle(o)
      <4>1. Record(cmd[o].op, cmd[o].verdict) /\ pc[o] = "settle"
        BY <3>3 DEF Settle
      <4>2. /\ cmd[o].op \in DOMAIN journal /\ TypeOK
            /\ cmd[o].verdict \in {"completed", "not_applied"}
        BY <4>1 DEF Typed, Meant, Journaled
      <4>3. journal'[op].event = IF op = cmd[o].op THEN cmd[o].verdict ELSE journal[op].event
        BY <4>1, <4>2, RecordTypes
      <4>4. cmd[o].verdict = "not_applied" => op # cmd[o].op
        BY <1>2, <4>1 DEF CurrentInv, Current
      <4>5. QED BY <1>2, <4>2, <4>3, <4>4
    <3>4. QED BY <2>2, <3>1, <3>2, <3>3, JournalSteps
  <2>3. QED BY <2>1, <2>2, NextMoves DEF SwapLate, vars, world
<1>5. QED BY <1>3, <1>4 DEF Explained

\* A swap that moves the alias is the one of the operator inside the lock: it
\* takes effect once, from what was expected to what was asked.
LEMMA SwapIsExpected ==
  ASSUME Typed, CurrentInv, [Next]_vars, late = {}, alias' # alias
  PROVE  \E op \in DOMAIN journal :
           /\ op \in applied' \ applied
           /\ journal[op].from = alias /\ journal[op].to = alias'
           /\ journal[op].kind = "promotion" => journal[op].report = alias
           /\ journal[op].event = "intent" /\ journal' = journal
<1>1. PICK o \in Operators :
        /\ cmd[o].op \in DOMAIN journal /\ SwapNow(cmd[o].op)
        /\ pc[o] = "swap" /\ Move(o)
  BY AliasMoves
<1>2. /\ journal[cmd[o].op].from = alias /\ journal[cmd[o].op].event = "intent"
      /\ cmd[o].op \notin applied
      /\ journal[cmd[o].op].kind = "promotion" => journal[cmd[o].op].report = alias
  BY <1>1 DEF CurrentInv, Current
<1>3. alias' = journal[cmd[o].op].to /\ cmd[o].op \in applied'
  BY <1>1 DEF SwapNow
<1>4. journal' = journal
  BY <1>1, JournalSteps DEF WriteIntent, Conclude, Settle
<1>5. QED BY <1>1, <1>2, <1>3, <1>4

\* CurrentInv is inductive.
LEMMA CurrentStep ==
  ASSUME Typed, CurrentInv, [Next]_vars
  PROVE  CurrentInv'
<1>1. SUFFICES ASSUME late' = {} PROVE Explained' /\ \A o \in Operators : Current(o)'
  BY DEF CurrentInv
<1>2. late = {}
  BY <1>1, LateGrows
<1>3. \A o \in Operators : Current(o)'
  BY <1>2, CurrentStays
<1>4. CASE alias' = alias
  BY <1>2, <1>3, <1>4, ExplainedByRecord
<1>5. CASE alias' # alias
  <2>1. Explained'
    BY <1>2, <1>5, SwapIsExpected DEF Explained
  <2>2. QED BY <1>3, <2>1
<1>6. QED BY <1>4, <1>5

\* CurrentInv holds in every reachable state.
THEOREM CurrentAlways == Spec => []CurrentInv
<1>1. Init => CurrentInv
  <2>1. SUFFICES ASSUME Init PROVE CurrentInv
    OBVIOUS
  <2>2. alias = NoBuild /\ pc = [o \in Operators |-> "idle"]
    BY <2>1, Zenon DEF Init
  <2>3. QED BY <2>2 DEF CurrentInv, Explained, Current
<1>2. Typed /\ CurrentInv /\ [Next]_vars => CurrentInv'
  BY CurrentStep
<1>3. QED BY <1>1, <1>2, TypedAlways, PTL DEF Spec

\* As long as no swap call was cut off in flight, the alias is explained by an
\* operation that the journal does not call "not_applied".
THEOREM JournalExplainsAliasHolds == Spec => []JournalExplainsAlias
<1>1. CurrentInv => JournalExplainsAlias
  BY DEF CurrentInv, Explained, JournalExplainsAlias
<1>2. QED BY <1>1, CurrentAlways, PTL

\* As long as no swap call was cut off in flight, a swap replaces the very
\* build its operator expected and, for a promotion, the one its report was
\* evaluated against (release, under the lock).
THEOREM SwapReplacesExpectedHolds == Spec => SwapReplacesExpected
<1>1. ASSUME Typed, CurrentInv, [Next]_vars
      PROVE  [(late = {} /\ alias' # alias) =>
                \E op \in DOMAIN journal :
                  /\ op \in applied' \ applied
                  /\ journal[op].from = alias /\ journal[op].to = alias'
                  /\ journal[op].kind = "promotion" => journal[op].report = alias]_<<alias, applied>>
  BY <1>1, SwapIsExpected
<1>2. QED BY <1>1, TypedAlways, CurrentAlways, PTL DEF Spec, SwapReplacesExpected

=============================================================================
