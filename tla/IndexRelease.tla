---------------------------- MODULE IndexRelease -----------------------------
(***************************************************************************)
(* The index lifecycle of store/index_builds.py as its operators drive it  *)
(* (scripts/manage_index.py): prepare a build, install it as a Qdrant      *)
(* collection, move the alias to it (bootstrap, promote, rollback) under   *)
(* the admin lock with a journaled intent, and reconcile an operation      *)
(* whose outcome is unknown.                                               *)
(*                                                                         *)
(* A step is one access to the build directory, to Qdrant, to the journal  *)
(* or to the lock.  An operator's process may die between two steps.  A    *)
(* swap call that raises, or is cut off, may have taken effect, may take   *)
(* effect later, or never.                                                 *)
(***************************************************************************)
EXTENDS Naturals, Sequences

CONSTANTS
  Builds,      \* build ids; a build's collection is named after it
  NoBuild,     \* the alias does not exist
  Operators,   \* processes of the CLI
  NoOperator,  \* nobody holds the admin lock
  MaxOps,      \* bound: operation ids in the journal
  MaxFaults    \* bound: processes that die and swap calls that raise

ASSUME NoBuildIsNoBuild == NoBuild \notin Builds
ASSUME NoOperatorIsNone == NoOperator \notin Operators
ASSUME ReleaseBounds == MaxOps \in Nat /\ MaxFaults \in Nat

VARIABLES
  dir,       \* build directory: absent, made, manifest opened, complete
  coll,      \* the build's collection
  alias,     \* the build whose collection the alias names
  journal,   \* releases.jsonl by operation id, with the latest event of each
  lock,      \* holder of .admin.lock
  pc, cmd,   \* per operator: the next step and what it was asked and has read
  applied,   \* history: operations whose swap took effect
  late,      \* history: operations whose swap call was cut off in flight
  served,    \* history: builds the alias has named
  faults

world == <<dir, coll, alias, journal, lock>>
vars  == <<world, pc, cmd, applied, late, served, faults>>

Targets == Builds \cup {NoBuild}
Kinds   == {"bootstrap", "promotion", "rollback"}

\* report: the build that the evaluation report names as active.
Command ==
  [kind : Kinds \cup {"prepare", "install", "reconcile"}, build : Targets,
   expected : Targets, report : Targets, prior : Targets, op : 0..MaxOps,
   verdict : {"", "completed", "not_applied"}]

NoCommand == [kind |-> "prepare", build |-> NoBuild, expected |-> NoBuild,
              report |-> NoBuild, prior |-> NoBuild, op |-> 0, verdict |-> ""]

Entry == [from : Targets, to : Builds, kind : Kinds, report : Targets,
          event : {"intent", "unknown_outcome", "completed", "not_applied"}]

Locked == {"prior", "validate", "gate", "intent", "swap", "verify",
           "completed", "unknown_outcome", "look", "settle"}

Steps == Locked \cup {"idle", "mkdir", "open", "write", "create", "upsert", "lock"}

Init ==
  /\ dir = [b \in Builds |-> "none"]
  /\ coll = [b \in Builds |-> "none"]
  /\ alias = NoBuild /\ journal = <<>> /\ lock = NoOperator
  /\ pc = [o \in Operators |-> "idle"]
  /\ cmd = [o \in Operators |-> NoCommand]
  /\ applied = {} /\ late = {} /\ served = {} /\ faults = 0

Goto(o, step) == pc' = [pc EXCEPT ![o] = step]

Ask(o, command, step) == cmd' = [cmd EXCEPT ![o] = command] /\ Goto(o, step)

\* The command is over; admin_lock's finally, or the end of the process,
\* releases the lock.
Leave(o) ==
  /\ pc' = [pc EXCEPT ![o] = "idle"]
  /\ cmd' = [cmd EXCEPT ![o] = NoCommand]
  /\ lock' = IF lock = o THEN NoOperator ELSE lock

-----------------------------------------------------------------------------
(* Building: prepare_build and capture_existing, then install_candidate.   *)

Prepare(o) ==
  /\ pc[o] = "idle"
  /\ \E b \in Builds : dir[b] = "none" /\ Ask(o, [NoCommand EXCEPT !.build = b], "mkdir")
  /\ UNCHANGED <<world, applied, late, served, faults>>

\* _snapshot: mkdir refuses a directory that exists.
MakeDir(o) ==
  /\ pc[o] = "mkdir"
  /\ LET b == cmd[o].build
     IN  IF dir[b] = "none"
         THEN dir' = [dir EXCEPT ![b] = "made"] /\ Goto(o, "open") /\ UNCHANGED <<cmd, lock>>
         ELSE Leave(o) /\ UNCHANGED dir
  /\ UNCHANGED <<coll, alias, journal, applied, late, served, faults>>

\* write_once(manifest.json), after every artifact: created, then written.
OpenManifest(o) ==
  /\ pc[o] = "open"
  /\ dir' = [dir EXCEPT ![cmd[o].build] = "torn"]
  /\ Goto(o, "write")
  /\ UNCHANGED <<coll, alias, journal, lock, cmd, applied, late, served, faults>>

WriteManifest(o) ==
  /\ pc[o] = "write"
  /\ dir' = [dir EXCEPT ![cmd[o].build] = "complete"]
  /\ Leave(o)
  /\ UNCHANGED <<coll, alias, journal, applied, late, served, faults>>

Install(o) ==
  /\ pc[o] = "idle"
  /\ \E b \in Builds :
       /\ dir[b] = "complete" /\ coll[b] = "none"
       /\ Ask(o, [NoCommand EXCEPT !.kind = "install", !.build = b], "create")
  /\ UNCHANGED <<world, applied, late, served, faults>>

\* ensure_collection refuses a versioned collection that exists.
CreateCollection(o) ==
  /\ pc[o] = "create"
  /\ LET b == cmd[o].build
     IN  IF coll[b] = "none"
         THEN coll' = [coll EXCEPT ![b] = "partial"] /\ Goto(o, "upsert") /\ UNCHANGED <<cmd, lock>>
         ELSE Leave(o) /\ UNCHANGED coll
  /\ UNCHANGED <<dir, alias, journal, applied, late, served, faults>>

\* The last batch of points; until then the collection is partial.
UpsertLast(o) ==
  /\ pc[o] = "upsert"
  /\ coll' = [coll EXCEPT ![cmd[o].build] = "full"]
  /\ Leave(o)
  /\ UNCHANGED <<dir, alias, journal, applied, late, served, faults>>

-----------------------------------------------------------------------------
(* release.                                                                *)

\* The concrete collection an operator expects is what he saw some time ago;
\* bootstrap passes none.
Release(o) ==
  /\ pc[o] = "idle"
  /\ \E kind \in Kinds, b \in Builds, expected \in Targets, report \in Builds :
       /\ kind = "bootstrap" <=> expected = NoBuild
       /\ kind # "promotion" => report = b
       /\ Ask(o, [NoCommand EXCEPT !.kind = kind, !.build = b, !.expected = expected,
                   !.report = IF kind = "promotion" THEN report ELSE NoBuild], "lock")
  /\ UNCHANGED <<world, applied, late, served, faults>>

\* Mutant of Lock: the file lock is shared.
LockShared(o) ==
  /\ pc[o] = "lock"
  /\ lock' = o
  /\ Goto(o, IF cmd[o].kind = "reconcile" THEN "look" ELSE "prior")
  /\ UNCHANGED <<dir, coll, alias, journal, cmd, applied, late, served, faults>>

\* admin_lock.
Lock(o) ==
  /\ pc[o] = "lock" /\ lock = NoOperator
  /\ lock' = o
  /\ Goto(o, IF cmd[o].kind = "reconcile" THEN "look" ELSE "prior")
  /\ UNCHANGED <<dir, coll, alias, journal, cmd, applied, late, served, faults>>

\* The stale-release precondition.
ReadPrior(o) ==
  /\ pc[o] = "prior"
  /\ IF alias = cmd[o].expected
     THEN Ask(o, [cmd[o] EXCEPT !.prior = alias], "validate") /\ UNCHANGED lock
     ELSE Leave(o)
  /\ UNCHANGED <<dir, coll, alias, journal, applied, late, served, faults>>

Proceed(o, ok, step) ==
  /\ IF ok THEN Goto(o, step) /\ UNCHANGED <<cmd, lock>> ELSE Leave(o)
  /\ UNCHANGED <<dir, coll, alias, journal, applied, late, served, faults>>

\* Mutant of Validate: the installed points are not compared.
ValidateManifestOnly(o) ==
  /\ pc[o] = "validate"
  /\ LET b == cmd[o].build
     IN  Proceed(o, dir[b] = "complete" /\ coll[b] # "none" /\ b # cmd[o].prior, "gate")

\* validate_collection, and a target that is not there already.
Validate(o) ==
  /\ pc[o] = "validate"
  /\ LET b == cmd[o].build
     IN  Proceed(o, dir[b] = "complete" /\ coll[b] = "full" /\ b # cmd[o].prior, "gate")

\* resolve_active reads every manifest there is.
Resolvable ==
  /\ alias # NoBuild
  /\ dir[alias] = "complete"
  /\ \A b \in Builds : dir[b] # "torn"

\* Mutant of Released: an intent counts.
ReleasedOrIntended(b) == \E op \in DOMAIN journal : journal[op].to = b

\* The journal says that the alias has named b.
Released(b) ==
  \E op \in DOMAIN journal : journal[op].to = b /\ journal[op].event = "completed"

\* The gates of the three kinds.  A promotion needs a report of the active
\* build against this one; its quality is for the reviewers to decide.
GateOpen(o) ==
  CASE cmd[o].kind = "bootstrap" -> cmd[o].prior = NoBuild
    [] cmd[o].kind = "rollback"  -> Released(cmd[o].build)
    [] cmd[o].kind = "promotion" -> Resolvable /\ cmd[o].report = alias

Gate(o) ==
  /\ pc[o] = "gate"
  /\ \/ Proceed(o, GateOpen(o), "intent")
     \/ cmd[o].kind = "promotion" /\ Proceed(o, FALSE, "intent")

WriteIntent(o) ==
  /\ pc[o] = "intent" /\ Len(journal) < MaxOps
  /\ journal' = Append(journal, [from |-> cmd[o].prior, to |-> cmd[o].build,
                  kind |-> cmd[o].kind, report |-> cmd[o].report, event |-> "intent"])
  /\ Ask(o, [cmd[o] EXCEPT !.op = Len(journal) + 1], "swap")
  /\ UNCHANGED <<dir, coll, alias, lock, applied, late, served, faults>>

\* update_collection_aliases: delete and create in one request.
SwapNow(op) ==
  /\ alias' = journal[op].to
  /\ applied' = applied \cup {op}
  /\ served' = served \cup {journal[op].to}

Swap(o) ==
  /\ pc[o] = "swap"
  /\ SwapNow(cmd[o].op)
  /\ Goto(o, "verify")
  /\ UNCHANGED <<dir, coll, journal, lock, cmd, late, faults>>

\* The call raises: done already, not done, or still under way.
SwapRaises(o) ==
  /\ pc[o] = "swap" /\ faults < MaxFaults
  /\ faults' = faults + 1
  /\ \/ SwapNow(cmd[o].op) /\ UNCHANGED late
     \/ UNCHANGED <<alias, applied, served, late>>
     \/ late' = late \cup {cmd[o].op} /\ UNCHANGED <<alias, applied, served>>
  /\ Goto(o, "unknown_outcome")
  /\ UNCHANGED <<dir, coll, journal, lock, cmd>>

\* A swap that was cut off takes effect.
SwapLate ==
  /\ \E op \in late \ applied : SwapNow(op)
  /\ UNCHANGED <<dir, coll, journal, lock, pc, cmd, late, faults>>

Verify(o) ==
  /\ pc[o] = "verify"
  /\ Goto(o, IF alias = cmd[o].build THEN "completed" ELSE "unknown_outcome")
  /\ UNCHANGED <<world, cmd, applied, late, served, faults>>

Record(op, event) == journal' = [journal EXCEPT ![op].event = event]

\* The last journal line of the operation, and the end of the command.
Conclude(o) ==
  /\ pc[o] \in {"completed", "unknown_outcome"}
  /\ Record(cmd[o].op, pc[o])
  /\ Leave(o)
  /\ UNCHANGED <<dir, coll, alias, applied, late, served, faults>>

-----------------------------------------------------------------------------
(* reconcile.                                                              *)

Reconcile(o) ==
  /\ pc[o] = "idle"
  /\ \E op \in DOMAIN journal :
       Ask(o, [NoCommand EXCEPT !.kind = "reconcile", !.op = op], "lock")
  /\ UNCHANGED <<world, applied, late, served, faults>>

\* Mutant of Verdict: the two comparisons are swapped.
VerdictSwapped(entry) ==
  IF alias = entry.to THEN "not_applied" ELSE IF alias = entry.from THEN "completed" ELSE ""

\* What the alias says of an unfinished operation, "" when it says nothing.
Verdict(entry) ==
  IF alias = entry.to THEN "completed" ELSE IF alias = entry.from THEN "not_applied" ELSE ""

Look(o) ==
  /\ pc[o] = "look"
  /\ LET entry == journal[cmd[o].op]
     IN  IF entry.event \in {"completed", "not_applied"} \/ Verdict(entry) = ""
         THEN Leave(o)
         ELSE Ask(o, [cmd[o] EXCEPT !.verdict = Verdict(entry)], "settle") /\ UNCHANGED lock
  /\ UNCHANGED <<dir, coll, alias, journal, applied, late, served, faults>>

Settle(o) ==
  /\ pc[o] = "settle"
  /\ Record(cmd[o].op, cmd[o].verdict)
  /\ Leave(o)
  /\ UNCHANGED <<dir, coll, alias, applied, late, served, faults>>

-----------------------------------------------------------------------------

\* The process dies, or an exception ends the command.  A swap call it was
\* waiting for may still be under way.
Die(o) ==
  /\ pc[o] # "idle" /\ faults < MaxFaults
  /\ faults' = faults + 1
  /\ Leave(o)
  /\ \/ UNCHANGED late
     \/ pc[o] = "swap" /\ late' = late \cup {cmd[o].op}
  /\ UNCHANGED <<dir, coll, alias, journal, applied, served>>

Next ==
  \/ \E o \in Operators :
       \/ Prepare(o) \/ MakeDir(o) \/ OpenManifest(o) \/ WriteManifest(o)
       \/ Install(o) \/ CreateCollection(o) \/ UpsertLast(o)
       \/ Release(o) \/ Lock(o) \/ ReadPrior(o) \/ Validate(o) \/ Gate(o)
       \/ WriteIntent(o) \/ Swap(o) \/ SwapRaises(o) \/ Verify(o) \/ Conclude(o)
       \/ Reconcile(o) \/ Look(o) \/ Settle(o) \/ Die(o)
  \/ SwapLate

Spec == Init /\ [][Next]_vars

-----------------------------------------------------------------------------
(* Properties.                                                             *)

\* Every variable holds what the code can store in it, and the lock is held
\* exactly by the operator inside admin_lock.
TypeOK ==
  /\ dir \in [Builds -> {"none", "made", "torn", "complete"}]
  /\ coll \in [Builds -> {"none", "partial", "full"}]
  /\ alias \in Targets
  /\ journal \in Seq(Entry) /\ Len(journal) <= MaxOps
  /\ pc \in [Operators -> Steps]
  /\ cmd \in [Operators -> Command]
  /\ applied \subseteq DOMAIN journal /\ late \subseteq DOMAIN journal
  /\ served \subseteq Builds /\ faults \in 0..MaxFaults
  /\ \A o \in Operators : lock = o <=> pc[o] \in Locked
  /\ lock \in Operators \cup {NoOperator}

\* Whatever dies, races or arrives late, the alias never names a collection
\* that an install left half full or a build without its manifest
\* (index_builds.py:255-264: an interrupted install is refused, not resumed).
ServesCompleteBuild ==
  alias # NoBuild => coll[alias] = "full" /\ dir[alias] = "complete"

\* A rollback goes to a build the alias has really named, although reconcile
\* may have written the record that proves it (index_builds.py:380-383).
RollbackWasServed ==
  \A op \in DOMAIN journal : journal[op].kind = "rollback" => journal[op].to \in served

\* As long as no swap call was cut off in flight, the alias is explained by an
\* operation that the journal does not call "not_applied".
JournalExplainsAlias ==
  late = {} /\ alias # NoBuild =>
    \E op \in DOMAIN journal :
      journal[op].to = alias /\ journal[op].event # "not_applied"

\* As long as no swap call was cut off in flight, a swap replaces the very
\* build its operator expected and, for a promotion, the one its report was
\* evaluated against; the alias never disappears (release, under the lock).
SwapReplacesExpected ==
  [][(late = {} /\ alias' # alias) =>
       \E op \in DOMAIN journal :
         /\ op \in applied' \ applied
         /\ journal[op].from = alias /\ journal[op].to = alias'
         /\ journal[op].kind = "promotion" => journal[op].report = alias]_<<alias, applied>>
=============================================================================
