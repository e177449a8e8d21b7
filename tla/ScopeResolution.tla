--------------------------- MODULE ScopeResolution ---------------------------
(***************************************************************************)
(* Which manual a question is about (resolve/scope.py): mentions of        *)
(* lenders, versions and days in the text are matched against the manifest *)
(* (ingest/manifest.py) and turned into a Qdrant filter                    *)
(* (store/qdrant_store.py).  Whatever does not name exactly one manual, or *)
(* two to compare, is a question back to the user, whose reply is appended *)
(* to the text (graph/pipeline.py) until it resolves or the rounds are     *)
(* used up.  The next question of the thread may be asked of another index *)
(* build, with another manifest.                                           *)
(*                                                                         *)
(* A text is reduced to what the patterns find in it.  Lenders, versions   *)
(* and "both" keep their order and distance: a mention counts as one       *)
(* character, "gap" stands for other text, longer than any reach.          *)
(* Time is counted in halves of a day, so that a manual may end or begin   *)
(* in the middle of one.                                                   *)
(***************************************************************************)
EXTENDS Naturals, Sequences, FiniteSets

CONSTANTS
  Lenders, Documents, Versions,
  Days,        \* calendar days a text can name
  NoDay,
  Open,        \* effective_to of the manual in force
  NoScope,     \* no prior scope
  Manifests,   \* contents of corpus_manifest.json, valid or not
  Questions,   \* texts a turn can start with
  Replies      \* texts a clarification can be answered with

Notes == {"bad_date", "partial_date", "historical", "current", "compare", "that"}

Text == [words : Seq(Lenders \cup Versions \cup {"both", "gap"}),
         days : SUBSET Days, notes : SUBSET Notes]

DocumentSpec ==
  [lender : Lenders, document : Documents, version : Versions, order : Nat,
   from : Nat, until : Nat \cup {Open}, status : {"current", "historical"},
   supersedes : Versions \cup {Open}]

\* datetime.date has a first and a last day.
ASSUME DaysAreNatural == Days \subseteq Nat /\ IsFiniteSet(Days)

ASSUME NamesDiffer == /\ NoDay \notin Nat /\ Open \notin Nat
                      /\ NoScope \notin DocumentSpec
                      /\ Lenders \cap Versions = {}
                      /\ {"both", "gap"} \cap (Lenders \cup Versions) = {}
ASSUME TextsAreTexts == Questions \subseteq Text /\ Replies \subseteq Text
ASSUME ManifestsAreSpecs == \A m \in Manifests : m \subseteq DocumentSpec /\ IsFiniteSet(m)

VARIABLES
  manifest,  \* the manifest of the build the turn is pinned to
  prior,     \* prior_scope
  history,   \* whether the thread has a finished turn
  behavior,  \* "policy" or "compare"
  text,      \* resolved_question
  rounds,    \* clarification_rounds
  node,      \* "idle" between turns, "resolve", "clarify", or "end"
  outcome,   \* scope, or comparison_resolution
  asked      \* history: reasons of the clarifications of this turn

vars == <<manifest, prior, history, behavior, text, rounds, node, outcome, asked>>

MaxClarify == 2   \* MAX_CLARIFICATION_ROUNDS
Reach      == 40  \* characters between a version and its lender
BothReach  == 30  \* characters between "both" and a version

-----------------------------------------------------------------------------
(* The manifest.                                                           *)

DayOf(instant) == instant \div 2
Midnight(day)  == 2 * day

\* Consecutive versions of one document, in version order.
Follows(previous, next, family) ==
  /\ previous.order < next.order
  /\ \A spec \in family : ~(previous.order < spec.order /\ spec.order < next.order)

ValidFamily(family) ==
  /\ \A s, t \in family : s.order = t.order => s = t
  /\ Cardinality({s \in family : s.status = "current"}) = 1
  /\ \A previous, next \in family : Follows(previous, next, family) =>
       /\ previous.until # Open /\ previous.until < next.from
       /\ next.supersedes = previous.version

LoadManifest(specs) ==
  /\ specs # {}
  /\ \A s, t \in specs : s.document = t.document /\ s.version = t.version => s = t
  /\ \A s \in specs : /\ s.until # Open => s.from <= s.until
                      /\ s.status = "current" <=> s.until = Open
  /\ \A s \in specs : ValidFamily({t \in specs : t.document = s.document})

\* Both ends of a manual's period are whole days here ...
Contains(spec, day) ==
  /\ DayOf(spec.from) <= day
  /\ spec.until = Open \/ day <= DayOf(spec.until)

\* ... and instants in the filter, which takes a day for its first instant.
Selects(filter, spec) ==
  /\ <<spec.lender, spec.document, spec.version>> =
       <<filter.lender, filter.document, filter.version>>
  /\ filter.current_only => spec.status = "current"
  /\ filter.as_of # NoDay =>
       /\ spec.from <= Midnight(filter.as_of)
       /\ spec.until = Open \/ spec.until >= Midnight(filter.as_of)

-----------------------------------------------------------------------------
(* What a text says.                                                       *)

Said(t)         == {t.words[i] : i \in DOMAIN t.words}
LendersSaid(t)  == Said(t) \cap {s.lender : s \in manifest}
VersionsSaid(t) == Said(t) \cap Versions

\* _mentioned_lenders_in_order.
LendersInOrder(t) ==
  LET First(l) == CHOOSE i \in DOMAIN t.words :
                    t.words[i] = l /\ \A j \in 1..(i - 1) : t.words[j] # l
  IN [k \in 1..Cardinality(LendersSaid(t)) |->
       CHOOSE l \in LendersSaid(t) :
         Cardinality({m \in LendersSaid(t) : First(m) < First(l)}) = k - 1]

IsComparisonRequest(t) ==
  /\ "compare" \in t.notes
  /\ \/ Cardinality(LendersSaid(t)) >= 2
     \/ Cardinality(LendersSaid(t)) = 1 /\ "that" \in t.notes

\* Characters between two mentions.
Distance(t, i, j) ==
  LET between == ((i + 1)..(j - 1)) \cup ((j + 1)..(i - 1))
  IN Cardinality(between) + Reach * Cardinality({k \in between : t.words[k] = "gap"})

-----------------------------------------------------------------------------
(* Decisions.  Checks are made in order; the first that fails asks.        *)

Check(fails, reason) == [fails |-> fails, reason |-> reason]

FirstFailing(checks) ==
  LET failing == {i \in DOMAIN checks : checks[i].fails}
  IN IF failing = {} THEN ""
     ELSE checks[CHOOSE i \in failing : \A j \in failing : i <= j].reason

Undecided == [status |-> "", reason |-> "", scopes |-> <<>>]

Clarification(reason) ==
  [status |-> IF reason = "KeyError" THEN "raised" ELSE "clarification",
   reason |-> reason, scopes |-> <<>>]

\* A plausible slip: current_only whenever no day is given.
FilterArgsAlwaysCurrent(spec, reason, days) ==
  [lender |-> spec.lender, document |-> spec.document, version |-> spec.version,
   as_of |-> IF days = {} THEN NoDay ELSE CHOOSE d \in days : TRUE,
   current_only |-> days = {}]

FilterArgs(spec, reason, days) ==
  [lender |-> spec.lender, document |-> spec.document, version |-> spec.version,
   as_of |-> IF days = {} THEN NoDay ELSE CHOOSE d \in days : TRUE,
   current_only |-> days = {} /\ reason = "default_current"]

Resolved(spec, reason, days) ==
  [spec |-> spec, reason |-> reason, filter |-> FilterArgs(spec, reason, days)]

Of(lender) == {s \in manifest : s.lender = lender}

InForce(family, t) == {s \in family : \A d \in t.days : Contains(s, d)}

CurrentOf(family) == {s \in family : s.status = "current"}

\* matching[0]: of several, the one that comes first in the manifest, whose
\* order is left open here.
TheFirst(specs) == CHOOSE s \in specs : TRUE

\* What both resolvers do with the manuals of one lender: by the version said
\* for it, else by the day, else the fallback.
Named(family, versions) == {s \in family : s.version \in versions}

\* A plausible slip: a version is taken whatever day it is asked for.
NeverAgainstDay(named, t) == FALSE

AgainstDay(named, t) == named # {} /\ TheFirst(named) \notin InForce(named, t)

TargetChecks(family, versions, t, fallback) ==
  LET named    == Named(family, versions)
      unspoken == versions = {}
  IN <<Check(~unspoken /\ named = {}, "unknown_version"),
       Check(AgainstDay(named, t), "version_date_conflict"),
       Check(unspoken /\ t.days # {} /\ Cardinality(InForce(family, t)) # 1,
             "date_not_covered"),
       Check(unspoken /\ t.days = {} /\ Cardinality(fallback) # 1,
             "current_version_not_unique")>>

Target(family, versions, t, fallback, reason) ==
  IF versions # {}    THEN Resolved(TheFirst(Named(family, versions)), "version", t.days)
  ELSE IF t.days # {} THEN Resolved(TheFirst(InForce(family, t)), "as_of_date", t.days)
  ELSE Resolved(TheFirst(fallback), reason, {})

\* resolve_query_scope, one manual.
ResolveQueryScope(t) ==
  LET family   == UNION {Of(l) : l \in LendersSaid(t)}
      versions == VersionsSaid(t)
      current  == CurrentOf(family)
      asks == FirstFailing(
        <<Check(LendersSaid(t) = {}, "missing_lender"),
          Check(Cardinality(LendersSaid(t)) > 1, "multiple_lenders"),
          Check(Cardinality({s.document : s \in family}) # 1, "multiple_products"),
          Check("bad_date" \in t.notes, "invalid_date"),
          Check(Cardinality(versions) > 1, "multiple_versions"),
          Check(Cardinality(t.days) > 1, "multiple_dates"),
          Check(t.days = {} /\ "partial_date" \in t.notes, "partial_date"),
          Check(versions = {} /\ t.days = {} /\ "historical" \in t.notes,
                "underspecified_historical")>>
        \o TargetChecks(family, versions, t, current))
  IN IF asks # "" THEN Clarification(asks)
     ELSE [status |-> "resolved", reason |-> "policy", scopes |->
           <<Target(family, versions, t, current, "default_current")>>]

-----------------------------------------------------------------------------
(* Comparisons: which version belongs to which lender.                     *)

\* "both ... V1" anywhere makes every mention of V1 one for all targets.
SaidOfBoth(t, i) ==
  \E j, k \in DOMAIN t.words :
    /\ t.words[j] = "both" /\ t.words[k] = t.words[i]
    /\ j < k /\ Distance(t, j, k) <= BothReach

\* The targets that the version at i is attached to, none if that is unclear.
AttachedTo(t, i, targets) ==
  IF SaidOfBoth(t, i) THEN targets
  ELSE {l \in targets : \E j \in DOMAIN t.words :
          /\ t.words[j] = l /\ Distance(t, i, j) <= Reach
          /\ \A k \in DOMAIN t.words : t.words[k] \in targets \ {l} =>
               Distance(t, i, j) < Distance(t, i, k)}

\* The mention of a version before position n that was attached to l last.
LastFor(t, l, targets, n) ==
  {i \in 1..(n - 1) :
     /\ t.words[i] \in Versions /\ l \in AttachedTo(t, i, targets)
     /\ \A j \in (i + 1)..(n - 1) :
          t.words[j] \in Versions => l \notin AttachedTo(t, j, targets)}

\* A plausible slip: the later version for a lender silently replaces the first.
ClashesNever(t, i, targets) == FALSE

Clashes(t, i, targets) ==
  /\ ~SaidOfBoth(t, i)
  /\ \E l \in AttachedTo(t, i, targets) :
       \E j \in LastFor(t, l, targets, i) : t.words[j] # t.words[i]

VersionChecks(t, targets) ==
  [i \in DOMAIN t.words |->
    LET version == t.words[i] \in Versions
    IN IF version /\ AttachedTo(t, i, targets) = {}
       THEN Check(TRUE, "ambiguous_comparison_version")
       ELSE Check(version /\ Clashes(t, i, targets), "multiple_versions_for_target")]

VersionFor(t, l, targets) ==
  {t.words[i] : i \in LastFor(t, l, targets, Len(t.words) + 1)}

\* The lenders of a comparison in textual order, the prior one first.
Targets(t) ==
  LET said == LendersInOrder(t)
  IN IF Len(said) = 1 /\ prior # NoScope /\ "compare" \in t.notes
        /\ prior.lender # said[1]
     THEN <<prior.lender>> \o said ELSE said

\* _resolve_comparison_target's choice when neither version nor day is said.
Fallback(t, l) ==
  LET kept == {s \in Of(l) : s.version = prior.version}
  IN IF /\ "current" \notin t.notes
        /\ prior # NoScope /\ prior.lender = l /\ Cardinality(kept) = 1
     THEN kept ELSE CurrentOf(Of(l))

SideChecks(t, l, targets) ==
  <<Check(Of(l) = {}, "unknown_lender")>>
  \o TargetChecks(Of(l), VersionFor(t, l, targets), t, Fallback(t, l))

\* resolve_comparison_scopes.  A prior lender that is not in the manifest of
\* this turn has no aliases: with a version in the text that is a KeyError.
ResolveComparison(t) ==
  LET pair    == Targets(t)
      targets == {pair[k] : k \in DOMAIN pair}
      asks == FirstFailing(
        <<Check(Len(pair) = 0, "missing_comparison_targets"),
          Check(Len(pair) = 1, "missing_comparison_target"),
          Check(Len(pair) > 2, "too_many_comparison_targets"),
          Check("bad_date" \in t.notes, "invalid_date"),
          Check(Cardinality(t.days) > 1, "multiple_dates"),
          Check(t.days = {} /\ "partial_date" \in t.notes, "partial_date"),
          Check(VersionsSaid(t) # {} /\ \E l \in targets : Of(l) = {}, "KeyError")>>
        \o VersionChecks(t, targets))
      side(k) == FirstFailing(SideChecks(t, pair[k], targets))
  IN IF asks # "" THEN Clarification(asks)
     ELSE IF side(1) # "" THEN Clarification(side(1))
     ELSE IF side(2) # "" THEN Clarification(side(2))
     ELSE [status |-> "resolved", reason |-> "comparison",
           scopes |-> [k \in 1..2 |->
             Target(Of(pair[k]), VersionFor(t, pair[k], targets), t,
                    Fallback(t, pair[k]), "comparison_default")]]

-----------------------------------------------------------------------------
(* The turn.                                                               *)

NothingSaid == [words |-> <<>>, days |-> {}, notes |-> {}]

Init ==
  /\ manifest \in {m \in Manifests : LoadManifest(m)}
  /\ prior = NoScope /\ history = FALSE /\ behavior = "policy"
  /\ text = NothingSaid /\ rounds = 0
  /\ node = "idle" /\ outcome = Undecided /\ asked = {}

\* A question: begin_turn_node, and the classifier of contextualize_node, which
\* is a model once there is a history.
Ask(question) ==
  /\ node = "idle" /\ node' = "resolve"
  /\ manifest' \in {m \in Manifests : LoadManifest(m)}
  /\ text' = question
  /\ behavior' \in {"policy", "compare"}
  /\ ~history => (behavior' = "compare" <=> IsComparisonRequest(question)')
  /\ UNCHANGED <<prior, history, rounds, outcome, asked>>

\* run_turn after the graph: a turn hands on its scope, a comparison none, and
\* is in the history unless it raised.  A turn that a guard rejected is undone,
\* back to where the latest message found it: behind a clarification that is a
\* scope which was not resolved.
Finish ==
  /\ node = "end" /\ node' = "idle"
  /\ \/ /\ outcome.status \in {"resolved", "unresolved"}
        /\ history' \in {history, TRUE}
        /\ prior' = IF outcome.reason = "policy" THEN outcome.scopes[1].spec ELSE NoScope
     \/ /\ outcome.status = "resolved" /\ history' = history
        /\ prior' = IF rounds > 0 THEN NoScope ELSE prior
     \/ outcome.status = "raised" /\ history' = history /\ prior' = NoScope
  /\ text' = NothingSaid /\ rounds' = 0 /\ outcome' = Undecided /\ asked' = {}
  /\ UNCHANGED <<manifest, behavior>>

\* A plausible slip: one question too many.
AskOrGiveUpLate(decision) ==
  IF decision.status # "clarification"
  THEN node' = "end" /\ outcome' = decision /\ asked' = asked
  ELSE IF rounds > MaxClarify
  THEN node' = "end" /\ asked' = asked
       /\ outcome' = [decision EXCEPT !.status = "unresolved"]
  ELSE node' = "clarify" /\ outcome' = decision
       /\ asked' = asked \cup {decision.reason}

\* _route_after_scope and _route_after_comparison_scope.
AskOrGiveUp(decision) ==
  IF decision.status # "clarification"
  THEN node' = "end" /\ outcome' = decision /\ asked' = asked
  ELSE IF rounds >= MaxClarify
  THEN node' = "end" /\ asked' = asked
       /\ outcome' = [decision EXCEPT !.status = "unresolved"]
  ELSE node' = "clarify" /\ outcome' = decision
       /\ asked' = asked \cup {decision.reason}

ResolveScope ==
  /\ node = "resolve" /\ behavior = "policy"
  /\ AskOrGiveUp(ResolveQueryScope(text))
  /\ UNCHANGED <<manifest, prior, history, behavior, text, rounds>>

ResolveComparisonScopes ==
  /\ node = "resolve" /\ behavior = "compare"
  /\ AskOrGiveUp(ResolveComparison(text))
  /\ UNCHANGED <<manifest, prior, history, behavior, text, rounds>>

\* A plausible slip: the reply replaces the question.
FoldedAlone(t, reply) == reply

Folded(t, reply) == [words |-> t.words \o reply.words,
                     days  |-> t.days \cup reply.days,
                     notes |-> t.notes \cup reply.notes]

\* clarify_node after its interrupt.
Reply(reply) ==
  /\ node = "clarify"
  /\ text' = Folded(text, reply) /\ rounds' = rounds + 1 /\ node' = "resolve"
  /\ UNCHANGED <<manifest, prior, history, behavior, outcome, asked>>

Next ==
  \/ \E question \in Questions : Ask(question)
  \/ ResolveScope
  \/ ResolveComparisonScopes
  \/ \E reply \in Replies : Reply(reply)
  \/ Finish

Spec == Init /\ [][Next]_vars

-----------------------------------------------------------------------------
(* Properties.                                                             *)

Reasons ==
  {"missing_lender", "multiple_lenders", "multiple_products", "invalid_date",
   "multiple_versions", "multiple_dates", "partial_date", "unknown_version",
   "version_date_conflict", "date_not_covered", "underspecified_historical",
   "current_version_not_unique", "missing_comparison_targets",
   "missing_comparison_target", "too_many_comparison_targets",
   "ambiguous_comparison_version", "multiple_versions_for_target",
   "unknown_lender"}

\* The state is well formed, no more than MaxClarify questions are asked, and
\* what is resolved has one scope, or two for a comparison.
TypeOK ==
  /\ manifest \in Manifests /\ prior \in DocumentSpec \cup {NoScope}
  /\ history \in BOOLEAN /\ behavior \in {"policy", "compare"}
  /\ text \in Text /\ rounds \in 0..MaxClarify
  /\ node \in {"idle", "resolve", "clarify", "end"} /\ asked \subseteq Reasons
  /\ outcome.status \in {"", "resolved", "clarification", "unresolved", "raised"}
  /\ outcome.reason \in Reasons \cup {"", "policy", "comparison", "KeyError"}
  /\ outcome.status = "resolved" =>
       /\ outcome.reason = IF behavior = "policy" THEN "policy" ELSE "comparison"
       /\ Len(outcome.scopes) = IF behavior = "policy" THEN 1 ELSE 2

Settled(kind) == outcome.status = "resolved" /\ behavior = kind

\* The manual a turn settles on agrees with everything the user has said in it,
\* in whatever order and in whichever reply: no other lender or version, in
\* force on the day, the only manual of its lender that is if no version was
\* said, and never the current one by default if an older one was asked for
\* (resolve_query_scope after each clarification).
ScopeFollowsDialogue ==
  Settled("policy") =>
    LET spec == outcome.scopes[1].spec
    IN /\ LendersSaid(text) = {spec.lender}
       /\ VersionsSaid(text) \subseteq {spec.version}
       /\ \A d \in text.days : Contains(spec, d)
       /\ VersionsSaid(text) = {} /\ text.days # {} =>
            InForce(Of(spec.lender), text) = {spec}
       /\ VersionsSaid(text) = {} /\ text.days = {} =>
            spec.status = "current" /\ "historical" \notin text.notes
       /\ "partial_date" \in text.notes => text.days # {}

\* The two sides of a comparison are two lenders, and no version that the user
\* attached is lost: each is that of a side unless "both" overrides it, both
\* sides are in force on the day, and "current" is obeyed where neither is said
\* (resolve_comparison_scopes).
ComparedAsSaid ==
  Settled("compare") =>
    LET specs == {outcome.scopes[k].spec : k \in 1..2}
    IN /\ Cardinality({s.lender : s \in specs}) = 2
       /\ LendersSaid(text) \subseteq {s.lender : s \in specs}
       /\ "both" \notin Said(text) =>
            VersionsSaid(text) \subseteq {s.version : s \in specs}
       /\ \A s \in specs : \A d \in text.days : Contains(s, d)
       /\ "current" \in text.notes /\ text.days = {} =>
            \A s \in specs : s.status = "current" \/ s.version \in VersionsSaid(text)

\* The scope finds its manual, and a day finds one: the filter of a scope lets chunks
\* of its manual through and of no other, unless that begins later on the very day that
\* was asked for; and a version is asked for on a day only when no manual of the lender
\* is in force on it, or one is replaced by the next in its course (load_manifest and
\* scope_filter compare instants, _contains days).
FilterFindsManual ==
  /\ outcome.status = "resolved" =>
       \A k \in DOMAIN outcome.scopes :
         LET scope == outcome.scopes[k]
             found == {s \in manifest : Selects(scope.filter, s)}
             late  == /\ scope.filter.as_of # NoDay
                      /\ scope.spec.from > Midnight(scope.filter.as_of)
         IN found = IF late THEN {} ELSE {scope.spec}
  /\ behavior = "policy" /\ node # "resolve" /\ outcome.reason = "date_not_covered" =>
       \A s, t \in InForce(UNION {Of(l) : l \in LendersSaid(text)}, text) :
         s.from < t.from => \A d \in text.days :
           s.until # Open /\ DayOf(s.until) = d /\ DayOf(t.from) = d

\* A reply is appended, never a correction: once one of these questions has
\* been asked, no reply resolves the turn, though the question invites one
\* (clarify_node).
NothingIsTakenBack ==
  outcome.status = "resolved" =>
    /\ asked \cap {"invalid_date", "multiple_dates"} = {}
    /\ behavior = "policy" =>
         asked \cap {"multiple_lenders", "multiple_products", "multiple_versions",
                     "unknown_version", "version_date_conflict"} = {}

=============================================================================
