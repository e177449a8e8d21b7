------------------------- MODULE ScopeResolutionProofs -------------------------
(***************************************************************************)
(* Theorems about scope resolution, for every manifest, every text and     *)
(* every number of turns: the manual a dialogue settles on is the one that *)
(* was asked for, a comparison keeps the versions it was told, and a       *)
(* filter finds its manual.                                                *)
(***************************************************************************)
EXTENDS ScopeResolution, FiniteSetTheorems, SequenceTheorems, WellFoundedInduction, TLAPS

-----------------------------------------------------------------------------
(* Sets and lists of checks.                                               *)

\* A set of numbers that is not empty has a least one.
LEMMA LeastNat ==
  ASSUME NEW S \in SUBSET Nat, S # {}
  PROVE  \E m \in S : \A n \in S : m <= n
<1> DEFINE T == {0..m : m \in S}
<1>1. IsWellFoundedOn(StrictSubsetOrdering(Nat), FiniteSubsetsOf(Nat))
  BY FS_StrictSubsetOrderingWellFounded
<1>2. T \subseteq FiniteSubsetsOf(Nat)
  <2>1. \A m \in S : IsFiniteSet(0..m) BY FS_Interval
  <2>2. \A m \in S : 0..m \subseteq Nat OBVIOUS
  <2> QED BY <2>1, <2>2 DEF FiniteSubsetsOf
<1>3. T # {} OBVIOUS
<1>4. PICK x \in T : \A y \in T : <<y, x>> \notin StrictSubsetOrdering(Nat)
  <2> HIDE DEF T
  <2> QED BY <1>1, <1>2, <1>3, WFMin
<1>5. PICK m \in S : x = 0..m BY <1>4
<1>6. ASSUME NEW n \in S, n < m PROVE FALSE
  <2>1. 0..n \subseteq 0..m /\ 0..n # 0..m /\ 0..n \subseteq Nat /\ 0..m \subseteq Nat BY <1>6
  <2>2. <<0..n, 0..m>> \in StrictSubsetOrdering(Nat) BY <2>1 DEF StrictSubsetOrdering
  <2> QED BY <2>2, <1>4, <1>5
<1> QED BY <1>5, <1>6

\* A bounded set of numbers that is not empty has a greatest one.
LEMMA GreatestBelow ==
  ASSUME NEW n \in Nat, NEW S \in SUBSET Nat, S # {}, \A m \in S : m <= n
  PROVE  \E m \in S : \A k \in S : k <= m
<1> DEFINE T == {n - m : m \in S}
<1>0. \A m \in S : n - m \in Nat OBVIOUS
<1>1. T \in SUBSET Nat /\ T # {} BY <1>0
<1>2. PICK d \in T : \A e \in T : d <= e BY <1>1, LeastNat
<1>3. PICK m \in S : d = n - m BY <1>2
<1>4. ASSUME NEW k \in S PROVE k <= m
  <2>1. n - k \in T /\ n - k \in Nat /\ k \in Nat /\ m \in Nat OBVIOUS
  <2>2. n - m <= n - k BY <1>2, <1>3, <2>1
  <2> QED BY <2>1, <2>2
<1> QED BY <1>3, <1>4

\* Several elements.
LEMMA SeveralSplit ==
  ASSUME NEW S, Cardinality(S) > 1
  PROVE  \E x, y \in S : x # y
<1>1. SUFFICES ASSUME \A x, y \in S : x = y PROVE FALSE OBVIOUS
<1>2. S # {} BY FS_EmptySet
<1>3. PICK x \in S : S = {x} BY <1>1, <1>2
<1>4. Cardinality(S) = 1 BY <1>3, FS_Singleton
<1> QED BY <1>4

\* A finite set with two members counts more than one.
LEMMA SeveralJoin ==
  ASSUME NEW S, IsFiniteSet(S), NEW x \in S, NEW y \in S, x # y
  PROVE  Cardinality(S) > 1 /\ Cardinality(S) # 1
<1>1. Cardinality(S) \in Nat BY FS_CardinalityType
<1>2. Cardinality(S) # 0 BY FS_EmptySet
<1>3. Cardinality(S) # 1
  <2>1. SUFFICES ASSUME Cardinality(S) = 1 PROVE FALSE OBVIOUS
  <2>2. PICK z : S = {z} BY <2>1, FS_Singleton
  <2> QED BY <2>2
<1> QED BY <1>1, <1>2, <1>3

\* A finite set that counts neither none nor several has one member.
LEMMA OneOnly ==
  ASSUME NEW S, IsFiniteSet(S), S # {}, ~(Cardinality(S) > 1)
  PROVE  \E x : S = {x}
<1>1. Cardinality(S) \in Nat BY FS_CardinalityType
<1>2. Cardinality(S) # 0 BY FS_EmptySet
<1>3. Cardinality(S) = 1 BY <1>1, <1>2
<1> QED BY <1>3, FS_Singleton

\* A set that counts one holds the one TheFirst gives.
LEMMA OneExactly ==
  ASSUME NEW S, IsFiniteSet(S), Cardinality(S) = 1
  PROVE  \E x : S = {x} /\ TheFirst(S) = x
<1>1. PICK x : S = {x} BY FS_Singleton
<1>2. TheFirst(S) = x BY <1>1 DEF TheFirst
<1> QED BY <1>1, <1>2

\* TheFirst of a set is in it.
LEMMA FirstIsOne ==
  ASSUME NEW S, S # {} PROVE TheFirst(S) \in S
BY DEF TheFirst

\* What a check can say: the reason of a question, or the KeyError of a
\* manifest without the family.
Verdicts == Reasons \cup {"KeyError"}

\* A check of the resolver: whether it fails, and what it says then.
Checks == [fails : BOOLEAN, reason : Verdicts]

\* A check and a list of one check are what they are meant to be.
LEMMA CheckType ==
  ASSUME NEW fails \in BOOLEAN, NEW reason \in Verdicts
  PROVE  Check(fails, reason) \in Checks
BY DEF Check, Checks

\* The first check that fails decides, and none of those before it.
LEMMA FirstFailingDecides ==
  ASSUME NEW checks \in Seq(Checks)
  PROVE  \/ /\ FirstFailing(checks) = ""
            /\ \A i \in 1..Len(checks) : ~checks[i].fails
         \/ \E k \in 1..Len(checks) :
              /\ FirstFailing(checks) = checks[k].reason /\ checks[k].reason \in Verdicts
              /\ checks[k].fails
              /\ \A j \in 1..k - 1 : ~checks[j].fails
<1> DEFINE failing == {i \in DOMAIN checks : checks[i].fails}
<1>1. DOMAIN checks = 1..Len(checks) /\ Len(checks) \in Nat OBVIOUS
<1>2. CASE failing = {}
  <2>1. FirstFailing(checks) = "" BY <1>2 DEF FirstFailing
  <2> QED BY <1>1, <1>2, <2>1
<1>3. CASE failing # {}
  <2>1. failing \in SUBSET Nat BY <1>1
  <2>2. PICK k \in failing : \A j \in failing : k <= j
    <3> HIDE DEF failing
    <3> QED BY <1>3, <2>1, LeastNat
  <2>3. (CHOOSE i \in failing : \A j \in failing : i <= j) = k
    <3> HIDE DEF failing
    <3>1. \A i \in failing : (\A j \in failing : i <= j) => i = k BY <2>1, <2>2
    <3> QED BY <2>2, <3>1
  <2>4. FirstFailing(checks) = checks[k].reason BY <1>3, <2>3 DEF FirstFailing
  <2>5. \A j \in 1..k - 1 : ~checks[j].fails
    <3>1. k \in 1..Len(checks) BY <1>1, <2>2
    <3>2. ASSUME NEW j \in 1..k - 1, checks[j].fails PROVE FALSE
      <4>1. j \in failing BY <1>1, <3>1, <3>2
      <4> HIDE DEF failing
      <4> QED BY <2>1, <2>2, <3>1, <3>2, <4>1
    <3> QED BY <3>2
  <2>6. checks[k].reason \in Verdicts
    <3>1. k \in 1..Len(checks) BY <1>1, <2>2
    <3>2. checks[k] \in Checks BY <1>1, <3>1
    <3> QED BY <3>2 DEF Checks
  <2> QED BY <1>1, <2>2, <2>4, <2>5, <2>6
<1> QED BY <1>2, <1>3

\* Two lists of checks, one after the other.
LEMMA JoinedChecks ==
  ASSUME NEW p \in Seq(Checks), NEW q \in Seq(Checks)
  PROVE  /\ p \o q \in Seq(Checks) /\ Len(p \o q) = Len(p) + Len(q)
         /\ \A i \in 1..Len(p) : (p \o q)[i] = p[i]
         /\ \A i \in 1..Len(q) : (p \o q)[Len(p) + i] = q[i]
OBVIOUS

\* Both parts of a list of checks pass, or one check decides.
LEMMA FirstFailingOfTwo ==
  ASSUME NEW p \in Seq(Checks), NEW q \in Seq(Checks)
  PROVE  \/ /\ FirstFailing(p \o q) = ""
            /\ \A i \in 1..Len(p) : ~p[i].fails
            /\ \A i \in 1..Len(q) : ~q[i].fails
         \/ \E k \in 1..Len(p) :
              /\ FirstFailing(p \o q) = p[k].reason /\ p[k].reason \in Verdicts
              /\ p[k].fails /\ \A j \in 1..k - 1 : ~p[j].fails
         \/ \E k \in 1..Len(q) :
              /\ FirstFailing(p \o q) = q[k].reason /\ q[k].reason \in Verdicts
              /\ q[k].fails /\ \A j \in 1..k - 1 : ~q[j].fails
              /\ \A j \in 1..Len(p) : ~p[j].fails
<1>1. PICK s \in Seq(Checks) : s = p \o q BY JoinedChecks
<1>2. PICK m \in Nat, n \in Nat : m = Len(p) /\ n = Len(q) OBVIOUS
<1>3. /\ Len(s) = m + n
      /\ \A i \in 1..m : s[i] = p[i] /\ i \in 1..Len(s)
      /\ \A i \in 1..n : s[m + i] = q[i] /\ m + i \in 1..Len(s)
  BY <1>1, <1>2, JoinedChecks
<1>4. CASE FirstFailing(s) = "" /\ \A i \in 1..Len(s) : ~s[i].fails
  <2>1. \A i \in 1..m : ~p[i].fails BY <1>3, <1>4
  <2>2. \A i \in 1..n : ~q[i].fails BY <1>3, <1>4
  <2> QED BY <1>1, <1>2, <1>4, <2>1, <2>2
<1>5. ASSUME NEW k \in 1..Len(s), FirstFailing(s) = s[k].reason, s[k].reason \in Verdicts,
             s[k].fails,
             \A j \in 1..k - 1 : ~s[j].fails
      PROVE  \/ \E i \in 1..m :
                  /\ FirstFailing(s) = p[i].reason /\ p[i].reason \in Verdicts
                  /\ p[i].fails /\ \A j \in 1..i - 1 : ~p[j].fails
             \/ \E i \in 1..n :
                  /\ FirstFailing(s) = q[i].reason /\ q[i].reason \in Verdicts
                  /\ q[i].fails /\ \A j \in 1..i - 1 : ~q[j].fails
                  /\ \A j \in 1..m : ~p[j].fails
  <2>1. CASE k <= m
    <3>1. k \in 1..m /\ \A j \in 1..k - 1 : j \in 1..m BY <1>3, <2>1
    <3>2. \A j \in 1..k - 1 : ~p[j].fails BY <1>3, <1>5, <3>1
    <3> QED BY <1>3, <1>5, <3>1, <3>2
  <2>2. CASE k > m
    <3>1. PICK i \in 1..n : k = m + i
      <4>1. k - m \in 1..n /\ k = m + (k - m) BY <1>3, <2>2
      <4> QED BY <4>1
    <3>2. /\ \A j \in 1..i - 1 : j \in 1..n /\ m + j \in 1..k - 1
          /\ \A j \in 1..m : j \in 1..k - 1
      BY <3>1
    <3>3. \A j \in 1..i - 1 : ~q[j].fails BY <1>3, <1>5, <3>2
    <3>4. \A j \in 1..m : ~p[j].fails BY <1>3, <1>5, <3>2
    <3> QED BY <1>3, <1>5, <3>1, <3>3, <3>4
  <2> QED BY <1>3, <2>1, <2>2
<1>6. \/ FirstFailing(s) = "" /\ \A i \in 1..Len(s) : ~s[i].fails
      \/ \E k \in 1..Len(s) :
           /\ FirstFailing(s) = s[k].reason /\ s[k].reason \in Verdicts /\ s[k].fails
           /\ \A j \in 1..k - 1 : ~s[j].fails
  BY FirstFailingDecides, Zenon
<1>7. CASE \E k \in 1..Len(s) :
           /\ FirstFailing(s) = s[k].reason /\ s[k].reason \in Verdicts /\ s[k].fails
           /\ \A j \in 1..k - 1 : ~s[j].fails
  <2>1. \/ \E i \in 1..m :
             /\ FirstFailing(s) = p[i].reason /\ p[i].reason \in Verdicts
             /\ p[i].fails /\ \A j \in 1..i - 1 : ~p[j].fails
        \/ \E i \in 1..n :
             /\ FirstFailing(s) = q[i].reason /\ q[i].reason \in Verdicts
             /\ q[i].fails /\ \A j \in 1..i - 1 : ~q[j].fails
             /\ \A j \in 1..m : ~p[j].fails
    BY <1>5, <1>7, Zenon
  <2> QED BY <1>1, <1>2, <2>1, Zenon
<1> QED BY <1>4, <1>6, <1>7, Zenon

-----------------------------------------------------------------------------
(* Texts and manifests.                                                    *)

\* A text says finitely many lenders, versions and days.
LEMMA SaidIsFinite ==
  ASSUME NEW t \in Text
  PROVE  /\ IsFiniteSet(Said(t)) /\ IsFiniteSet(LendersSaid(t)) /\ IsFiniteSet(VersionsSaid(t))
         /\ IsFiniteSet(t.days) /\ t.days \subseteq Days /\ t.days \subseteq Nat
         /\ t.words \in Seq(Lenders \cup Versions \cup {"both", "gap"})
<1>1. t.words \in Seq(Lenders \cup Versions \cup {"both", "gap"}) /\ t.days \subseteq Days
  BY DEF Text
<1>2. PICK w \in Seq(Lenders \cup Versions \cup {"both", "gap"}) : w = t.words BY <1>1
<1>3. IsFiniteSet(1..Len(w)) BY FS_Interval
<1>4. Said(t) = {w[i] : i \in 1..Len(w)} BY <1>2 DEF Said
<1>5. w \in Surjection(1..Len(w), Said(t)) BY <1>4 DEF Surjection
<1>6. IsFiniteSet(Said(t)) BY <1>3, <1>5, FS_Surjection
<1>7. IsFiniteSet(LendersSaid(t)) /\ IsFiniteSet(VersionsSaid(t))
  BY <1>6, FS_Intersection DEF LendersSaid, VersionsSaid
<1>8. IsFiniteSet(t.days) BY <1>1, DaysAreNatural, FS_Subset
<1> QED BY <1>1, <1>6, <1>7, <1>8, DaysAreNatural

\* A manifest and what is selected from it are finite sets of specifications.
LEMMA ManifestIsFinite ==
  ASSUME manifest \in Manifests
  PROVE  /\ manifest \subseteq DocumentSpec
         /\ \A S \in SUBSET manifest : IsFiniteSet(S)
BY ManifestsAreSpecs, FS_Subset

\* The fields of a specification of the manifest.
LEMMA SpecFields ==
  ASSUME manifest \in Manifests, NEW s \in manifest
  PROVE  /\ s \in DocumentSpec
         /\ s.lender \in Lenders /\ s.document \in Documents /\ s.version \in Versions
         /\ s.order \in Nat /\ s.from \in Nat /\ s.until \in Nat \cup {Open}
         /\ s.status \in {"current", "historical"}
<1>1. s \in DocumentSpec BY ManifestIsFinite
<1> QED BY <1>1 DEF DocumentSpec

\* A later version begins behind the end of every earlier one.
LEMMA VersionsInCourse ==
  ASSUME manifest \in Manifests, LoadManifest(manifest),
         NEW s \in manifest, NEW t \in manifest, s.document = t.document, s.order < t.order
  PROVE  s.until \in Nat /\ s.until < t.from
<1> DEFINE family == {x \in manifest : x.document = s.document}
           Before(x) == s.until \in Nat /\ s.until < x.from
<1>1. /\ \A x \in family : x \in manifest /\ x.order \in Nat /\ x.from \in Nat
                           /\ x.until \in Nat \cup {Open}
      /\ s \in family /\ t \in family
  BY SpecFields
<1>2. \A x, y \in family : Follows(x, y, family) => x.until # Open /\ x.until < y.from
  BY DEF LoadManifest, ValidFamily
<1>3. \A x \in family : x.until # Open => x.from <= x.until BY <1>1 DEF LoadManifest
<1> HIDE DEF family
<1>4. ASSUME ~Before(t) PROVE FALSE
  <2> DEFINE bad == {n \in Nat : \E x \in family : x.order = n /\ s.order < n /\ ~Before(x)}
  <2>1. bad \in SUBSET Nat /\ bad # {} BY <1>1, <1>4
  <2>2. PICK n \in bad : \A m \in bad : n <= m
    <3> HIDE DEF bad
    <3> QED BY <2>1, LeastNat
  <2>3. PICK x \in family : x.order = n /\ s.order < n /\ ~Before(x) OBVIOUS
  <2>4. n \in Nat /\ s.order \in Nat BY <1>1, <2>1
  <2> DEFINE between == {m \in Nat : \E y \in family : y.order = m /\ s.order < m /\ m < n}
  <2>5. CASE between = {}
    <3>1. Follows(s, x, family) BY <1>1, <2>3, <2>5 DEF Follows
    <3>2. s.until # Open /\ s.until < x.from BY <1>1, <1>2, <3>1
    <3> QED BY <1>1, <2>3, <3>2
  <2>6. CASE between # {}
    <3>1. between \in SUBSET Nat /\ \A m \in between : m <= n BY <2>4
    <3>2. PICK m \in between : \A k \in between : k <= m
      <4> HIDE DEF between
      <4> QED BY <2>4, <2>6, <3>1, GreatestBelow
    <3>3. PICK y \in family : y.order = m /\ s.order < m /\ m < n OBVIOUS
    <3>4. Follows(y, x, family)
      <4>1. ASSUME NEW z \in family, y.order < z.order, z.order < x.order PROVE FALSE
        <5>1. z.order \in Nat BY <1>1
        <5>2. z.order \in between BY <2>3, <2>4, <3>3, <4>1, <5>1
        <5> HIDE DEF between
        <5> QED BY <3>1, <3>2, <3>3, <4>1, <5>1, <5>2
      <4> QED BY <2>3, <3>3, <4>1 DEF Follows
    <3>5. Before(y)
      <4>1. m \in Nat /\ m \notin bad BY <2>2, <2>4, <3>3
      <4> QED BY <3>3, <4>1
    <3>6. y.until # Open /\ y.until < x.from /\ y.from <= y.until BY <1>2, <1>3, <3>4
    <3>7. y.until \in Nat /\ y.from \in Nat /\ x.from \in Nat BY <1>1, <3>6
    <3>8. s.until \in Nat /\ s.until < x.from BY <3>5, <3>6, <3>7
    <3> QED BY <2>3, <3>8
  <2> QED BY <2>5, <2>6
<1> QED BY <1>4

-----------------------------------------------------------------------------
(* One manual.                                                             *)

\* What must not be for a manual to be named: by the version, the day or the rest.
TargetFails(family, versions, t, fallback) ==
  \/ versions # {} /\ Named(family, versions) = {}
  \/ AgainstDay(Named(family, versions), t)
  \/ versions = {} /\ t.days # {} /\ Cardinality(InForce(family, t)) # 1
  \/ versions = {} /\ t.days = {} /\ Cardinality(fallback) # 1

\* The four checks of the search for one manual, in their order.
LEMMA TargetChecksAre ==
  ASSUME NEW family, NEW versions, NEW t, NEW fallback
  PROVE  LET q == TargetChecks(family, versions, t, fallback)
         IN /\ q \in Seq(Checks) /\ Len(q) = 4
            /\ q[1].reason = "unknown_version" /\ q[2].reason = "version_date_conflict"
            /\ q[3].reason = "date_not_covered" /\ q[4].reason = "current_version_not_unique"
            /\ q[1].fails <=> versions # {} /\ Named(family, versions) = {}
            /\ q[2].fails <=> AgainstDay(Named(family, versions), t)
            /\ q[3].fails <=> versions = {} /\ t.days # {} /\ Cardinality(InForce(family, t)) # 1
            /\ q[4].fails <=> versions = {} /\ t.days = {} /\ Cardinality(fallback) # 1
<1> DEFINE q == TargetChecks(family, versions, t, fallback)
<1>1. PICK f1 \in BOOLEAN, f2 \in BOOLEAN, f3 \in BOOLEAN, f4 \in BOOLEAN :
        /\ f1 = (~(versions = {}) /\ Named(family, versions) = {})
        /\ f2 = AgainstDay(Named(family, versions), t)
        /\ f3 = (versions = {} /\ t.days # {} /\ Cardinality(InForce(family, t)) # 1)
        /\ f4 = (versions = {} /\ t.days = {} /\ Cardinality(fallback) # 1)
  BY DEF AgainstDay
<1>2. q = <<Check(f1, "unknown_version"), Check(f2, "version_date_conflict"),
            Check(f3, "date_not_covered"), Check(f4, "current_version_not_unique")>>
  BY <1>1, Zenon DEF TargetChecks
<1>3. /\ Check(f1, "unknown_version") \in Checks /\ Check(f2, "version_date_conflict") \in Checks
      /\ Check(f3, "date_not_covered") \in Checks
      /\ Check(f4, "current_version_not_unique") \in Checks
  BY CheckType DEF Verdicts, Reasons
<1>4. q \in Seq(Checks) /\ Len(q) = 4 BY <1>2, <1>3
<1>5. /\ q[1] = Check(f1, "unknown_version") /\ q[2] = Check(f2, "version_date_conflict")
      /\ q[3] = Check(f3, "date_not_covered") /\ q[4] = Check(f4, "current_version_not_unique")
  BY <1>2
<1>7. /\ q[1].reason = "unknown_version" /\ q[1].fails = f1
      /\ q[2].reason = "version_date_conflict" /\ q[2].fails = f2
      /\ q[3].reason = "date_not_covered" /\ q[3].fails = f3
      /\ q[4].reason = "current_version_not_unique" /\ q[4].fails = f4
  <2> HIDE DEF q
  <2>1. q[1].reason = "unknown_version" /\ q[1].fails = f1 BY <1>5 DEF Check
  <2>2. q[2].reason = "version_date_conflict" /\ q[2].fails = f2 BY <1>5 DEF Check
  <2>3. q[3].reason = "date_not_covered" /\ q[3].fails = f3 BY <1>5 DEF Check
  <2>4. q[4].reason = "current_version_not_unique" /\ q[4].fails = f4 BY <1>5 DEF Check
  <2> QED BY <2>1, <2>2, <2>3, <2>4
<1>8. f1 <=> versions # {} /\ Named(family, versions) = {} BY <1>1, Zenon
<1>9. f2 <=> AgainstDay(Named(family, versions), t) BY <1>1, Zenon
<1>10. f3 <=> versions = {} /\ t.days # {} /\ Cardinality(InForce(family, t)) # 1 BY <1>1, Zenon
<1>11. f4 <=> versions = {} /\ t.days = {} /\ Cardinality(fallback) # 1 BY <1>1, Zenon
<1> HIDE DEF q
<1> QED BY <1>4, <1>7, <1>8, <1>9, <1>10, <1>11, Zenon DEF q

\* The manuals of the lenders the text says.
Family(t) == UNION {Of(l) : l \in LendersSaid(t)}

\* What resolve_query_scope asks about before it looks for the manual.
PolicyGuards(t) ==
  <<Check(LendersSaid(t) = {}, "missing_lender"),
    Check(Cardinality(LendersSaid(t)) > 1, "multiple_lenders"),
    Check(Cardinality({s.document : s \in Family(t)}) # 1, "multiple_products"),
    Check("bad_date" \in t.notes, "invalid_date"),
    Check(Cardinality(VersionsSaid(t)) > 1, "multiple_versions"),
    Check(Cardinality(t.days) > 1, "multiple_dates"),
    Check(t.days = {} /\ "partial_date" \in t.notes, "partial_date"),
    Check(VersionsSaid(t) = {} /\ t.days = {} /\ "historical" \in t.notes,
          "underspecified_historical")>>

\* The eight checks before that search, in their order.
LEMMA PolicyGuardsAre ==
  ASSUME NEW t
  PROVE  LET q == PolicyGuards(t)
         IN /\ q \in Seq(Checks) /\ Len(q) = 8
            /\ q[1].reason = "missing_lender"
            /\ q[1].fails <=> LendersSaid(t) = {}
            /\ q[2].reason = "multiple_lenders"
            /\ q[2].fails <=> Cardinality(LendersSaid(t)) > 1
            /\ q[3].reason = "multiple_products"
            /\ q[3].fails <=> Cardinality({s.document : s \in Family(t)}) # 1
            /\ q[4].reason = "invalid_date"
            /\ q[4].fails <=> "bad_date" \in t.notes
            /\ q[5].reason = "multiple_versions"
            /\ q[5].fails <=> Cardinality(VersionsSaid(t)) > 1
            /\ q[6].reason = "multiple_dates"
            /\ q[6].fails <=> Cardinality(t.days) > 1
            /\ q[7].reason = "partial_date"
            /\ q[7].fails <=> t.days = {} /\ "partial_date" \in t.notes
            /\ q[8].reason = "underspecified_historical"
            /\ q[8].fails <=> VersionsSaid(t) = {} /\ t.days = {} /\ "historical" \in t.notes
<1> DEFINE q == PolicyGuards(t)
<1>0a. (LendersSaid(t) = {}) \in BOOLEAN OBVIOUS
<1>1a. PICK f1 \in BOOLEAN : f1 = (LendersSaid(t) = {}) BY <1>0a, Zenon
<1>0b. (Cardinality(LendersSaid(t)) > 1) \in BOOLEAN OBVIOUS
<1>1b. PICK f2 \in BOOLEAN : f2 = (Cardinality(LendersSaid(t)) > 1) BY <1>0b, Zenon
<1>0c. (Cardinality({s.document : s \in Family(t)}) # 1) \in BOOLEAN OBVIOUS
<1>1c. PICK f3 \in BOOLEAN : f3 = (Cardinality({s.document : s \in Family(t)}) # 1)
  BY <1>0c, Zenon
<1>0d. ("bad_date" \in t.notes) \in BOOLEAN OBVIOUS
<1>1d. PICK f4 \in BOOLEAN : f4 = ("bad_date" \in t.notes) BY <1>0d, Zenon
<1>0e. (Cardinality(VersionsSaid(t)) > 1) \in BOOLEAN OBVIOUS
<1>1e. PICK f5 \in BOOLEAN : f5 = (Cardinality(VersionsSaid(t)) > 1) BY <1>0e, Zenon
<1>0f. (Cardinality(t.days) > 1) \in BOOLEAN OBVIOUS
<1>1f. PICK f6 \in BOOLEAN : f6 = (Cardinality(t.days) > 1) BY <1>0f, Zenon
<1>0g. (t.days = {} /\ "partial_date" \in t.notes) \in BOOLEAN OBVIOUS
<1>1g. PICK f7 \in BOOLEAN : f7 = (t.days = {} /\ "partial_date" \in t.notes) BY <1>0g, Zenon
<1>0h. (VersionsSaid(t) = {} /\ t.days = {} /\ "historical" \in t.notes) \in BOOLEAN OBVIOUS
<1>1h. PICK f8 \in BOOLEAN : f8 = (VersionsSaid(t) = {} /\ t.days = {} /\ "historical" \in t.notes)
  BY <1>0h, Zenon
<1>2. q = <<Check(f1, "missing_lender"),
            Check(f2, "multiple_lenders"),
            Check(f3, "multiple_products"),
            Check(f4, "invalid_date"),
            Check(f5, "multiple_versions"),
            Check(f6, "multiple_dates"),
            Check(f7, "partial_date"),
            Check(f8, "underspecified_historical")>>
  BY <1>1a, <1>1b, <1>1c, <1>1d, <1>1e, <1>1f, <1>1g, <1>1h, Zenon DEF PolicyGuards
<1>3. /\ Check(f1, "missing_lender") \in Checks
      /\ Check(f2, "multiple_lenders") \in Checks
      /\ Check(f3, "multiple_products") \in Checks
      /\ Check(f4, "invalid_date") \in Checks
      /\ Check(f5, "multiple_versions") \in Checks
      /\ Check(f6, "multiple_dates") \in Checks
      /\ Check(f7, "partial_date") \in Checks
      /\ Check(f8, "underspecified_historical") \in Checks
  BY CheckType DEF Verdicts, Reasons
<1>4. q \in Seq(Checks) /\ Len(q) = 8 BY <1>2, <1>3
<1>5. /\ q[1] = Check(f1, "missing_lender")
      /\ q[2] = Check(f2, "multiple_lenders")
      /\ q[3] = Check(f3, "multiple_products")
      /\ q[4] = Check(f4, "invalid_date")
      /\ q[5] = Check(f5, "multiple_versions")
      /\ q[6] = Check(f6, "multiple_dates")
      /\ q[7] = Check(f7, "partial_date")
      /\ q[8] = Check(f8, "underspecified_historical")
  BY <1>2
<1>6. /\ q[1].reason = "missing_lender" /\ q[1].fails = f1
      /\ q[2].reason = "multiple_lenders" /\ q[2].fails = f2
      /\ q[3].reason = "multiple_products" /\ q[3].fails = f3
      /\ q[4].reason = "invalid_date" /\ q[4].fails = f4
      /\ q[5].reason = "multiple_versions" /\ q[5].fails = f5
      /\ q[6].reason = "multiple_dates" /\ q[6].fails = f6
      /\ q[7].reason = "partial_date" /\ q[7].fails = f7
      /\ q[8].reason = "underspecified_historical" /\ q[8].fails = f8
  <2> HIDE DEF q
  <2>1. q[1].reason = "missing_lender" /\ q[1].fails = f1 BY <1>5 DEF Check
  <2>2. q[2].reason = "multiple_lenders" /\ q[2].fails = f2 BY <1>5 DEF Check
  <2>3. q[3].reason = "multiple_products" /\ q[3].fails = f3 BY <1>5 DEF Check
  <2>4. q[4].reason = "invalid_date" /\ q[4].fails = f4 BY <1>5 DEF Check
  <2>5. q[5].reason = "multiple_versions" /\ q[5].fails = f5 BY <1>5 DEF Check
  <2>6. q[6].reason = "multiple_dates" /\ q[6].fails = f6 BY <1>5 DEF Check
  <2>7. q[7].reason = "partial_date" /\ q[7].fails = f7 BY <1>5 DEF Check
  <2>8. q[8].reason = "underspecified_historical" /\ q[8].fails = f8 BY <1>5 DEF Check
  <2> QED BY <2>1, <2>2, <2>3, <2>4, <2>5, <2>6, <2>7, <2>8
<1>7. f1 <=> LendersSaid(t) = {} BY <1>1a, Zenon
<1>8. f2 <=> Cardinality(LendersSaid(t)) > 1 BY <1>1b, Zenon
<1>9. f3 <=> Cardinality({s.document : s \in Family(t)}) # 1 BY <1>1c, Zenon
<1>10. f4 <=> "bad_date" \in t.notes BY <1>1d, Zenon
<1>11. f5 <=> Cardinality(VersionsSaid(t)) > 1 BY <1>1e, Zenon
<1>12. f6 <=> Cardinality(t.days) > 1 BY <1>1f, Zenon
<1>13. f7 <=> t.days = {} /\ "partial_date" \in t.notes BY <1>1g, Zenon
<1>14. f8 <=> VersionsSaid(t) = {} /\ t.days = {} /\ "historical" \in t.notes BY <1>1h, Zenon
<1> HIDE DEF q
<1> QED BY <1>4, <1>6, <1>7, <1>8, <1>9, <1>10, <1>11, <1>12, <1>13, <1>14, Zenon DEF q

\* resolve_query_scope asks for the first check of both lists that fails, else resolves.
LEMMA PolicyChecks ==
  ASSUME NEW t
  PROVE  LET asks == FirstFailing(PolicyGuards(t)
                       \o TargetChecks(Family(t), VersionsSaid(t), t, CurrentOf(Family(t))))
         IN ResolveQueryScope(t) =
              IF asks # "" THEN Clarification(asks)
              ELSE [status |-> "resolved", reason |-> "policy", scopes |->
                     <<Target(Family(t), VersionsSaid(t), t, CurrentOf(Family(t)),
                              "default_current")>>]
BY DEF ResolveQueryScope, PolicyGuards, Family

\* What has been said once none of these is asked.
PolicyPassed(t) ==
  /\ LendersSaid(t) # {} /\ ~(Cardinality(LendersSaid(t)) > 1)
  /\ Cardinality({s.document : s \in Family(t)}) = 1
  /\ "bad_date" \notin t.notes
  /\ ~(Cardinality(VersionsSaid(t)) > 1)
  /\ ~(Cardinality(t.days) > 1)
  /\ t.days = {} => "partial_date" \notin t.notes
  /\ VersionsSaid(t) = {} /\ t.days = {} => "historical" \notin t.notes

\* What each of the questions about one manual says of the text.
PolicyAsks(t, reason) ==
  \/ reason \in {"missing_lender", "partial_date", "underspecified_historical",
                 "current_version_not_unique"}
  \/ reason = "multiple_lenders" /\ Cardinality(LendersSaid(t)) > 1
  \/ /\ reason = "multiple_products"
     /\ LendersSaid(t) # {} /\ ~(Cardinality(LendersSaid(t)) > 1)
     /\ Cardinality({s.document : s \in Family(t)}) # 1
  \/ reason = "invalid_date" /\ "bad_date" \in t.notes
  \/ reason = "multiple_versions" /\ Cardinality(VersionsSaid(t)) > 1
  \/ reason = "multiple_dates" /\ Cardinality(t.days) > 1
  \/ /\ reason = "unknown_version" /\ PolicyPassed(t)
     /\ VersionsSaid(t) # {} /\ Named(Family(t), VersionsSaid(t)) = {}
  \/ /\ reason = "version_date_conflict" /\ PolicyPassed(t)
     /\ AgainstDay(Named(Family(t), VersionsSaid(t)), t)
  \/ reason = "date_not_covered" /\ PolicyPassed(t) /\ VersionsSaid(t) = {} /\ t.days # {}

\* resolve_query_scope resolves a text that passes every check, and asks about any other.
LEMMA PolicyDecides ==
  ASSUME NEW t
  PROVE  \/ /\ PolicyPassed(t)
            /\ ~TargetFails(Family(t), VersionsSaid(t), t, CurrentOf(Family(t)))
            /\ ResolveQueryScope(t) =
                 [status |-> "resolved", reason |-> "policy", scopes |->
                    <<Target(Family(t), VersionsSaid(t), t, CurrentOf(Family(t)),
                             "default_current")>>]
         \/ \E reason \in Reasons : /\ ResolveQueryScope(t) = Clarification(reason)
                                    /\ PolicyAsks(t, reason)
<1> DEFINE p == PolicyGuards(t)
           q == TargetChecks(Family(t), VersionsSaid(t), t, CurrentOf(Family(t)))
           Asks(reason) ==
             reason \in Reasons /\ FirstFailing(p \o q) = reason /\ PolicyAsks(t, reason)
<1>1. /\ p \in Seq(Checks) /\ Len(p) = 8
      /\ p[1].reason = "missing_lender" /\ (p[1].fails <=> LendersSaid(t) = {})
      /\ p[2].reason = "multiple_lenders" /\ (p[2].fails <=> Cardinality(LendersSaid(t)) > 1)
      /\ p[3].reason = "multiple_products"
      /\ (p[3].fails <=> Cardinality({s.document : s \in Family(t)}) # 1)
      /\ p[4].reason = "invalid_date" /\ (p[4].fails <=> "bad_date" \in t.notes)
      /\ p[5].reason = "multiple_versions" /\ (p[5].fails <=> Cardinality(VersionsSaid(t)) > 1)
      /\ p[6].reason = "multiple_dates" /\ (p[6].fails <=> Cardinality(t.days) > 1)
      /\ p[7].reason = "partial_date"
      /\ (p[7].fails <=> t.days = {} /\ "partial_date" \in t.notes)
      /\ p[8].reason = "underspecified_historical"
      /\ (p[8].fails <=> VersionsSaid(t) = {} /\ t.days = {} /\ "historical" \in t.notes)
  BY PolicyGuardsAre, Zenon
<1>2. /\ q \in Seq(Checks) /\ Len(q) = 4
      /\ q[1].reason = "unknown_version"
      /\ q[2].reason = "version_date_conflict"
      /\ q[3].reason = "date_not_covered"
      /\ q[4].reason = "current_version_not_unique"
      /\ q[1].fails <=> VersionsSaid(t) # {} /\ Named(Family(t), VersionsSaid(t)) = {}
      /\ q[2].fails <=> AgainstDay(Named(Family(t), VersionsSaid(t)), t)
      /\ q[3].fails <=>
           VersionsSaid(t) = {} /\ t.days # {} /\ Cardinality(InForce(Family(t), t)) # 1
      /\ q[4].fails <=>
          VersionsSaid(t) = {} /\ t.days = {} /\ Cardinality(CurrentOf(Family(t))) # 1
  <2> DEFINE f == Family(t)  v == VersionsSaid(t)  c == CurrentOf(f)
  <2> HIDE DEF f, v, c
  <2>1. LET r == TargetChecks(f, v, t, c)
        IN /\ r \in Seq(Checks) /\ Len(r) = 4
           /\ r[1].reason = "unknown_version" /\ r[2].reason = "version_date_conflict"
           /\ r[3].reason = "date_not_covered" /\ r[4].reason = "current_version_not_unique"
           /\ r[1].fails <=> v # {} /\ Named(f, v) = {}
           /\ r[2].fails <=> AgainstDay(Named(f, v), t)
           /\ r[3].fails <=> v = {} /\ t.days # {} /\ Cardinality(InForce(f, t)) # 1
           /\ r[4].fails <=> v = {} /\ t.days = {} /\ Cardinality(c) # 1
    BY TargetChecksAre
  <2> QED BY <2>1 DEF f, v, c
<1>3. ResolveQueryScope(t) =
        IF FirstFailing(p \o q) # "" THEN Clarification(FirstFailing(p \o q))
        ELSE [status |-> "resolved", reason |-> "policy", scopes |->
                <<Target(Family(t), VersionsSaid(t), t, CurrentOf(Family(t)),
                         "default_current")>>]
  BY PolicyChecks, Zenon
<1> HIDE DEF p, q
<1>4. (\A i \in 1..8 : ~p[i].fails) => PolicyPassed(t)
  <2> SUFFICES ASSUME \A i \in 1..8 : ~p[i].fails PROVE PolicyPassed(t) OBVIOUS
  <2>1. ~p[1].fails /\ ~p[2].fails /\ ~p[3].fails /\ ~p[4].fails /\ ~p[5].fails
        /\ ~p[6].fails /\ ~p[7].fails /\ ~p[8].fails
    OBVIOUS
  <2> QED BY <1>1, <2>1, Zenon DEF PolicyPassed
<1>5. (\A i \in 1..4 : ~q[i].fails) =>
        ~TargetFails(Family(t), VersionsSaid(t), t, CurrentOf(Family(t)))
  <2> SUFFICES ASSUME \A i \in 1..4 : ~q[i].fails
               PROVE  ~TargetFails(Family(t), VersionsSaid(t), t, CurrentOf(Family(t)))
    OBVIOUS
  <2>1. ~q[1].fails /\ ~q[2].fails /\ ~q[3].fails /\ ~q[4].fails OBVIOUS
  <2> QED BY <1>2, <2>1, Zenon DEF TargetFails
<1>6. ASSUME NEW k \in 1..8, FirstFailing(p \o q) = p[k].reason, p[k].fails,
             \A j \in 1..k - 1 : ~p[j].fails
      PROVE  \E reason \in Reasons : Asks(reason)
  <2>1. CASE k = 1
    <3>1. PolicyAsks(t, "missing_lender") BY <1>1, <1>6, <2>1, Zenon DEF PolicyAsks
    <3> QED BY <1>1, <1>6, <2>1, <3>1, Zenon DEF Reasons
  <2>2. CASE k = 2
    <3>1. PolicyAsks(t, "multiple_lenders") BY <1>1, <1>6, <2>2, Zenon DEF PolicyAsks
    <3> QED BY <1>1, <1>6, <2>2, <3>1, Zenon DEF Reasons
  <2>3. CASE k = 3
    <3>1. ~p[1].fails /\ ~p[2].fails BY <1>6, <2>3
    <3>2. PolicyAsks(t, "multiple_products") BY <1>1, <1>6, <2>3, <3>1, Zenon DEF PolicyAsks
    <3> QED BY <1>1, <1>6, <2>3, <3>2, Zenon DEF Reasons
  <2>4. CASE k = 4
    <3>1. PolicyAsks(t, "invalid_date") BY <1>1, <1>6, <2>4, Zenon DEF PolicyAsks
    <3> QED BY <1>1, <1>6, <2>4, <3>1, Zenon DEF Reasons
  <2>5. CASE k = 5
    <3>1. PolicyAsks(t, "multiple_versions") BY <1>1, <1>6, <2>5, Zenon DEF PolicyAsks
    <3> QED BY <1>1, <1>6, <2>5, <3>1, Zenon DEF Reasons
  <2>6. CASE k = 6
    <3>1. PolicyAsks(t, "multiple_dates") BY <1>1, <1>6, <2>6, Zenon DEF PolicyAsks
    <3> QED BY <1>1, <1>6, <2>6, <3>1, Zenon DEF Reasons
  <2>7. CASE k = 7
    <3>1. PolicyAsks(t, "partial_date") BY <1>1, <1>6, <2>7, Zenon DEF PolicyAsks
    <3> QED BY <1>1, <1>6, <2>7, <3>1, Zenon DEF Reasons
  <2>8. CASE k = 8
    <3>1. PolicyAsks(t, "underspecified_historical") BY <1>1, <1>6, <2>8, Zenon DEF PolicyAsks
    <3> QED BY <1>1, <1>6, <2>8, <3>1, Zenon DEF Reasons
  <2> QED BY <2>1, <2>2, <2>3, <2>4, <2>5, <2>6, <2>7, <2>8
<1>7. ASSUME NEW k \in 1..4, FirstFailing(p \o q) = q[k].reason, q[k].fails,
             \A j \in 1..8 : ~p[j].fails
      PROVE  \E reason \in Reasons : Asks(reason)
  <2>1. CASE k = 1
    <3>1. PolicyAsks(t, "unknown_version") BY <1>2, <1>4, <1>7, <2>1, Zenon DEF PolicyAsks
    <3> QED BY <1>2, <1>7, <2>1, <3>1, Zenon DEF Reasons
  <2>2. CASE k = 2
    <3>1. PolicyAsks(t, "version_date_conflict") BY <1>2, <1>4, <1>7, <2>2, Zenon DEF PolicyAsks
    <3> QED BY <1>2, <1>7, <2>2, <3>1, Zenon DEF Reasons
  <2>3. CASE k = 3
    <3>1. PolicyAsks(t, "date_not_covered") BY <1>2, <1>4, <1>7, <2>3, Zenon DEF PolicyAsks
    <3> QED BY <1>2, <1>7, <2>3, <3>1, Zenon DEF Reasons
  <2>4. CASE k = 4
    <3>1. PolicyAsks(t, "current_version_not_unique")
      BY <1>2, <1>4, <1>7, <2>4, Zenon DEF PolicyAsks
    <3> QED BY <1>2, <1>7, <2>4, <3>1, Zenon DEF Reasons
  <2> QED BY <2>1, <2>2, <2>3, <2>4
<1>8. \A reason \in Reasons : reason # "" BY DEF Reasons
<1>9. CASE \E reason \in Reasons : Asks(reason)
  BY <1>3, <1>8, <1>9, Zenon
<1>10. CASE FirstFailing(p \o q) = "" /\ (\A i \in 1..8 : ~p[i].fails)
            /\ (\A i \in 1..4 : ~q[i].fails)
  BY <1>3, <1>4, <1>5, <1>10, Zenon
<1>11. \/ FirstFailing(p \o q) = "" /\ (\A i \in 1..8 : ~p[i].fails)
          /\ (\A i \in 1..4 : ~q[i].fails)
       \/ \E k \in 1..8 : FirstFailing(p \o q) = p[k].reason /\ p[k].fails
                          /\ \A j \in 1..k - 1 : ~p[j].fails
       \/ \E k \in 1..4 : FirstFailing(p \o q) = q[k].reason /\ q[k].fails
                          /\ \A j \in 1..8 : ~p[j].fails
  <2>1. p \in Seq(Checks) /\ q \in Seq(Checks) /\ Len(p) = 8 /\ Len(q) = 4 BY <1>1, <1>2
  <2> QED BY <2>1, FirstFailingOfTwo, Zenon
<1> QED BY <1>6, <1>7, <1>9, <1>10, <1>11, Zenon

\* With one lender said, its manuals are the family.
LEMMA OneLender ==
  ASSUME NEW t \in Text, LendersSaid(t) # {}, ~(Cardinality(LendersSaid(t)) > 1)
  PROVE  \E l : LendersSaid(t) = {l} /\ Family(t) = Of(l)
<1>1. PICK l : LendersSaid(t) = {l} BY SaidIsFinite, OneOnly
<1>2. Family(t) = Of(l) BY <1>1 DEF Family
<1> QED BY <1>1, <1>2

\* The manual that is taken once no check fails.
LEMMA TargetIsNamed ==
  ASSUME manifest \in Manifests, NEW t \in Text, NEW family \in SUBSET manifest, NEW versions,
         NEW fallback \in SUBSET family, NEW reason, ~TargetFails(family, versions, t, fallback)
  PROVE  LET spec == Target(family, versions, t, fallback, reason).spec
         IN /\ spec \in family
            /\ \A d \in t.days : Contains(spec, d)
            /\ versions # {} =>
                 spec.version \in versions /\ spec = TheFirst(Named(family, versions))
            /\ versions = {} /\ t.days # {} => InForce(family, t) = {spec}
            /\ versions = {} /\ t.days = {} => fallback = {spec}
<1> DEFINE spec == Target(family, versions, t, fallback, reason).spec
<1>1. CASE versions # {}
  <2>1. spec = TheFirst(Named(family, versions)) BY <1>1 DEF Target, Resolved
  <2>2. Named(family, versions) # {} BY <1>1 DEF TargetFails
  <2>3. spec \in Named(family, versions) BY <2>1, <2>2, FirstIsOne
  <2>4. spec \in InForce(Named(family, versions), t) BY <2>1, <2>2 DEF TargetFails, AgainstDay
  <2>5. spec \in family /\ spec.version \in versions BY <2>3 DEF Named
  <2>6. \A d \in t.days : Contains(spec, d) BY <2>4 DEF InForce
  <2> QED BY <1>1, <2>1, <2>5, <2>6
<1>2. CASE versions = {} /\ t.days # {}
  <2>1. spec = TheFirst(InForce(family, t)) BY <1>2 DEF Target, Resolved
  <2>2. IsFiniteSet(InForce(family, t)) BY ManifestIsFinite DEF InForce
  <2>3. Cardinality(InForce(family, t)) = 1 BY <1>2 DEF TargetFails
  <2>4. InForce(family, t) = {spec} BY <2>1, <2>2, <2>3, OneExactly
  <2>5. spec \in family /\ \A d \in t.days : Contains(spec, d) BY <2>4 DEF InForce
  <2> QED BY <1>2, <2>4, <2>5
<1>3. CASE versions = {} /\ t.days = {}
  <2>1. spec = TheFirst(fallback) BY <1>3 DEF Target, Resolved
  <2>2. IsFiniteSet(fallback) BY ManifestIsFinite
  <2>3. Cardinality(fallback) = 1 BY <1>3 DEF TargetFails
  <2>4. fallback = {spec} BY <2>1, <2>2, <2>3, OneExactly
  <2> QED BY <1>3, <2>4
<1> QED BY <1>1, <1>2, <1>3

\* The day a filter is made for.
DayOfText(days) == IF days = {} THEN NoDay ELSE CHOOSE d \in days : TRUE

\* What a resolution holds: its specification, and the filter made from it and the days.
LEMMA FilterFields ==
  ASSUME NEW spec, NEW reason, NEW days
  PROVE  LET target == Resolved(spec, reason, days)
         IN /\ target.spec = spec
            /\ target.filter.lender = spec.lender
            /\ target.filter.document = spec.document
            /\ target.filter.version = spec.version
            /\ target.filter.as_of = DayOfText(days)
            /\ target.filter.current_only <=> days = {} /\ reason = "default_current"
<1>1. (days = {} /\ reason = "default_current") \in BOOLEAN OBVIOUS
<1>2. PICK current \in BOOLEAN : current = (days = {} /\ reason = "default_current")
  BY <1>1, Zenon
<1>3. PICK day : day = DayOfText(days) OBVIOUS
<1>4. PICK filter : filter = FilterArgs(spec, reason, days) OBVIOUS
<1>5. filter = [lender |-> spec.lender, document |-> spec.document, version |-> spec.version,
                as_of |-> day, current_only |-> current]
  BY <1>2, <1>3, <1>4, Zenon DEF FilterArgs, DayOfText
<1>6. /\ filter.lender = spec.lender /\ filter.document = spec.document
      /\ filter.version = spec.version /\ filter.as_of = day /\ filter.current_only = current
  BY <1>5
<1>7. Resolved(spec, reason, days) = [spec |-> spec, reason |-> reason, filter |-> filter]
  BY <1>4, Zenon DEF Resolved
<1>8. Resolved(spec, reason, days).spec = spec /\ Resolved(spec, reason, days).filter = filter
  BY <1>7
<1>9. current <=> days = {} /\ reason = "default_current" BY <1>2, Zenon
<1> QED BY <1>3, <1>6, <1>8, <1>9, Zenon

\* The filter of a target: its day, and whether it is for the current manual only.
LEMMA TargetFilter ==
  ASSUME NEW t, NEW family, NEW versions, NEW fallback, NEW reason
  PROVE  LET target == Target(family, versions, t, fallback, reason)
         IN /\ target.filter.lender = target.spec.lender
            /\ target.filter.document = target.spec.document
            /\ target.filter.version = target.spec.version
            /\ target.filter.as_of = DayOfText(t.days)
            /\ target.filter.current_only =>
                 versions = {} /\ t.days = {} /\ reason = "default_current"
<1>1. PICK g : g = Target(family, versions, t, fallback, reason) OBVIOUS
<1>2. SUFFICES /\ g.filter.lender = g.spec.lender
               /\ g.filter.document = g.spec.document
               /\ g.filter.version = g.spec.version
               /\ g.filter.as_of = DayOfText(t.days)
               /\ g.filter.current_only =>
                    versions = {} /\ t.days = {} /\ reason = "default_current"
  BY <1>1, Zenon
<1>3. CASE versions # {}
  <2>1. PICK s : s = TheFirst(Named(family, versions)) OBVIOUS
  <2>2. g = Resolved(s, "version", t.days) BY <1>1, <1>3, <2>1, Zenon DEF Target
  <2>3. "version" # "default_current" OBVIOUS
  <2>4. /\ g.spec = s /\ g.filter.lender = s.lender /\ g.filter.document = s.document
        /\ g.filter.version = s.version
        /\ g.filter.as_of = DayOfText(t.days)
        /\ g.filter.current_only <=> t.days = {} /\ "version" = "default_current"
    <3>1. /\ Resolved(s, "version", t.days).spec = s
          /\ Resolved(s, "version", t.days).filter.lender = s.lender
          /\ Resolved(s, "version", t.days).filter.document = s.document
          /\ Resolved(s, "version", t.days).filter.version = s.version
          /\ Resolved(s, "version", t.days).filter.as_of = DayOfText(t.days)
          /\ Resolved(s, "version", t.days).filter.current_only <=>
               t.days = {} /\ "version" = "default_current"
      BY FilterFields
    <3> QED BY <2>2, <3>1, Zenon
  <2> QED BY <2>3, <2>4, Zenon
<1>4. CASE versions = {} /\ t.days # {}
  <2>1. PICK s : s = TheFirst(InForce(family, t)) OBVIOUS
  <2>2. g = Resolved(s, "as_of_date", t.days) BY <1>1, <1>4, <2>1, Zenon DEF Target
  <2>3. "as_of_date" # "default_current" OBVIOUS
  <2>4. /\ g.spec = s /\ g.filter.lender = s.lender /\ g.filter.document = s.document
        /\ g.filter.version = s.version
        /\ g.filter.as_of = DayOfText(t.days)
        /\ g.filter.current_only <=> t.days = {} /\ "as_of_date" = "default_current"
    <3>1. /\ Resolved(s, "as_of_date", t.days).spec = s
          /\ Resolved(s, "as_of_date", t.days).filter.lender = s.lender
          /\ Resolved(s, "as_of_date", t.days).filter.document = s.document
          /\ Resolved(s, "as_of_date", t.days).filter.version = s.version
          /\ Resolved(s, "as_of_date", t.days).filter.as_of = DayOfText(t.days)
          /\ Resolved(s, "as_of_date", t.days).filter.current_only <=>
               t.days = {} /\ "as_of_date" = "default_current"
      BY FilterFields
    <3> QED BY <2>2, <3>1, Zenon
  <2> QED BY <2>3, <2>4, Zenon
<1>5. CASE versions = {} /\ t.days = {}
  <2>1. PICK s : s = TheFirst(fallback) OBVIOUS
  <2>2. g = Resolved(s, reason, {}) BY <1>1, <1>5, <2>1, Zenon DEF Target
  <2>4. /\ g.spec = s /\ g.filter.lender = s.lender /\ g.filter.document = s.document
        /\ g.filter.version = s.version
        /\ g.filter.as_of = DayOfText({})
        /\ g.filter.current_only <=> {} = {} /\ reason = "default_current"
    <3>1. /\ Resolved(s, reason, {}).spec = s
          /\ Resolved(s, reason, {}).filter.lender = s.lender
          /\ Resolved(s, reason, {}).filter.document = s.document
          /\ Resolved(s, reason, {}).filter.version = s.version
          /\ Resolved(s, reason, {}).filter.as_of = DayOfText({})
          /\ Resolved(s, reason, {}).filter.current_only <=> {} = {} /\ reason = "default_current"
      BY FilterFields
    <3> QED BY <2>2, <3>1, Zenon
  <2> QED BY <1>5, <2>4, Zenon
<1> QED BY <1>3, <1>4, <1>5, Zenon

\* Its filter lets its manual through and no other, unless it begins later on that day.
Finds(scope) ==
  LET found == {s \in manifest : Selects(scope.filter, s)}
      late  == scope.filter.as_of # NoDay /\ scope.spec.from > Midnight(scope.filter.as_of)
  IN found = IF late THEN {} ELSE {scope.spec}

\* A target that fails no check is one manual of its family, and its filter finds it.
LEMMA TargetFinds ==
  ASSUME manifest \in Manifests, LoadManifest(manifest), NEW t \in Text,
         NEW family \in SUBSET manifest, NEW versions,
         NEW fallback \in SUBSET family, NEW reason,
         ~TargetFails(family, versions, t, fallback),
         reason = "default_current" => fallback = CurrentOf(family)
  PROVE  Finds(Target(family, versions, t, fallback, reason))
<1> DEFINE target == Target(family, versions, t, fallback, reason)
<1>1. PICK spec : spec = target.spec OBVIOUS
<1>2. PICK filter : filter = target.filter OBVIOUS
<1>3. PICK day : day = filter.as_of OBVIOUS
<1>4. /\ spec \in manifest
      /\ \A d \in t.days : Contains(spec, d)
      /\ versions = {} /\ t.days = {} => fallback = {spec}
  <2>1. /\ target.spec \in family /\ \A d \in t.days : Contains(target.spec, d)
        /\ versions = {} /\ t.days = {} => fallback = {target.spec}
    BY TargetIsNamed
  <2> HIDE DEF target
  <2> QED BY <1>1, <2>1
<1>5. /\ filter.lender = spec.lender /\ filter.document = spec.document
      /\ filter.version = spec.version
      /\ day = DayOfText(t.days)
      /\ filter.current_only => versions = {} /\ t.days = {} /\ reason = "default_current"
  <2>1. /\ target.filter.lender = target.spec.lender
        /\ target.filter.document = target.spec.document
        /\ target.filter.version = target.spec.version
        /\ target.filter.as_of = DayOfText(t.days)
        /\ target.filter.current_only =>
             versions = {} /\ t.days = {} /\ reason = "default_current"
    BY TargetFilter, Zenon
  <2> HIDE DEF target
  <2> QED BY <1>1, <1>2, <1>3, <2>1, Zenon
<1>6. t.days \subseteq Nat BY SaidIsFinite
<1>7. day # NoDay => day \in Nat /\ Contains(spec, day) BY <1>4, <1>5, <1>6 DEF DayOfText
<1>8. filter.current_only => spec.status = "current"
  BY <1>4, <1>5 DEF CurrentOf
<1>9. \A s \in manifest : Selects(filter, s) => s = spec
  <2>1. \A s \in manifest : s.document = spec.document /\ s.version = spec.version => s = spec
    BY <1>4 DEF LoadManifest
  <2>2. ASSUME NEW s \in manifest, Selects(filter, s) PROVE s = spec
    <3>1. <<s.lender, s.document, s.version>> = <<filter.lender, filter.document, filter.version>>
      BY <2>2, Zenon DEF Selects
    <3>2. s.document = spec.document /\ s.version = spec.version BY <1>5, <3>1
    <3> QED BY <2>1, <3>2
  <2> QED BY <2>2
<1>10. Selects(filter, spec) <=> ~(day # NoDay /\ spec.from > Midnight(day))
  <2>1. spec.from \in Nat /\ spec.until \in Nat \cup {Open} BY <1>4, SpecFields
  <2>2. PICK from \in Nat, until \in Nat \cup {Open} : from = spec.from /\ until = spec.until
    BY <2>1
  <2>3. Selects(filter, spec) <=>
          (day # NoDay => from <= Midnight(day) /\ (until = Open \/ until >= Midnight(day)))
    BY <1>3, <1>5, <1>8, <2>2, Zenon DEF Selects
  <2>4. day # NoDay => day \in Nat /\ (until = Open \/ day <= DayOf(until))
    BY <1>7, <2>2 DEF Contains
  <2>5. until \in Nat /\ day \in Nat /\ day <= DayOf(until) => until >= Midnight(day)
    BY DEF DayOf, Midnight
  <2>6. day # NoDay => (from <= Midnight(day) <=> ~(from > Midnight(day)))
    BY <2>4 DEF Midnight
  <2> QED BY <2>2, <2>3, <2>4, <2>5, <2>6
<1> HIDE DEF target
<1>11. CASE day # NoDay /\ spec.from > Midnight(day)
  <2>1. {s \in manifest : Selects(filter, s)} = {} BY <1>9, <1>10, <1>11
  <2> QED BY <1>1, <1>2, <1>3, <1>11, <2>1, Zenon DEF Finds, target
<1>12. CASE ~(day # NoDay /\ spec.from > Midnight(day))
  <2>1. {s \in manifest : Selects(filter, s)} = {spec} BY <1>4, <1>9, <1>10, <1>12
  <2> QED BY <1>1, <1>2, <1>3, <1>12, <2>1, Zenon DEF Finds, target
<1> QED BY <1>11, <1>12

\* What the settled manual owes to the text.
FollowsText(t, spec) ==
  /\ LendersSaid(t) = {spec.lender}
  /\ VersionsSaid(t) \subseteq {spec.version}
  /\ \A d \in t.days : Contains(spec, d)
  /\ VersionsSaid(t) = {} /\ t.days # {} => InForce(Of(spec.lender), t) = {spec}
  /\ VersionsSaid(t) = {} /\ t.days = {} =>
       spec.status = "current" /\ "historical" \notin t.notes
  /\ "partial_date" \in t.notes => t.days # {}

\* A policy question that passes every check gets the manual its text says.
LEMMA PolicyFollows ==
  ASSUME manifest \in Manifests, NEW t \in Text, PolicyPassed(t),
         ~TargetFails(Family(t), VersionsSaid(t), t, CurrentOf(Family(t)))
  PROVE  FollowsText(t, Target(Family(t), VersionsSaid(t), t, CurrentOf(Family(t)),
                               "default_current").spec)
<1> DEFINE family == Family(t)  versions == VersionsSaid(t)  current == CurrentOf(family)
<1>1. PICK spec : spec = Target(family, versions, t, current, "default_current").spec OBVIOUS
<1>2. PICK l : LendersSaid(t) = {l} /\ family = Of(l) BY OneLender DEF PolicyPassed
<1>3. family \in SUBSET manifest /\ current \in SUBSET family
  BY <1>2 DEF Of, CurrentOf
<1>4. /\ spec \in family
      /\ \A d \in t.days : Contains(spec, d)
      /\ versions # {} => spec.version \in versions
      /\ versions = {} /\ t.days # {} => InForce(family, t) = {spec}
      /\ versions = {} /\ t.days = {} => current = {spec}
  <2>1. ~TargetFails(family, versions, t, current) OBVIOUS
  <2> HIDE DEF family, versions, current
  <2> QED BY <1>1, <1>3, <2>1, TargetIsNamed
<1>5. spec.lender = l BY <1>2, <1>4 DEF Of
<1>6. versions \subseteq {spec.version}
  <2>1. CASE versions = {} BY <2>1
  <2>2. CASE versions # {}
    <3>1. IsFiniteSet(versions) BY SaidIsFinite
    <3>2. PICK v : versions = {v} BY <2>2, <3>1, OneOnly DEF PolicyPassed
    <3> QED BY <1>4, <3>2
  <2> QED BY <2>1, <2>2
<1>7. versions = {} /\ t.days = {} => spec.status = "current" /\ "historical" \notin t.notes
  BY <1>4 DEF CurrentOf, PolicyPassed
<1>8. "partial_date" \in t.notes => t.days # {} BY DEF PolicyPassed
<1>9. FollowsText(t, spec)
  BY <1>2, <1>4, <1>5, <1>6, <1>7, <1>8 DEF FollowsText
<1> QED BY <1>1, <1>9

\* The day said twice, or not to be read, stays in the text; and so does what made a
\* manual impossible to name.
Stuck(t, reason) ==
  CASE reason = "invalid_date" -> "bad_date" \in t.notes
    [] reason = "multiple_dates" -> \E d, e \in t.days : d # e
    [] reason = "multiple_lenders" -> \E l, m \in LendersSaid(t) : l # m
    [] reason = "multiple_versions" -> \E v, w \in VersionsSaid(t) : v # w
    [] reason = "multiple_products" ->
         \E l \in LendersSaid(t) : Cardinality({s.document : s \in Of(l)}) # 1
    [] reason = "unknown_version" ->
         \E l \in LendersSaid(t), v \in VersionsSaid(t) : Named(Of(l), {v}) = {}
    [] reason = "version_date_conflict" ->
         \E l \in LendersSaid(t), v \in VersionsSaid(t), d \in t.days :
           Named(Of(l), {v}) # {} /\ ~Contains(TheFirst(Named(Of(l), {v})), d)
    [] OTHER -> TRUE

\* What no reply takes back: two days, and a day that is none.
AlwaysStuck == {"invalid_date", "multiple_dates"}

\* What a policy question cannot take back either.
PolicyStuck ==
  {"multiple_lenders", "multiple_products", "multiple_versions", "unknown_version",
   "version_date_conflict"}

\* Nothing that sticks is in a text that a manual is settled on.
LEMMA PolicyUnstuck ==
  ASSUME manifest \in Manifests, NEW t \in Text, PolicyPassed(t),
         ~TargetFails(Family(t), VersionsSaid(t), t, CurrentOf(Family(t))),
         NEW reason \in AlwaysStuck \cup PolicyStuck
  PROVE  ~Stuck(t, reason)
<1>1. PICK l : LendersSaid(t) = {l} /\ Family(t) = Of(l) BY OneLender DEF PolicyPassed
<1>2. CASE reason = "invalid_date" BY <1>2 DEF Stuck, PolicyPassed
<1>3. CASE reason = "multiple_dates"
  <2>1. IsFiniteSet(t.days) BY SaidIsFinite
  <2>2. \A d, e \in t.days : d = e BY <2>1, SeveralJoin DEF PolicyPassed
  <2> QED BY <1>3, <2>2 DEF Stuck
<1>4. CASE reason = "multiple_lenders" BY <1>1, <1>4 DEF Stuck
<1>5. \A v, w \in VersionsSaid(t) : v = w
  <2>1. IsFiniteSet(VersionsSaid(t)) BY SaidIsFinite
  <2> QED BY <2>1, SeveralJoin DEF PolicyPassed
<1>6. CASE reason = "multiple_versions" BY <1>5, <1>6 DEF Stuck
<1>7. CASE reason = "multiple_products"
  <2>1. Cardinality({s.document : s \in Of(l)}) = 1 BY <1>1 DEF PolicyPassed
  <2> QED BY <1>1, <1>7, <2>1 DEF Stuck
<1>8. \A v \in VersionsSaid(t) : Named(Of(l), {v}) = Named(Family(t), VersionsSaid(t))
  <2>1. \A v \in VersionsSaid(t) : VersionsSaid(t) = {v} BY <1>5
  <2> QED BY <1>1, <2>1
<1>9. CASE reason = "unknown_version"
  <2>1. \A v \in VersionsSaid(t) : Named(Of(l), {v}) # {}
    BY <1>8 DEF TargetFails
  <2> QED BY <1>1, <1>9, <2>1 DEF Stuck
<1>10. CASE reason = "version_date_conflict"
  <2>1. \A v \in VersionsSaid(t) : ~AgainstDay(Named(Of(l), {v}), t) BY <1>8 DEF TargetFails
  <2>2. \A v \in VersionsSaid(t) : \A d \in t.days :
          Named(Of(l), {v}) # {} => Contains(TheFirst(Named(Of(l), {v})), d)
    BY <2>1 DEF AgainstDay, InForce
  <2> QED BY <1>1, <1>10, <2>2 DEF Stuck
<1> QED
  BY <1>2, <1>3, <1>4, <1>6, <1>7, <1>9, <1>10 DEF AlwaysStuck, PolicyStuck

\* When resolve_query_scope asks one of these, the text holds what it cannot take back.
LEMMA PolicyStuckWhenAsked ==
  ASSUME manifest \in Manifests, NEW t \in Text,
         NEW reason \in AlwaysStuck \cup PolicyStuck, PolicyAsks(t, reason)
  PROVE  Stuck(t, reason)
<1>1. CASE reason = "invalid_date" BY <1>1 DEF Stuck, PolicyAsks
<1>2. CASE reason = "multiple_dates"
  <2>1. Cardinality(t.days) > 1 BY <1>2 DEF PolicyAsks
  <2> QED BY <1>2, <2>1, SeveralSplit DEF Stuck
<1>3. CASE reason = "multiple_lenders"
  <2>1. Cardinality(LendersSaid(t)) > 1 BY <1>3 DEF PolicyAsks
  <2> QED BY <1>3, <2>1, SeveralSplit DEF Stuck
<1>4. CASE reason = "multiple_versions"
  <2>1. Cardinality(VersionsSaid(t)) > 1 BY <1>4 DEF PolicyAsks
  <2> QED BY <1>4, <2>1, SeveralSplit DEF Stuck
<1>5. CASE reason = "multiple_products"
  <2>1. /\ LendersSaid(t) # {} /\ ~(Cardinality(LendersSaid(t)) > 1)
        /\ Cardinality({s.document : s \in Family(t)}) # 1
    BY <1>5 DEF PolicyAsks
  <2>2. PICK l : LendersSaid(t) = {l} /\ Family(t) = Of(l) BY <2>1, OneLender
  <2> QED BY <1>5, <2>1, <2>2 DEF Stuck
<1>6. ASSUME PolicyPassed(t), VersionsSaid(t) # {}
      PROVE  \E l \in LendersSaid(t), v \in VersionsSaid(t) :
               Named(Of(l), {v}) = Named(Family(t), VersionsSaid(t))
  <2>1. PICK l : LendersSaid(t) = {l} /\ Family(t) = Of(l) BY <1>6, OneLender DEF PolicyPassed
  <2>2. IsFiniteSet(VersionsSaid(t)) BY SaidIsFinite
  <2>3. PICK v : VersionsSaid(t) = {v} BY <1>6, <2>2, OneOnly DEF PolicyPassed
  <2> QED BY <2>1, <2>3
<1>7. CASE reason = "unknown_version"
  <2>1. PolicyPassed(t) /\ VersionsSaid(t) # {} /\ Named(Family(t), VersionsSaid(t)) = {}
    BY <1>7 DEF PolicyAsks
  <2>2. PICK l \in LendersSaid(t), v \in VersionsSaid(t) : Named(Of(l), {v}) = {}
    BY <1>6, <2>1
  <2> QED BY <1>7, <2>2 DEF Stuck
<1>8. CASE reason = "version_date_conflict"
  <2>1. PolicyPassed(t) /\ AgainstDay(Named(Family(t), VersionsSaid(t)), t)
    BY <1>8 DEF PolicyAsks
  <2>2. Named(Family(t), VersionsSaid(t)) # {} BY <2>1 DEF AgainstDay
  <2>3. VersionsSaid(t) # {} BY <2>2 DEF Named
  <2>4. PICK l \in LendersSaid(t), v \in VersionsSaid(t) :
          Named(Of(l), {v}) = Named(Family(t), VersionsSaid(t))
    BY <1>6, <2>1, <2>3
  <2>5. PICK N : N = Named(Of(l), {v}) OBVIOUS
  <2>6. N # {} /\ TheFirst(N) \notin InForce(N, t) BY <2>1, <2>4, <2>5 DEF AgainstDay
  <2>7. TheFirst(N) \in N BY <2>6, FirstIsOne
  <2>8. PICK d \in t.days : ~Contains(TheFirst(N), d) BY <2>6, <2>7 DEF InForce
  <2> QED BY <1>8, <2>5, <2>6, <2>8 DEF Stuck
<1> QED
  BY <1>1, <1>2, <1>3, <1>4, <1>5, <1>7, <1>8 DEF AlwaysStuck, PolicyStuck

\* Two manuals of one document are in force on one day only where one follows the other.
LEMMA DayBetween ==
  ASSUME manifest \in Manifests, LoadManifest(manifest), NEW t \in Text, PolicyPassed(t),
         NEW s \in InForce(Family(t), t), NEW u \in InForce(Family(t), t), s.from < u.from,
         NEW d \in t.days
  PROVE  s.until # Open /\ DayOf(s.until) = d /\ DayOf(u.from) = d
<1>1. PICK l : LendersSaid(t) = {l} /\ Family(t) = Of(l) BY OneLender DEF PolicyPassed
<1>2. s \in Of(l) /\ u \in Of(l) /\ Contains(s, d) /\ Contains(u, d) BY <1>1 DEF InForce
<1>3. s \in manifest /\ u \in manifest BY <1>2 DEF Of
<1>4. s.document = u.document
  <2>1. Cardinality({x.document : x \in Of(l)}) = 1 BY <1>1 DEF PolicyPassed
  <2>2. Of(l) \in SUBSET manifest BY DEF Of
  <2>3. IsFiniteSet(Of(l)) BY <2>2, ManifestIsFinite
  <2>4. IsFiniteSet({x.document : x \in Of(l)})
    <3> DEFINE f == [x \in Of(l) |-> x.document]
    <3>1. f \in Surjection(Of(l), {x.document : x \in Of(l)}) BY DEF Surjection
    <3> QED BY <2>3, <3>1, FS_Surjection
  <2>5. PICK w : {x.document : x \in Of(l)} = {w} BY <2>1, <2>4, FS_Singleton
  <2> QED BY <1>2, <2>5
<1>5. s # u BY <1>3, SpecFields
<1>6. s.order # u.order
  <2>1. ValidFamily({x \in manifest : x.document = s.document}) BY <1>3 DEF LoadManifest
  <2> QED BY <1>3, <1>4, <1>5, <2>1 DEF ValidFamily
<1>7. PICK from \in Nat, until \in Nat \cup {Open}, start \in Nat, end \in Nat \cup {Open},
           a \in Nat, b \in Nat :
        /\ from = s.from /\ until = s.until /\ start = u.from /\ end = u.until
        /\ a = s.order /\ b = u.order
  BY <1>3, SpecFields
<1>8. ~(b < a)
  <2>1. SUFFICES ASSUME u.order < s.order PROVE FALSE BY <1>7
  <2>2. u.until \in Nat /\ u.until < s.from BY <1>3, <1>4, <2>1, VersionsInCourse
  <2>3. u.from <= u.until BY <1>3, <2>2, NamesDiffer DEF LoadManifest
  <2>4. end \in Nat /\ end < from /\ start <= end /\ from < start BY <1>7, <2>2, <2>3
  <2> QED BY <2>4
<1>9. s.order < u.order BY <1>6, <1>7, <1>8
<1>10. until \in Nat /\ until < start BY <1>3, <1>4, <1>7, <1>9, VersionsInCourse
<1>11. d \in Nat BY SaidIsFinite
<1>12. DayOf(start) <= d /\ d <= DayOf(until)
  BY <1>2, <1>7, <1>10, NamesDiffer DEF Contains
<1>13. DayOf(until) = d /\ DayOf(start) = d BY <1>10, <1>11, <1>12 DEF DayOf
<1> QED BY <1>7, <1>10, <1>13, NamesDiffer

\* A reply only adds to what has been said.
LEMMA FoldedSaysMore ==
  ASSUME NEW t \in Text, NEW reply \in Text
  PROVE  /\ Folded(t, reply) \in Text
         /\ LendersSaid(t) \subseteq LendersSaid(Folded(t, reply))
         /\ VersionsSaid(t) \subseteq VersionsSaid(Folded(t, reply))
         /\ t.days \subseteq Folded(t, reply).days
         /\ t.notes \subseteq Folded(t, reply).notes
<1> DEFINE Words == Lenders \cup Versions \cup {"both", "gap"}
<1>1. PICK v \in Seq(Words), w \in Seq(Words) : v = t.words /\ w = reply.words BY DEF Text
<1>2. PICK f : f = Folded(t, reply) OBVIOUS
<1>3. f.words = v \o w /\ f.days = t.days \cup reply.days /\ f.notes = t.notes \cup reply.notes
  BY <1>1, <1>2 DEF Folded
<1>4. f = [words |-> v \o w, days |-> t.days \cup reply.days, notes |-> t.notes \cup reply.notes]
  BY <1>1, <1>2 DEF Folded
<1>5. v \o w \in Seq(Words) OBVIOUS
<1>6. t.days \cup reply.days \in SUBSET Days /\ t.notes \cup reply.notes \in SUBSET Notes
  BY DEF Text
<1>7. f \in Text BY <1>4, <1>5, <1>6 DEF Text
<1>8. \A i \in DOMAIN v : i \in DOMAIN (v \o w) /\ (v \o w)[i] = v[i] OBVIOUS
<1>9. Said(t) \subseteq Said(f) BY <1>1, <1>3, <1>8 DEF Said
<1> QED BY <1>2, <1>3, <1>7, <1>9 DEF LendersSaid, VersionsSaid

\* A reply is appended: what a text cannot take back stays in it.
LEMMA StuckStays ==
  ASSUME NEW t \in Text, NEW reply \in Text, NEW reason \in AlwaysStuck \cup PolicyStuck,
         Stuck(t, reason)
  PROVE  Stuck(Folded(t, reply), reason)
<1>1. PICK f : f = Folded(t, reply) OBVIOUS
<1>2. /\ LendersSaid(t) \subseteq LendersSaid(f) /\ VersionsSaid(t) \subseteq VersionsSaid(f)
      /\ t.days \subseteq f.days /\ t.notes \subseteq f.notes
  BY <1>1, FoldedSaysMore
<1>3. Stuck(f, reason)
  <2>1. CASE reason = "invalid_date" BY <1>2, <2>1 DEF Stuck
  <2>2. CASE reason = "multiple_dates" BY <1>2, <2>2 DEF Stuck
  <2>3. CASE reason = "multiple_lenders" BY <1>2, <2>3 DEF Stuck
  <2>4. CASE reason = "multiple_versions" BY <1>2, <2>4 DEF Stuck
  <2>5. CASE reason = "multiple_products" BY <1>2, <2>5 DEF Stuck
  <2>6. CASE reason = "unknown_version" BY <1>2, <2>6 DEF Stuck
  <2>7. CASE reason = "version_date_conflict" BY <1>2, <2>7 DEF Stuck
  <2> QED BY <2>1, <2>2, <2>3, <2>4, <2>5, <2>6, <2>7 DEF AlwaysStuck, PolicyStuck
<1> QED BY <1>1, <1>3

-----------------------------------------------------------------------------
(* Two manuals.                                                            *)

\* Where a text first says a word.
FirstPlace(t, l) ==
  CHOOSE i \in DOMAIN t.words : t.words[i] = l /\ \A j \in 1..(i - 1) : t.words[j] # l

\* A lender that is said has a first place in the text.
LEMMA FirstPlaceIs ==
  ASSUME NEW t \in Text, NEW l \in Said(t)
  PROVE  FirstPlace(t, l) \in Nat /\ t.words[FirstPlace(t, l)] = l
<1>1. PICK w \in Seq(Lenders \cup Versions \cup {"both", "gap"}) : w = t.words
  BY SaidIsFinite
<1>2. DOMAIN w = 1..Len(w) /\ Len(w) \in Nat OBVIOUS
<1> DEFINE places == {i \in DOMAIN w : w[i] = l}
<1>3. places \in SUBSET Nat /\ places # {} BY <1>1, <1>2 DEF Said
<1>4. PICK i \in places : \A j \in places : i <= j BY <1>3, LeastNat
<1>5. i \in DOMAIN w /\ w[i] = l /\ \A j \in 1..(i - 1) : w[j] # l
  BY <1>2, <1>3, <1>4
<1>6. FirstPlace(t, l) \in DOMAIN w /\ w[FirstPlace(t, l)] = l
  BY <1>1, <1>5 DEF FirstPlace
<1> QED BY <1>1, <1>2, <1>6

\* How many lenders a text says before it says l.
SaidBefore(t, l) == {m \in LendersSaid(t) : FirstPlace(t, m) < FirstPlace(t, l)}

\* The lenders in order, each placed by how many are said before it.
LEMMA LendersInOrderIs ==
  ASSUME NEW t
  PROVE  LendersInOrder(t) = [k \in 1..Cardinality(LendersSaid(t)) |->
           CHOOSE l \in LendersSaid(t) : Cardinality(SaidBefore(t, l)) = k - 1]
BY Zenon DEF LendersInOrder, SaidBefore, FirstPlace

\* One lender said is the whole order.
LEMMA OneInOrder ==
  ASSUME NEW t \in Text, Cardinality(LendersSaid(t)) = 1
  PROVE  \E a : LendersSaid(t) = {a} /\ LendersInOrder(t) = <<a>>
<1>1. PICK a : LendersSaid(t) = {a} BY SaidIsFinite, OneExactly
<1>2. SaidBefore(t, a) = {}
  <2>1. a \in Said(t) BY <1>1 DEF LendersSaid
  <2>2. FirstPlace(t, a) \in Nat BY <2>1, FirstPlaceIs
  <2> QED BY <1>1, <2>2 DEF SaidBefore
<1>3. Cardinality(SaidBefore(t, a)) = 0 BY <1>2, FS_EmptySet
<1> DEFINE at(k) == CHOOSE l \in LendersSaid(t) : Cardinality(SaidBefore(t, l)) = k - 1
<1>4. at(1) = a BY <1>1, <1>3
<1>5. LendersInOrder(t) = [k \in 1..1 |-> at(k)] BY LendersInOrderIs
<1> HIDE DEF at
<1>6. LendersInOrder(t) = <<a>> BY <1>4, <1>5
<1> QED BY <1>1, <1>6

\* Two lenders said are the order, one way or the other.
LEMMA TwoInOrder ==
  ASSUME NEW t \in Text, Cardinality(LendersSaid(t)) = 2
  PROVE  \E a, b : a # b /\ LendersSaid(t) = {a, b} /\ LendersInOrder(t) = <<a, b>>
<1>1. PICK x \in LendersSaid(t), y \in LendersSaid(t) : x # y BY SeveralSplit
<1>2. LendersSaid(t) = {x, y}
  <2>1. IsFiniteSet(LendersSaid(t)) BY SaidIsFinite
  <2>2. Cardinality(LendersSaid(t) \ {x}) = 1 BY <2>1, FS_RemoveElement
  <2>3. IsFiniteSet(LendersSaid(t) \ {x}) BY <2>1, FS_RemoveElement
  <2>4. PICK z : LendersSaid(t) \ {x} = {z} BY <2>2, <2>3, FS_Singleton
  <2> QED BY <1>1, <2>4
<1>3. /\ FirstPlace(t, x) \in Nat /\ FirstPlace(t, y) \in Nat
      /\ FirstPlace(t, x) # FirstPlace(t, y)
  <2>1. x \in Said(t) /\ y \in Said(t) BY <1>1 DEF LendersSaid
  <2> QED BY <1>1, <2>1, FirstPlaceIs
<1>4. PICK a \in {x, y}, b \in {x, y} : a # b /\ FirstPlace(t, a) < FirstPlace(t, b)
                                        /\ FirstPlace(t, a) \in Nat /\ FirstPlace(t, b) \in Nat
  BY <1>1, <1>3
<1>5. LendersSaid(t) = {a, b} BY <1>2, <1>4
<1>6. SaidBefore(t, a) = {} /\ SaidBefore(t, b) = {a}
  BY <1>4, <1>5 DEF SaidBefore
<1>7. Cardinality(SaidBefore(t, a)) = 0 /\ Cardinality(SaidBefore(t, b)) = 1
  BY <1>6, FS_EmptySet, FS_Singleton
<1> DEFINE at(k) == CHOOSE l \in LendersSaid(t) : Cardinality(SaidBefore(t, l)) = k - 1
<1>8. at(1) = a
  <2>1. \A l \in LendersSaid(t) : Cardinality(SaidBefore(t, l)) = 0 <=> l = a BY <1>5, <1>7
  <2> QED BY <1>5, <2>1
<1>9. at(2) = b
  <2>1. \A l \in LendersSaid(t) : Cardinality(SaidBefore(t, l)) = 1 <=> l = b BY <1>5, <1>7
  <2> QED BY <1>5, <2>1
<1>10. LendersInOrder(t) = [k \in 1..2 |-> at(k)] BY LendersInOrderIs
<1> HIDE DEF at
<1>11. LendersInOrder(t) = <<a, b>> BY <1>8, <1>9, <1>10
<1> QED BY <1>4, <1>5, <1>11

\* Two lists of one make a pair.
LEMMA JoinedPair ==
  ASSUME NEW a, NEW b
  PROVE  <<b>> \o <<a>> = <<b, a>>
<1>1. PICK S : a \in S /\ b \in S
  <2>1. a \in {a, b} /\ b \in {a, b} OBVIOUS
  <2> QED BY <2>1
<1>2. PICK p \in Seq(S), q \in Seq(S) : p = <<b>> /\ q = <<a>>
  <2>1. <<a>> \in Seq(S) /\ <<b>> \in Seq(S) BY <1>1
  <2> QED BY <2>1, Zenon
<1>3. Len(p) = 1 /\ Len(q) = 1 /\ p[1] = b /\ q[1] = a BY <1>2
<1>4. /\ p \o q \in Seq(S) /\ Len(p \o q) = Len(p) + Len(q)
      /\ \A i \in 1..Len(p) + Len(q) : (p \o q)[i] = IF i <= Len(p) THEN p[i] ELSE q[i - Len(p)]
  BY ConcatProperties, Zenon
<1>5. PICK r : r = p \o q OBVIOUS
<1>6. r \in Seq(S) /\ Len(r) = 2
  <2>1. r \in Seq(S) /\ Len(r) = Len(p) + Len(q) BY <1>4, <1>5, Zenon
  <2> QED BY <1>3, <2>1
<1>7. r[1] = p[1] /\ r[2] = q[1]
  <2>1. \A i \in 1..Len(p) + Len(q) : r[i] = IF i <= Len(p) THEN p[i] ELSE q[i - Len(p)]
    BY <1>4, <1>5, Zenon
  <2>2. r[1] = IF 1 <= Len(p) THEN p[1] ELSE q[1 - Len(p)]
    <3>1. 1 \in 1..Len(p) + Len(q) BY <1>3
    <3> QED BY <2>1, <3>1, Zenon
  <2>3. r[2] = IF 2 <= Len(p) THEN p[2] ELSE q[2 - Len(p)]
    <3>1. 2 \in 1..Len(p) + Len(q) BY <1>3
    <3> QED BY <2>1, <3>1, Zenon
  <2> QED BY <1>3, <2>2, <2>3
<1>8. PICK u \in Seq(S) : u = <<b, a>> /\ Len(u) = 2 /\ u[1] = b /\ u[2] = a
  <2>1. <<b, a>> \in Seq(S) BY <1>1
  <2> QED BY <2>1
<1>9. \A i \in 1..Len(r) : r[i] = u[i] BY <1>3, <1>6, <1>7, <1>8
<1>10. r = u BY <1>6, <1>8, <1>9, SeqEqual
<1> QED BY <1>2, <1>5, <1>8, <1>10

\* The lenders of a comparison, when there are two.
LEMMA TargetsOfTwo ==
  ASSUME NEW t \in Text
  PROVE  /\ Len(Targets(t)) \in Nat
         /\ Len(Targets(t)) = 2 =>
              \E a, b : a # b /\ LendersSaid(t) \subseteq {a, b} /\ Targets(t) = <<a, b>>
<1>1. PICK n \in Nat : n = Cardinality(LendersSaid(t)) BY SaidIsFinite, FS_CardinalityType
<1>2. PICK said : said = LendersInOrder(t) OBVIOUS
<1> DEFINE at(k) == CHOOSE l \in LendersSaid(t) : Cardinality(SaidBefore(t, l)) = k - 1
<1>3. said = [k \in 1..n |-> at(k)] BY <1>1, <1>2, LendersInOrderIs
<1> HIDE DEF at
<1>4. Len(said) = n BY <1>3
<1>5. CASE n = 1 /\ prior # NoScope /\ "compare" \in t.notes /\ prior.lender # said[1]
  <2>1. PICK a : LendersSaid(t) = {a} /\ said = <<a>> BY <1>1, <1>2, <1>5, OneInOrder
  <2>0. Len(said) = 1 BY <1>4, <1>5
  <2>2. Targets(t) = <<prior.lender>> \o said BY <1>2, <1>5, <2>0, Zenon DEF Targets
  <2>3. PICK b : b = prior.lender OBVIOUS
  <2>4. Targets(t) = <<b, a>>
    <3>1. <<b>> \o <<a>> = <<b, a>> BY JoinedPair
    <3> QED BY <2>1, <2>2, <2>3, <3>1
  <2> QED BY <1>5, <2>1, <2>3, <2>4
<1>6. CASE ~(n = 1 /\ prior # NoScope /\ "compare" \in t.notes /\ prior.lender # said[1])
  <2>1. Targets(t) = said BY <1>2, <1>4, <1>6 DEF Targets
  <2> QED BY <1>1, <1>2, <1>4, <2>1, TwoInOrder
<1> QED BY <1>5, <1>6

\* The lenders a comparison is between.
Sides(t) == {Targets(t)[k] : k \in DOMAIN Targets(t)}

\* What resolve_comparison_scopes asks about before it looks at the versions.
ComparisonGuards(t) ==
  <<Check(Len(Targets(t)) = 0, "missing_comparison_targets"),
    Check(Len(Targets(t)) = 1, "missing_comparison_target"),
    Check(Len(Targets(t)) > 2, "too_many_comparison_targets"),
    Check("bad_date" \in t.notes, "invalid_date"),
    Check(Cardinality(t.days) > 1, "multiple_dates"),
    Check(t.days = {} /\ "partial_date" \in t.notes, "partial_date"),
    Check(VersionsSaid(t) # {} /\ \E l \in Sides(t) : Of(l) = {}, "KeyError")>>

\* The seven checks before the versions are attached, in their order.
LEMMA ComparisonGuardsAre ==
  ASSUME NEW t
  PROVE  LET q == ComparisonGuards(t)
         IN /\ q \in Seq(Checks) /\ Len(q) = 7
            /\ q[1].reason = "missing_comparison_targets"
            /\ q[1].fails <=> Len(Targets(t)) = 0
            /\ q[2].reason = "missing_comparison_target"
            /\ q[2].fails <=> Len(Targets(t)) = 1
            /\ q[3].reason = "too_many_comparison_targets"
            /\ q[3].fails <=> Len(Targets(t)) > 2
            /\ q[4].reason = "invalid_date"
            /\ q[4].fails <=> "bad_date" \in t.notes
            /\ q[5].reason = "multiple_dates"
            /\ q[5].fails <=> Cardinality(t.days) > 1
            /\ q[6].reason = "partial_date"
            /\ q[6].fails <=> t.days = {} /\ "partial_date" \in t.notes
            /\ q[7].reason = "KeyError"
            /\ q[7].fails <=> VersionsSaid(t) # {} /\ \E l \in Sides(t) : Of(l) = {}
<1> DEFINE q == ComparisonGuards(t)
<1>0a. (Len(Targets(t)) = 0) \in BOOLEAN OBVIOUS
<1>1a. PICK f1 \in BOOLEAN : f1 = (Len(Targets(t)) = 0) BY <1>0a, Zenon
<1>0b. (Len(Targets(t)) = 1) \in BOOLEAN OBVIOUS
<1>1b. PICK f2 \in BOOLEAN : f2 = (Len(Targets(t)) = 1) BY <1>0b, Zenon
<1>0c. (Len(Targets(t)) > 2) \in BOOLEAN OBVIOUS
<1>1c. PICK f3 \in BOOLEAN : f3 = (Len(Targets(t)) > 2) BY <1>0c, Zenon
<1>0d. ("bad_date" \in t.notes) \in BOOLEAN OBVIOUS
<1>1d. PICK f4 \in BOOLEAN : f4 = ("bad_date" \in t.notes) BY <1>0d, Zenon
<1>0e. (Cardinality(t.days) > 1) \in BOOLEAN OBVIOUS
<1>1e. PICK f5 \in BOOLEAN : f5 = (Cardinality(t.days) > 1) BY <1>0e, Zenon
<1>0f. (t.days = {} /\ "partial_date" \in t.notes) \in BOOLEAN OBVIOUS
<1>1f. PICK f6 \in BOOLEAN : f6 = (t.days = {} /\ "partial_date" \in t.notes) BY <1>0f, Zenon
<1>0g. (VersionsSaid(t) # {} /\ \E l \in Sides(t) : Of(l) = {}) \in BOOLEAN OBVIOUS
<1>1g. PICK f7 \in BOOLEAN : f7 = (VersionsSaid(t) # {} /\ \E l \in Sides(t) : Of(l) = {})
  BY <1>0g, Zenon
<1>2. q = <<Check(f1, "missing_comparison_targets"),
            Check(f2, "missing_comparison_target"),
            Check(f3, "too_many_comparison_targets"),
            Check(f4, "invalid_date"),
            Check(f5, "multiple_dates"),
            Check(f6, "partial_date"),
            Check(f7, "KeyError")>>
  BY <1>1a, <1>1b, <1>1c, <1>1d, <1>1e, <1>1f, <1>1g, Zenon DEF ComparisonGuards
<1>3. /\ Check(f1, "missing_comparison_targets") \in Checks
      /\ Check(f2, "missing_comparison_target") \in Checks
      /\ Check(f3, "too_many_comparison_targets") \in Checks
      /\ Check(f4, "invalid_date") \in Checks
      /\ Check(f5, "multiple_dates") \in Checks
      /\ Check(f6, "partial_date") \in Checks
      /\ Check(f7, "KeyError") \in Checks
  BY CheckType DEF Verdicts, Reasons
<1>4. q \in Seq(Checks) /\ Len(q) = 7 BY <1>2, <1>3
<1>5. /\ q[1] = Check(f1, "missing_comparison_targets")
      /\ q[2] = Check(f2, "missing_comparison_target")
      /\ q[3] = Check(f3, "too_many_comparison_targets")
      /\ q[4] = Check(f4, "invalid_date")
      /\ q[5] = Check(f5, "multiple_dates")
      /\ q[6] = Check(f6, "partial_date")
      /\ q[7] = Check(f7, "KeyError")
  BY <1>2
<1>6. /\ q[1].reason = "missing_comparison_targets" /\ q[1].fails = f1
      /\ q[2].reason = "missing_comparison_target" /\ q[2].fails = f2
      /\ q[3].reason = "too_many_comparison_targets" /\ q[3].fails = f3
      /\ q[4].reason = "invalid_date" /\ q[4].fails = f4
      /\ q[5].reason = "multiple_dates" /\ q[5].fails = f5
      /\ q[6].reason = "partial_date" /\ q[6].fails = f6
      /\ q[7].reason = "KeyError" /\ q[7].fails = f7
  <2> HIDE DEF q
  <2>1. q[1].reason = "missing_comparison_targets" /\ q[1].fails = f1 BY <1>5 DEF Check
  <2>2. q[2].reason = "missing_comparison_target" /\ q[2].fails = f2 BY <1>5 DEF Check
  <2>3. q[3].reason = "too_many_comparison_targets" /\ q[3].fails = f3 BY <1>5 DEF Check
  <2>4. q[4].reason = "invalid_date" /\ q[4].fails = f4 BY <1>5 DEF Check
  <2>5. q[5].reason = "multiple_dates" /\ q[5].fails = f5 BY <1>5 DEF Check
  <2>6. q[6].reason = "partial_date" /\ q[6].fails = f6 BY <1>5 DEF Check
  <2>7. q[7].reason = "KeyError" /\ q[7].fails = f7 BY <1>5 DEF Check
  <2> QED BY <2>1, <2>2, <2>3, <2>4, <2>5, <2>6, <2>7
<1>7. f1 <=> Len(Targets(t)) = 0 BY <1>1a, Zenon
<1>8. f2 <=> Len(Targets(t)) = 1 BY <1>1b, Zenon
<1>9. f3 <=> Len(Targets(t)) > 2 BY <1>1c, Zenon
<1>10. f4 <=> "bad_date" \in t.notes BY <1>1d, Zenon
<1>11. f5 <=> Cardinality(t.days) > 1 BY <1>1e, Zenon
<1>12. f6 <=> t.days = {} /\ "partial_date" \in t.notes BY <1>1f, Zenon
<1>13. f7 <=> VersionsSaid(t) # {} /\ \E l \in Sides(t) : Of(l) = {} BY <1>1g, Zenon
<1> HIDE DEF q
<1> QED BY <1>4, <1>6, <1>7, <1>8, <1>9, <1>10, <1>11, <1>12, <1>13, Zenon DEF q

\* resolve_comparison_scopes asks for the first check that fails, of the pair or of a side.
LEMMA ComparisonChecks ==
  ASSUME NEW t
  PROVE  LET asks == FirstFailing(ComparisonGuards(t) \o VersionChecks(t, Sides(t)))
             side(k) == FirstFailing(SideChecks(t, Targets(t)[k], Sides(t)))
         IN ResolveComparison(t) =
              IF asks # "" THEN Clarification(asks)
              ELSE IF side(1) # "" THEN Clarification(side(1))
              ELSE IF side(2) # "" THEN Clarification(side(2))
              ELSE [status |-> "resolved", reason |-> "comparison",
                    scopes |-> [k \in 1..2 |->
                      Target(Of(Targets(t)[k]), VersionFor(t, Targets(t)[k], Sides(t)), t,
                             Fallback(t, Targets(t)[k]), "comparison_default")]]
BY Zenon DEF ResolveComparison, ComparisonGuards, Sides

\* Every mention of a version belongs to a target, and no two of one target differ.
VersionsPassed(t) ==
  \A i \in DOMAIN t.words : t.words[i] \in Versions =>
    AttachedTo(t, i, Sides(t)) # {} /\ ~Clashes(t, i, Sides(t))

\* The checks of the versions pass when each version has one lender to go to.
LEMMA VersionChecksAre ==
  ASSUME NEW t \in Text
  PROVE  LET q == VersionChecks(t, Sides(t))
         IN /\ q \in Seq(Checks)
            /\ \A i \in 1..Len(q) : q[i].reason \in {"ambiguous_comparison_version",
                                                   "multiple_versions_for_target"}
            /\ (\A i \in 1..Len(q) : ~q[i].fails) => VersionsPassed(t)
<1> DEFINE W == Lenders \cup Versions \cup {"both", "gap"}
           says(i) == t.words[i] \in Versions
           lost(i) == AttachedTo(t, i, Sides(t)) = {}
           clash(i) == Clashes(t, i, Sides(t))
           at(i) == IF says(i) /\ lost(i) THEN Check(TRUE, "ambiguous_comparison_version")
                    ELSE Check(says(i) /\ clash(i), "multiple_versions_for_target")
           q == VersionChecks(t, Sides(t))
<1>1. PICK w \in Seq(W) : w = t.words BY SaidIsFinite
<1>2. PICK n \in Nat : n = Len(w) OBVIOUS
<1>3. q = [i \in 1..n |-> at(i)]
  <2>1. DOMAIN t.words = 1..n BY <1>1, <1>2
  <2> QED BY <2>1, Zenon DEF VersionChecks
<1>4. ASSUME NEW i
      PROVE  /\ at(i) \in Checks
             /\ at(i).reason \in {"ambiguous_comparison_version", "multiple_versions_for_target"}
             /\ ~at(i).fails => ~(says(i) /\ lost(i)) /\ ~(says(i) /\ clash(i))
  <2>1. CASE says(i) /\ lost(i)
    <3>1. at(i) = Check(TRUE, "ambiguous_comparison_version") BY <2>1, Zenon
    <3>2. Check(TRUE, "ambiguous_comparison_version") \in Checks
      BY CheckType DEF Verdicts, Reasons
    <3> QED
      <4> HIDE DEF at
      <4>1. at(i).fails = TRUE /\ at(i).reason = "ambiguous_comparison_version" BY <3>1 DEF Check
      <4> QED BY <3>1, <3>2, <4>1
  <2>2. CASE ~(says(i) /\ lost(i))
    <3>1. (says(i) /\ clash(i)) \in BOOLEAN OBVIOUS
    <3>2. PICK f \in BOOLEAN : f = (says(i) /\ clash(i)) BY <3>1, Zenon
    <3>3. at(i) = Check(f, "multiple_versions_for_target") BY <2>2, <3>2, Zenon
    <3>4. Check(f, "multiple_versions_for_target") \in Checks
      BY CheckType DEF Verdicts, Reasons
    <3>5. ~f => ~(says(i) /\ clash(i)) BY <3>2, Zenon
    <3> HIDE DEF at
    <3>6. at(i).fails = f /\ at(i).reason = "multiple_versions_for_target" BY <3>3 DEF Check
    <3> QED BY <2>2, <3>3, <3>4, <3>5, <3>6, Zenon
  <2> QED BY <2>1, <2>2, Zenon
<1> HIDE DEF at
<1>5. q \in Seq(Checks) /\ Len(q) = n /\ \A i \in 1..n : q[i] = at(i)
  <2> HIDE DEF q
  <2>1. q \in [1..n -> Checks] BY <1>3, <1>4
  <2>2. q \in Seq(Checks) /\ Len(q) = n BY <2>1
  <2> QED BY <1>3, <2>2
<1> HIDE DEF q
<1>6. \A i \in 1..Len(q) : q[i].reason \in {"ambiguous_comparison_version",
                                           "multiple_versions_for_target"}
  BY <1>4, <1>5
<1>7. (\A i \in 1..Len(q) : ~q[i].fails) => VersionsPassed(t)
  <2> SUFFICES ASSUME \A i \in 1..Len(q) : ~q[i].fails PROVE VersionsPassed(t) OBVIOUS
  <2>1. \A i \in 1..n : ~at(i).fails BY <1>5, Zenon
  <2>2. \A i \in 1..n : ~(says(i) /\ lost(i)) /\ ~(says(i) /\ clash(i)) BY <1>4, <2>1, Zenon
  <2>3. DOMAIN t.words = 1..n BY <1>1, <1>2
  <2> QED BY <2>2, <2>3, Zenon DEF VersionsPassed
<1> QED BY <1>5, <1>6, <1>7, Zenon DEF q

\* What the questions about one side are.
SideReasons == {"unknown_lender", "unknown_version", "version_date_conflict",
                "date_not_covered", "current_version_not_unique"}

\* A side passes when its lender has exactly one manual to settle on.
SidePassed(t, l) ==
  ~TargetFails(Of(l), VersionFor(t, l, Sides(t)), t, Fallback(t, l))

\* The checks of a side pass or ask one of the reasons of a side.
LEMMA SideDecides ==
  ASSUME NEW t, NEW l
  PROVE  LET asks == FirstFailing(SideChecks(t, l, Sides(t)))
         IN (asks = "" /\ SidePassed(t, l)) \/ asks \in SideReasons
<1> DEFINE p == <<Check(Of(l) = {}, "unknown_lender")>>
           q == TargetChecks(Of(l), VersionFor(t, l, Sides(t)), t, Fallback(t, l))
           f == Of(l)  v == VersionFor(t, l, Sides(t))  c == Fallback(t, l)
<1>1. p \in Seq(Checks) /\ Len(p) = 1 /\ p[1].reason = "unknown_lender"
  <2>1. PICK b \in BOOLEAN : b = (Of(l) = {}) OBVIOUS
  <2>2. p = <<Check(b, "unknown_lender")>> BY <2>1, Zenon
  <2>3. Check(b, "unknown_lender") \in Checks BY CheckType DEF Verdicts, Reasons
  <2>4. p[1] = Check(b, "unknown_lender") BY <2>2
  <2> HIDE DEF p
  <2>5. p[1].reason = "unknown_lender" BY <2>4 DEF Check
  <2> QED BY <2>2, <2>3, <2>5
<1> HIDE DEF f, v, c
<1>2. /\ TargetChecks(f, v, t, c) \in Seq(Checks) /\ Len(TargetChecks(f, v, t, c)) = 4
      /\ \A i \in 1..4 : TargetChecks(f, v, t, c)[i].reason \in SideReasons
      /\ (\A i \in 1..4 : ~TargetChecks(f, v, t, c)[i].fails) => ~TargetFails(f, v, t, c)
  <2> DEFINE r == TargetChecks(f, v, t, c)
  <2>1. /\ r \in Seq(Checks) /\ Len(r) = 4
        /\ r[1].reason = "unknown_version" /\ r[2].reason = "version_date_conflict"
        /\ r[3].reason = "date_not_covered" /\ r[4].reason = "current_version_not_unique"
        /\ r[1].fails <=> v # {} /\ Named(f, v) = {}
        /\ r[2].fails <=> AgainstDay(Named(f, v), t)
        /\ r[3].fails <=> v = {} /\ t.days # {} /\ Cardinality(InForce(f, t)) # 1
        /\ r[4].fails <=> v = {} /\ t.days = {} /\ Cardinality(c) # 1
    BY TargetChecksAre
  <2> HIDE DEF r
  <2>2. \A i \in 1..4 : r[i].reason \in SideReasons
    <3>1. \A i \in 1..4 : i = 1 \/ i = 2 \/ i = 3 \/ i = 4 OBVIOUS
    <3> QED BY <2>1, <3>1, Zenon DEF SideReasons
  <2>3. (\A i \in 1..4 : ~r[i].fails) => ~TargetFails(f, v, t, c)
    <3> SUFFICES ASSUME \A i \in 1..4 : ~r[i].fails PROVE ~TargetFails(f, v, t, c) OBVIOUS
    <3>1. ~r[1].fails /\ ~r[2].fails /\ ~r[3].fails /\ ~r[4].fails OBVIOUS
    <3> QED BY <2>1, <3>1, Zenon DEF TargetFails
  <2> QED BY <2>1, <2>2, <2>3, Zenon DEF r
<1>3. /\ q \in Seq(Checks) /\ Len(q) = 4
      /\ \A i \in 1..4 : q[i].reason \in SideReasons
      /\ (\A i \in 1..4 : ~q[i].fails) => SidePassed(t, l)
  BY <1>2, Zenon DEF f, v, c, SidePassed
<1>4. SideChecks(t, l, Sides(t)) = p \o q BY Zenon DEF SideChecks
<1> HIDE DEF p, q
<1>5. \A k \in 1..1 : p[k].reason \in SideReasons BY <1>1 DEF SideReasons
<1>6. \/ FirstFailing(p \o q) = "" /\ \A i \in 1..4 : ~q[i].fails
      \/ \E k \in 1..1 : FirstFailing(p \o q) = p[k].reason
      \/ \E k \in 1..4 : FirstFailing(p \o q) = q[k].reason
  <2>1. p \in Seq(Checks) /\ q \in Seq(Checks) /\ Len(p) = 1 /\ Len(q) = 4 BY <1>1, <1>3
  <2>2. \/ FirstFailing(p \o q) = "" /\ \A i \in 1..Len(q) : ~q[i].fails
        \/ \E k \in 1..Len(p) : FirstFailing(p \o q) = p[k].reason /\ p[k].fails
        \/ \E k \in 1..Len(q) : FirstFailing(p \o q) = q[k].reason /\ q[k].fails
    <3>1. p \in Seq(Checks) /\ q \in Seq(Checks) BY <2>1
    <3> QED BY <3>1, FirstFailingOfTwo
  <2> QED BY <2>1, <2>2, Zenon
<1> QED BY <1>3, <1>4, <1>5, <1>6, Zenon

\* What has been said once none of the other questions is asked, and what two of them say.
ComparisonPassed(t) ==
  /\ Len(Targets(t)) = 2
  /\ "bad_date" \notin t.notes
  /\ ~(Cardinality(t.days) > 1)
  /\ VersionsPassed(t)

\* What the text holds when a comparison asks one of the final reasons.
ComparisonAsks(t, reason) ==
  /\ reason = "invalid_date" => "bad_date" \in t.notes
  /\ reason = "multiple_dates" => Cardinality(t.days) > 1

\* The scope of one side.
Side(t, l) ==
  Target(Of(l), VersionFor(t, l, Sides(t)), t, Fallback(t, l), "comparison_default")

\* resolve_comparison_scopes resolves a pair whose sides pass, raises, or asks.
LEMMA ComparisonDecides ==
  ASSUME NEW t \in Text
  PROVE  \/ /\ ComparisonPassed(t)
            /\ SidePassed(t, Targets(t)[1]) /\ SidePassed(t, Targets(t)[2])
            /\ ResolveComparison(t) =
                 [status |-> "resolved", reason |-> "comparison",
                  scopes |-> [k \in 1..2 |-> Side(t, Targets(t)[k])]]
         \/ \E reason \in Verdicts : /\ ResolveComparison(t) = Clarification(reason)
                                     /\ ComparisonAsks(t, reason)
<1> DEFINE p == ComparisonGuards(t)
           q == VersionChecks(t, Sides(t))
           asks == FirstFailing(p \o q)
           side(k) == FirstFailing(SideChecks(t, Targets(t)[k], Sides(t)))
           Asked == \E reason \in Verdicts : asks = reason /\ ComparisonAsks(t, reason)
<1>1. /\ p \in Seq(Checks) /\ Len(p) = 7
      /\ p[1].reason = "missing_comparison_targets"
      /\ p[1].fails <=> Len(Targets(t)) = 0
      /\ p[2].reason = "missing_comparison_target"
      /\ p[2].fails <=> Len(Targets(t)) = 1
      /\ p[3].reason = "too_many_comparison_targets"
      /\ p[3].fails <=> Len(Targets(t)) > 2
      /\ p[4].reason = "invalid_date"
      /\ p[4].fails <=> "bad_date" \in t.notes
      /\ p[5].reason = "multiple_dates"
      /\ p[5].fails <=> Cardinality(t.days) > 1
      /\ p[6].reason = "partial_date"
      /\ p[6].fails <=> t.days = {} /\ "partial_date" \in t.notes
      /\ p[7].reason = "KeyError"
      /\ p[7].fails <=> VersionsSaid(t) # {} /\ \E l \in Sides(t) : Of(l) = {}
  BY ComparisonGuardsAre, Zenon
<1>2. /\ q \in Seq(Checks)
      /\ \A i \in 1..Len(q) : q[i].reason \in {"ambiguous_comparison_version",
                                              "multiple_versions_for_target"}
      /\ (\A i \in 1..Len(q) : ~q[i].fails) => VersionsPassed(t)
  BY VersionChecksAre, Zenon
<1>3. ResolveComparison(t) =
        IF asks # "" THEN Clarification(asks)
        ELSE IF side(1) # "" THEN Clarification(side(1))
        ELSE IF side(2) # "" THEN Clarification(side(2))
        ELSE [status |-> "resolved", reason |-> "comparison",
              scopes |-> [k \in 1..2 |-> Side(t, Targets(t)[k])]]
  BY ComparisonChecks, Zenon DEF Side
<1>4. /\ (side(1) = "" /\ SidePassed(t, Targets(t)[1])) \/ side(1) \in SideReasons
      /\ (side(2) = "" /\ SidePassed(t, Targets(t)[2])) \/ side(2) \in SideReasons
  BY SideDecides, Zenon
<1> HIDE DEF p, q
<1>5. (\A i \in 1..7 : ~p[i].fails) /\ VersionsPassed(t) => ComparisonPassed(t)
  <2> SUFFICES ASSUME \A i \in 1..7 : ~p[i].fails, VersionsPassed(t) PROVE ComparisonPassed(t)
    OBVIOUS
  <2>1. ~p[1].fails /\ ~p[2].fails /\ ~p[3].fails /\ ~p[4].fails /\ ~p[5].fails OBVIOUS
  <2>2. Len(Targets(t)) \in Nat BY TargetsOfTwo
  <2>3. ~(Len(Targets(t)) = 0) /\ ~(Len(Targets(t)) = 1) /\ ~(Len(Targets(t)) > 2)
    BY <1>1, <2>1, Zenon
  <2>4. Len(Targets(t)) = 2
    <3>1. PICK m \in Nat : m = Len(Targets(t)) BY <2>2
    <3> QED BY <2>3, <3>1
  <2> QED BY <1>1, <2>1, <2>4, Zenon DEF ComparisonPassed
<1>6. ASSUME NEW k \in 1..7, asks = p[k].reason, p[k].reason \in Verdicts, p[k].fails
      PROVE  Asked
  <2>1. CASE k = 4
    <3>1. "invalid_date" # "multiple_dates" OBVIOUS
    <3> QED BY <1>1, <1>6, <2>1, <3>1, Zenon DEF ComparisonAsks
  <2>2. CASE k = 5
    <3>1. "invalid_date" # "multiple_dates" OBVIOUS
    <3> QED BY <1>1, <1>6, <2>2, <3>1, Zenon DEF ComparisonAsks
  <2>3. CASE k = 1 \/ k = 2 \/ k = 3 \/ k = 6 \/ k = 7
    <3>1. p[k].reason # "invalid_date" /\ p[k].reason # "multiple_dates"
      <4>1. p[k].reason \in {"missing_comparison_targets", "missing_comparison_target",
                            "too_many_comparison_targets", "partial_date", "KeyError"}
        BY <1>1, <2>3, Zenon
      <4> QED BY <4>1
    <3> QED BY <1>6, <3>1, Zenon DEF ComparisonAsks
  <2>4. k = 1 \/ k = 2 \/ k = 3 \/ k = 4 \/ k = 5 \/ k = 6 \/ k = 7 OBVIOUS
  <2> QED BY <2>1, <2>2, <2>3, <2>4
<1>7. ASSUME NEW k \in 1..Len(q), asks = q[k].reason, q[k].reason \in Verdicts
      PROVE  Asked
  <2>1. q[k].reason # "invalid_date" /\ q[k].reason # "multiple_dates" BY <1>2
  <2> QED BY <1>7, <2>1, Zenon DEF ComparisonAsks
<1>8. \A reason \in SideReasons : /\ reason \in Verdicts /\ reason # ""
                                  /\ reason # "invalid_date" /\ reason # "multiple_dates"
  BY DEF SideReasons, Verdicts, Reasons
<1>9. \A reason \in Verdicts : reason # "" BY DEF Verdicts, Reasons
<1>10. CASE Asked BY <1>3, <1>9, <1>10, Zenon
<1>11. CASE asks = "" /\ ComparisonPassed(t)
  <2>1. CASE side(1) \in SideReasons
    BY <1>3, <1>8, <1>11, <2>1, Zenon DEF ComparisonAsks
  <2>2. CASE side(1) = "" /\ side(2) \in SideReasons
    BY <1>3, <1>8, <1>11, <2>2, Zenon DEF ComparisonAsks
  <2>3. CASE side(1) = "" /\ side(2) = ""
    <3>1. "" \notin SideReasons BY DEF SideReasons
    <3> QED BY <1>3, <1>4, <1>11, <2>3, <3>1, Zenon
  <2> QED BY <1>4, <2>1, <2>2, <2>3, Zenon
<1>12. \/ asks = "" /\ (\A i \in 1..7 : ~p[i].fails) /\ \A i \in 1..Len(q) : ~q[i].fails
       \/ \E k \in 1..7 : asks = p[k].reason /\ p[k].reason \in Verdicts /\ p[k].fails
       \/ \E k \in 1..Len(q) : asks = q[k].reason /\ q[k].reason \in Verdicts
  <2>1. p \in Seq(Checks) /\ q \in Seq(Checks) /\ Len(p) = 7 BY <1>1, <1>2
  <2> QED BY <2>1, FirstFailingOfTwo, Zenon
<1> HIDE DEF asks, Asked
<1> QED BY <1>2, <1>5, <1>6, <1>7, <1>10, <1>11, <1>12, Zenon

\* A version attached to a lender is one the text says.
LEMMA VersionForSaid ==
  ASSUME NEW t \in Text, NEW l
  PROVE  VersionFor(t, l, Sides(t)) \subseteq VersionsSaid(t)
<1>1. PICK w \in Seq(Lenders \cup Versions \cup {"both", "gap"}) : w = t.words BY SaidIsFinite
<1>2. PICK n \in Nat : n = Len(w) /\ DOMAIN w = 1..n OBVIOUS
<1>3. ASSUME NEW i \in LastFor(t, l, Sides(t), Len(t.words) + 1)
      PROVE  t.words[i] \in VersionsSaid(t)
  <2>1. i \in 1..((n + 1) - 1) /\ w[i] \in Versions BY <1>1, <1>2, <1>3 DEF LastFor
  <2>2. i \in DOMAIN w BY <1>2, <2>1
  <2> QED BY <1>1, <2>1, <2>2 DEF VersionsSaid, Said
<1> QED BY <1>3 DEF VersionFor

\* Unless "both" is said, all versions attached to a target are the same one.
LEMMA VersionOfTarget ==
  ASSUME NEW t \in Text, VersionsPassed(t), "both" \notin Said(t),
         NEW v \in VersionsSaid(t)
  PROVE  \E l \in Sides(t) : VersionFor(t, l, Sides(t)) = {v}
<1>1. PICK w \in Seq(Lenders \cup Versions \cup {"both", "gap"}) : w = t.words BY SaidIsFinite
<1>2. PICK n \in Nat : n = Len(w) /\ DOMAIN w = 1..n OBVIOUS
<1>3. PICK p \in 1..n : w[p] = v /\ v \in Versions BY <1>1, <1>2 DEF VersionsSaid, Said
<1>4. \A i : ~SaidOfBoth(t, i) BY DEF SaidOfBoth, Said
<1>5. PICK S : S = Sides(t) OBVIOUS
<1>6. AttachedTo(t, p, S) # {} BY <1>1, <1>2, <1>3, <1>5 DEF VersionsPassed
<1>7. AttachedTo(t, p, S) \subseteq S BY <1>4 DEF AttachedTo
<1>8. PICK l \in S : l \in AttachedTo(t, p, S) BY <1>6, <1>7
<1> DEFINE attached == {i \in 1..n : w[i] \in Versions /\ l \in AttachedTo(t, i, S)}
           last(m) == LastFor(t, l, S, m)
<1>9. attached \in SUBSET Nat /\ p \in attached BY <1>2, <1>3, <1>8
<1>10. \A m \in Nat : \A i \in last(m) :
           i \in 1..(m - 1) /\ w[i] \in Versions /\ l \in AttachedTo(t, i, S)
  BY <1>1 DEF LastFor
<1>11. ASSUME NEW m \in Nat, m <= n + 1, NEW j \in attached, j < m,
              \A i \in attached : i < m => i <= j
       PROVE  j \in last(m)
  <2>1. j \in 1..(m - 1) /\ w[j] \in Versions /\ l \in AttachedTo(t, j, S) BY <1>2, <1>11
  <2>2. ASSUME NEW i \in (j + 1)..(m - 1), w[i] \in Versions, l \in AttachedTo(t, i, S)
        PROVE  FALSE
    <3>1. i \in 1..n BY <1>2, <1>9, <1>11
    <3>2. i \in attached BY <2>2, <3>1
    <3> QED BY <1>9, <1>11, <2>2, <3>2
  <2> QED BY <1>1, <2>1, <2>2 DEF LastFor
<1>12. \A i \in attached : \A j \in last(i) : w[j] = w[i]
  <2> SUFFICES ASSUME NEW i \in attached, NEW j \in last(i), w[j] # w[i] PROVE FALSE
    OBVIOUS
  <2>1. Clashes(t, i, S) BY <1>1, <1>4 DEF Clashes
  <2>2. ~Clashes(t, i, S) BY <1>1, <1>2, <1>5 DEF VersionsPassed
  <2> QED BY <2>1, <2>2
<1> DEFINE below(m) == {i \in attached : i < m}
<1> HIDE DEF attached
<1>13. ASSUME NEW m \in Nat, below(m) # {}
       PROVE  \E j \in below(m) : \A i \in below(m) : i <= j
  <2>1. below(m) \in SUBSET Nat /\ \A i \in below(m) : i <= m
    <3>1. ASSUME NEW i \in attached, i < m PROVE i \in Nat /\ i <= m BY <1>9, <3>1
    <3> QED BY <3>1
  <2> HIDE DEF below
  <2> QED BY <1>13, <2>1, GreatestBelow
<1>14. PICK a \in attached : \A i \in attached : a <= i
  BY <1>9, LeastNat
<1>15. \A i \in attached : w[i] = w[a]
  <2> DEFINE odd == {i \in attached : w[i] # w[a]}
  <2> SUFFICES ASSUME odd # {} PROVE FALSE OBVIOUS
  <2>1. odd \in SUBSET Nat BY <1>9
  <2>2. PICK k \in odd : \A i \in odd : k <= i
    <3> HIDE DEF odd
    <3> QED BY <2>1, LeastNat
  <2>3. k \in attached /\ w[k] # w[a] /\ k \in Nat /\ a \in Nat BY <1>9
  <2>4. a < k BY <1>14, <2>3
  <2>5. PICK j \in below(k) : \A i \in below(k) : i <= j BY <1>13, <2>3, <2>4
  <2>6. j \in attached /\ j < k BY <2>5
  <2>7. k <= n + 1 BY <1>2, <2>3 DEF attached
  <2>8. j \in last(k) BY <1>11, <2>3, <2>5, <2>6, <2>7
  <2>9. w[j] = w[k] BY <1>12, <2>3, <2>8
  <2>10. j \in odd BY <2>3, <2>6, <2>9
  <2> QED BY <1>9, <2>2, <2>3, <2>6, <2>10
<1>16. last(n + 1) # {}
  <2>1. p \in below(n + 1) BY <1>2, <1>9 DEF attached
  <2>2. PICK j \in below(n + 1) : \A i \in below(n + 1) : i <= j
    <3>1. n + 1 \in Nat /\ below(n + 1) # {} BY <2>1
    <3> HIDE DEF below
    <3> QED BY <1>13, <3>1, Zenon
  <2>3. j \in last(n + 1) BY <1>11, <2>2
  <2> QED BY <2>3
<1>17. \A i \in last(n + 1) : i \in attached BY <1>2, <1>10 DEF attached
<1>18. \A i \in last(n + 1) : w[i] = v
  <2>1. w[p] = w[a] BY <1>9, <1>15
  <2> QED BY <1>3, <1>15, <1>17, <2>1
<1>19. {w[i] : i \in last(n + 1)} = {v} BY <1>16, <1>18
<1>20. VersionFor(t, l, S) = {w[i] : i \in last(n + 1)} BY <1>1, <1>2, Zenon DEF VersionFor
<1> QED BY <1>5, <1>19, <1>20, Zenon

\* Without a version, a side falls back to manuals of its own lender.
LEMMA FallbackIs ==
  ASSUME NEW t, NEW l
  PROVE  /\ Fallback(t, l) \subseteq Of(l)
         /\ "current" \in t.notes => Fallback(t, l) = CurrentOf(Of(l))
<1>1. "current" \in t.notes => Fallback(t, l) = CurrentOf(Of(l)) BY Zenon DEF Fallback
<1>2. \/ Fallback(t, l) = CurrentOf(Of(l))
      \/ Fallback(t, l) = {s \in Of(l) : s.version = prior.version}
  BY Zenon DEF Fallback
<1>3. CurrentOf(Of(l)) \subseteq Of(l) BY DEF CurrentOf
<1> QED BY <1>1, <1>2, <1>3

\* What the manual of one side owes to the text.
LEMMA SideFollows ==
  ASSUME manifest \in Manifests, LoadManifest(manifest), NEW t \in Text, NEW l, SidePassed(t, l)
  PROVE  LET spec == Side(t, l).spec
         IN /\ spec \in manifest /\ spec.lender = l
            /\ \A d \in t.days : Contains(spec, d)
            /\ VersionFor(t, l, Sides(t)) # {} => spec.version \in VersionFor(t, l, Sides(t))
            /\ "current" \in t.notes /\ t.days = {} =>
                 spec.status = "current" \/ spec.version \in VersionsSaid(t)
            /\ Finds(Side(t, l))
<1> DEFINE family == Of(l)  versions == VersionFor(t, l, Sides(t))  fallback == Fallback(t, l)
<1>1. PICK spec : spec = Side(t, l).spec OBVIOUS
<1>2. family \in SUBSET manifest /\ fallback \in SUBSET family
  <2>1. family \in SUBSET manifest BY DEF Of
  <2> QED BY <2>1, FallbackIs
<1>3. ~TargetFails(family, versions, t, fallback) BY DEF SidePassed
<1>4. \A x \in family : x.lender = l BY DEF Of
<1>5. versions \subseteq VersionsSaid(t) BY VersionForSaid
<1>6. "current" \in t.notes => \A x \in fallback : x.status = "current"
  <2>1. \A x \in CurrentOf(family) : x.status = "current" BY DEF CurrentOf
  <2> QED BY <2>1, FallbackIs
<1>7. Side(t, l) = Target(family, versions, t, fallback, "comparison_default")
  BY Zenon DEF Side
<1> HIDE DEF family, versions, fallback
<1>8. /\ spec \in family
      /\ \A d \in t.days : Contains(spec, d)
      /\ versions # {} => spec.version \in versions
      /\ versions = {} /\ t.days = {} => fallback = {spec}
  BY <1>1, <1>2, <1>3, <1>7, TargetIsNamed
<1>9. Finds(Side(t, l))
  <2>1. "comparison_default" # "default_current" OBVIOUS
  <2>2. Finds(Target(family, versions, t, fallback, "comparison_default"))
    BY <1>2, <1>3, <2>1, TargetFinds
  <2> QED BY <1>7, <2>2
<1>10. "current" \in t.notes /\ t.days = {} =>
         spec.status = "current" \/ spec.version \in VersionsSaid(t)
  BY <1>5, <1>6, <1>8
<1>11. spec \in manifest /\ spec.lender = l BY <1>2, <1>4, <1>8
<1> QED BY <1>1, <1>8, <1>9, <1>10, <1>11, Zenon DEF versions

\* What the manuals of a comparison owe to the text.
ComparedText(t, specs) ==
  /\ Cardinality({s.lender : s \in specs}) = 2
  /\ LendersSaid(t) \subseteq {s.lender : s \in specs}
  /\ "both" \notin Said(t) => VersionsSaid(t) \subseteq {s.version : s \in specs}
  /\ \A s \in specs : \A d \in t.days : Contains(s, d)
  /\ "current" \in t.notes /\ t.days = {} =>
       \A s \in specs : s.status = "current" \/ s.version \in VersionsSaid(t)

\* A comparison that passes every check compares the pair its text says.
LEMMA ComparisonFollows ==
  ASSUME manifest \in Manifests, LoadManifest(manifest), NEW t \in Text, ComparisonPassed(t),
         SidePassed(t, Targets(t)[1]), SidePassed(t, Targets(t)[2])
  PROVE  /\ ComparedText(t, {Side(t, Targets(t)[1]).spec, Side(t, Targets(t)[2]).spec})
         /\ Finds(Side(t, Targets(t)[1])) /\ Finds(Side(t, Targets(t)[2]))
<1>1. PICK a, b : a # b /\ LendersSaid(t) \subseteq {a, b} /\ Targets(t) = <<a, b>>
  BY TargetsOfTwo DEF ComparisonPassed
<1>2. Targets(t)[1] = a /\ Targets(t)[2] = b /\ Sides(t) = {a, b} BY <1>1 DEF Sides
<1>3. PICK r, s : r = Side(t, a).spec /\ s = Side(t, b).spec OBVIOUS
<1>4. /\ r.lender = a
      /\ \A d \in t.days : Contains(r, d)
      /\ VersionFor(t, a, Sides(t)) # {} => r.version \in VersionFor(t, a, Sides(t))
      /\ "current" \in t.notes /\ t.days = {} =>
           r.status = "current" \/ r.version \in VersionsSaid(t)
      /\ Finds(Side(t, a))
  <2>1. SidePassed(t, a) BY <1>2
  <2> QED BY <1>3, <2>1, SideFollows, Zenon
<1>5. /\ s.lender = b
      /\ \A d \in t.days : Contains(s, d)
      /\ VersionFor(t, b, Sides(t)) # {} => s.version \in VersionFor(t, b, Sides(t))
      /\ "current" \in t.notes /\ t.days = {} =>
           s.status = "current" \/ s.version \in VersionsSaid(t)
      /\ Finds(Side(t, b))
  <2>1. SidePassed(t, b) BY <1>2
  <2> QED BY <1>3, <2>1, SideFollows, Zenon
<1>6. {x.lender : x \in {r, s}} = {a, b} BY <1>4, <1>5
<1>7. Cardinality({a, b}) = 2
  <2>1. IsFiniteSet({a}) /\ Cardinality({a}) = 1 BY FS_Singleton
  <2>2. Cardinality({a} \cup {b}) = Cardinality({a}) + 1 BY <1>1, <2>1, FS_AddElement
  <2>3. {a} \cup {b} = {a, b} OBVIOUS
  <2> QED BY <2>1, <2>2, <2>3
<1>8. ASSUME "both" \notin Said(t), NEW v \in VersionsSaid(t)
      PROVE  v \in {x.version : x \in {r, s}}
  <2>1. VersionsPassed(t) BY DEF ComparisonPassed
  <2>2. PICK l \in {a, b} : VersionFor(t, l, Sides(t)) = {v}
    BY <1>2, <1>8, <2>1, VersionOfTarget
  <2>3. r.version = v \/ s.version = v BY <1>4, <1>5, <2>2
  <2> QED BY <2>3
<1>9. VersionsSaid(t) \subseteq {x.version : x \in {r, s}} \/ "both" \in Said(t) BY <1>8
<1>10. \A x \in {r, s} : \A d \in t.days : Contains(x, d) BY <1>4, <1>5
<1>11. "current" \in t.notes /\ t.days = {} =>
         \A x \in {r, s} : x.status = "current" \/ x.version \in VersionsSaid(t)
  BY <1>4, <1>5
<1>12. ComparedText(t, {r, s})
  BY <1>1, <1>6, <1>7, <1>9, <1>10, <1>11, Zenon DEF ComparedText
<1> QED BY <1>2, <1>3, <1>4, <1>5, <1>12

-----------------------------------------------------------------------------
(* Decisions of both kinds.                                                *)

\* What the resolver of the turn says of the text as it stands.
Decision == IF behavior = "policy" THEN ResolveQueryScope(text) ELSE ResolveComparison(text)

\* The manifest is one that loads, and the turn has a text and a behaviour.
Readable == /\ manifest \in Manifests /\ LoadManifest(manifest)
            /\ text \in Text /\ behavior \in {"policy", "compare"}

\* Questions that no reply takes back.
Final == AlwaysStuck \cup (IF behavior = "policy" THEN PolicyStuck ELSE {})

\* A question: what it says cannot be taken back is in the text.
ClarificationOf(decision) ==
  \E reason \in Reasons :
    /\ decision = [status |-> "clarification", reason |-> reason, scopes |-> <<>>]
    /\ reason \in Final => Stuck(text, reason)
    /\ behavior = "policy" /\ reason = "date_not_covered" => PolicyPassed(text)

\* One manual, the one the text says, and a filter that finds it.
PolicyDecision(decision) ==
  /\ behavior = "policy" /\ decision.status = "resolved" /\ decision.reason = "policy"
  /\ DOMAIN decision.scopes = 1..1 /\ Len(decision.scopes) = 1
  /\ decision.scopes[1].spec \in manifest
  /\ FollowsText(text, decision.scopes[1].spec) /\ Finds(decision.scopes[1])

\* Two manuals, the pair the text says, and filters that find them.
ComparisonDecision(decision) ==
  /\ behavior = "compare" /\ decision.status = "resolved" /\ decision.reason = "comparison"
  /\ DOMAIN decision.scopes = 1..2 /\ Len(decision.scopes) = 2
  /\ ComparedText(text, {decision.scopes[1].spec, decision.scopes[2].spec})
  /\ Finds(decision.scopes[1]) /\ Finds(decision.scopes[2])

\* The text holds nothing a reply could not take back.
Unstuck == \A reason \in Final : ~Stuck(text, reason)

\* The KeyError of a version said for a lender the manifest has no manual of.
Raised == [status |-> "raised", reason |-> "KeyError", scopes |-> <<>>]

\* A resolver settles on what the text says, asks, or raises.
LEMMA DecisionIs ==
  ASSUME Readable
  PROVE  \/ PolicyDecision(Decision) /\ Unstuck
         \/ ComparisonDecision(Decision) /\ Unstuck
         \/ ClarificationOf(Decision)
         \/ behavior = "compare" /\ Decision = Raised
<1>1. PICK t \in Text : t = text BY DEF Readable
<1>2. manifest \in Manifests /\ LoadManifest(manifest) BY DEF Readable
<1>3. CASE behavior = "policy"
  <2>1. Decision = ResolveQueryScope(t) BY <1>1, <1>3, Zenon DEF Decision
  <2>2. Final = AlwaysStuck \cup PolicyStuck BY <1>3, Zenon DEF Final
  <2> DEFINE family == Family(t)  versions == VersionsSaid(t)  current == CurrentOf(family)
  <2>3. CASE /\ PolicyPassed(t) /\ ~TargetFails(family, versions, t, current)
             /\ ResolveQueryScope(t) =
                  [status |-> "resolved", reason |-> "policy", scopes |->
                    <<Target(family, versions, t, current, "default_current")>>]
    <3>1. PICK scope : scope = Target(family, versions, t, current, "default_current") OBVIOUS
    <3>2. PICK d : d = ResolveQueryScope(t) OBVIOUS
    <3>3. d = [status |-> "resolved", reason |-> "policy", scopes |-> <<scope>>]
      BY <2>3, <3>1, <3>2, Zenon
    <3>4. /\ d.status = "resolved" /\ d.reason = "policy"
          /\ DOMAIN d.scopes = 1..1 /\ Len(d.scopes) = 1 /\ d.scopes[1] = scope
      BY <3>3
    <3>5. family \in SUBSET manifest /\ current \in SUBSET family
      <4>1. family \in SUBSET manifest BY DEF Family, Of
      <4> QED BY <4>1 DEF CurrentOf
    <3>6. FollowsText(t, scope.spec) BY <1>2, <2>3, <3>1, PolicyFollows, Zenon
    <3>7. \A reason \in Final : ~Stuck(t, reason) BY <1>2, <2>2, <2>3, PolicyUnstuck, Zenon
    <3>8. current = CurrentOf(family) OBVIOUS
    <3>9. ~TargetFails(family, versions, t, current) BY <2>3
    <3> HIDE DEF family, versions, current
    <3>10. scope.spec \in family BY <1>2, <3>1, <3>5, <3>9, TargetIsNamed
    <3>11. Finds(scope) BY <1>2, <3>1, <3>5, <3>8, <3>9, TargetFinds
    <3>12. scope.spec \in manifest BY <3>5, <3>10
    <3>13. PolicyDecision(d)
      BY <1>1, <1>3, <3>4, <3>6, <3>11, <3>12, Zenon DEF PolicyDecision
    <3> QED BY <1>1, <2>1, <3>2, <3>7, <3>13, Zenon DEF Unstuck
  <2>4. CASE \E reason \in Reasons :
               ResolveQueryScope(t) = Clarification(reason) /\ PolicyAsks(t, reason)
    <3>1. PICK reason \in Reasons :
            ResolveQueryScope(t) = Clarification(reason) /\ PolicyAsks(t, reason)
      BY <2>4, Zenon
    <3>2. reason # "KeyError" BY DEF Reasons
    <3>3. Decision = [status |-> "clarification", reason |-> reason, scopes |-> <<>>]
      BY <2>1, <3>1, <3>2, Zenon DEF Clarification
    <3>4. reason \in Final => Stuck(t, reason)
      BY <1>2, <2>2, <3>1, PolicyStuckWhenAsked, Zenon
    <3>5. reason = "date_not_covered" => PolicyPassed(t) BY <3>1 DEF PolicyAsks
    <3> QED BY <1>1, <3>3, <3>4, <3>5, Zenon DEF ClarificationOf
  <2> QED BY <2>3, <2>4, PolicyDecides, Zenon
<1>4. CASE behavior = "compare"
  <2>0. behavior # "policy" BY <1>4
  <2>1. Decision = ResolveComparison(t) BY <1>1, <2>0, Zenon DEF Decision
  <2>2. Final = AlwaysStuck BY <2>0 DEF Final
  <2>3. CASE /\ ComparisonPassed(t)
             /\ SidePassed(t, Targets(t)[1]) /\ SidePassed(t, Targets(t)[2])
             /\ ResolveComparison(t) =
                  [status |-> "resolved", reason |-> "comparison",
                   scopes |-> [k \in 1..2 |-> Side(t, Targets(t)[k])]]
    <3>1. PICK r, s : r = Side(t, Targets(t)[1]) /\ s = Side(t, Targets(t)[2]) OBVIOUS
    <3>2. PICK d : d = ResolveComparison(t) OBVIOUS
    <3>3. [k \in 1..2 |-> Side(t, Targets(t)[k])] = [k \in 1..2 |-> IF k = 1 THEN r ELSE s]
      BY <3>1
    <3>4. d = [status |-> "resolved", reason |-> "comparison",
               scopes |-> [k \in 1..2 |-> IF k = 1 THEN r ELSE s]]
      BY <2>3, <3>2, <3>3, Zenon
    <3>5. /\ d.status = "resolved" /\ d.reason = "comparison"
          /\ DOMAIN d.scopes = 1..2 /\ Len(d.scopes) = 2 /\ d.scopes[1] = r /\ d.scopes[2] = s
      BY <3>4
    <3>6. ComparedText(t, {r.spec, s.spec}) /\ Finds(r) /\ Finds(s)
      BY <1>2, <2>3, <3>1, ComparisonFollows, Zenon
    <3>7. \A reason \in Final : ~Stuck(t, reason)
      <4>1. ~Stuck(t, "invalid_date") BY <2>3 DEF ComparisonPassed, Stuck
      <4>2. ~Stuck(t, "multiple_dates")
        <5>1. IsFiniteSet(t.days) BY SaidIsFinite
        <5>2. \A d1, d2 \in t.days : d1 = d2 BY <2>3, <5>1, SeveralJoin DEF ComparisonPassed
        <5> QED BY <5>2 DEF Stuck
      <4> QED BY <2>2, <4>1, <4>2, Zenon DEF AlwaysStuck
    <3>8. ComparisonDecision(d) BY <1>1, <1>4, <3>5, <3>6, Zenon DEF ComparisonDecision
    <3> QED BY <1>1, <2>1, <3>2, <3>7, <3>8, Zenon DEF Unstuck
  <2>4. CASE \E reason \in Verdicts :
               ResolveComparison(t) = Clarification(reason) /\ ComparisonAsks(t, reason)
    <3>1. PICK reason \in Verdicts :
            ResolveComparison(t) = Clarification(reason) /\ ComparisonAsks(t, reason)
      BY <2>4, Zenon
    <3>2. CASE reason = "KeyError"
      BY <1>4, <2>1, <3>1, <3>2, Zenon DEF Clarification, Raised
    <3>3. CASE reason # "KeyError"
      <4>1. Decision = [status |-> "clarification", reason |-> reason, scopes |-> <<>>]
        BY <2>1, <3>1, <3>3, Zenon DEF Clarification
      <4>2. reason \in Reasons BY <3>3 DEF Verdicts
      <4>3. reason \in Final => Stuck(t, reason)
        <5>1. reason = "invalid_date" => Stuck(t, reason) BY <3>1 DEF ComparisonAsks, Stuck
        <5>2. CASE reason = "multiple_dates"
          <6>1. Cardinality(t.days) > 1 BY <3>1, <5>2 DEF ComparisonAsks
          <6> QED BY <5>2, <6>1, SeveralSplit DEF Stuck
        <5> QED BY <2>2, <5>1, <5>2, Zenon DEF AlwaysStuck
      <4> QED BY <1>1, <2>0, <4>1, <4>2, <4>3, Zenon DEF ClarificationOf
    <3> QED BY <3>2, <3>3
  <2> QED BY <2>3, <2>4, ComparisonDecides, Zenon
<1> QED BY <1>3, <1>4 DEF Readable

-----------------------------------------------------------------------------
(* The inductive invariant.                                                *)

\* Between a question and its reply the outcome is a question that the text gives rise
\* to, after the reply that of the text before it; at the end it is settled, given up
\* or raised, as the text says.
OutcomeAt ==
  /\ node = "idle" => outcome = Undecided /\ asked = {}
  /\ node = "resolve" =>
       \/ outcome = Undecided
       \/ \E reason \in Reasons :
            outcome = [status |-> "clarification", reason |-> reason, scopes |-> <<>>]
  /\ node = "clarify" => rounds < MaxClarify /\ ClarificationOf(outcome)
  /\ node = "end" =>
       \/ PolicyDecision(outcome) /\ Unstuck
       \/ ComparisonDecision(outcome) /\ Unstuck
       \/ behavior = "compare" /\ outcome = Raised
       \/ \E reason \in Reasons :
            /\ outcome = [status |-> "unresolved", reason |-> reason, scopes |-> <<>>]
            /\ behavior = "policy" /\ reason = "date_not_covered" => PolicyPassed(text)

\* A final question that was asked is still in the text.
StuckInv == \A reason \in asked \cap Final : Stuck(text, reason)

\* The inductive invariant: what the turn has settled follows from the text as it stands.
Inv ==
  /\ Readable
  /\ prior \in DocumentSpec \cup {NoScope} /\ history \in BOOLEAN /\ rounds \in 0..MaxClarify
  /\ node \in {"idle", "resolve", "clarify", "end"} /\ asked \subseteq Reasons
  /\ OutcomeAt /\ StuckInv

\* What a text says and a manifest holds does not change while the manifest does not.
LEMMA SameWords ==
  ASSUME manifest' = manifest, NEW t
  PROVE  /\ LendersSaid(t)' = LendersSaid(t) /\ VersionsSaid(t)' = VersionsSaid(t)
         /\ \A l : Of(l)' = Of(l)
BY DEF LendersSaid, VersionsSaid, Said, Of

\* Nor do the verdicts on it.
LEMMA SamePassed ==
  ASSUME manifest' = manifest, NEW t
  PROVE  PolicyPassed(t)' <=> PolicyPassed(t)
<1>1. Family(t)' = Family(t) BY SameWords DEF Family
<1>2. {s.document : s \in Family(t)}' = {s.document : s \in Family(t)} BY <1>1
<1>3. LendersSaid(t)' = LendersSaid(t) /\ VersionsSaid(t)' = VersionsSaid(t) BY SameWords
<1> QED BY <1>2, <1>3, Zenon DEF PolicyPassed

LEMMA SameFollows ==
  ASSUME manifest' = manifest, NEW t, NEW spec
  PROVE  FollowsText(t, spec)' <=> FollowsText(t, spec)
<1>1. InForce(Of(spec.lender), t)' = InForce(Of(spec.lender), t)
  BY SameWords DEF InForce
<1>2. LendersSaid(t)' = LendersSaid(t) /\ VersionsSaid(t)' = VersionsSaid(t) BY SameWords
<1> QED BY <1>1, <1>2, Zenon DEF FollowsText

LEMMA SameCompared ==
  ASSUME manifest' = manifest, NEW t, NEW specs
  PROVE  ComparedText(t, specs)' <=> ComparedText(t, specs)
<1>1. LendersSaid(t)' = LendersSaid(t) /\ VersionsSaid(t)' = VersionsSaid(t) BY SameWords
<1> QED BY <1>1, Zenon DEF ComparedText, Said

LEMMA SameFinds ==
  ASSUME manifest' = manifest, NEW scope
  PROVE  Finds(scope)' <=> Finds(scope)
BY Zenon DEF Finds

LEMMA SameStuck ==
  ASSUME manifest' = manifest, NEW t, NEW reason
  PROVE  Stuck(t, reason)' <=> Stuck(t, reason)
<1>1. /\ LendersSaid(t)' = LendersSaid(t) /\ VersionsSaid(t)' = VersionsSaid(t)
      /\ \A l : Of(l)' = Of(l)
  BY SameWords
<1>2. \A l : {s.document : s \in Of(l)}' = {s.document : s \in Of(l)} BY <1>1
<1>3. \A l, v : Named(Of(l), {v})' = Named(Of(l), {v}) BY <1>1 DEF Named
<1>4. \A l, v, d : Contains(TheFirst(Named(Of(l), {v})), d)' <=>
          Contains(TheFirst(Named(Of(l), {v})), d)
  BY <1>3 DEF TheFirst, Contains
<1> QED BY <1>1, <1>2, <1>3, <1>4, Zenon DEF Stuck

\* The same of the text of the next state.
LEMMA NowWords ==
  ASSUME NEW t, text' = t
  PROVE  /\ LendersSaid(text)' = LendersSaid(t)' /\ VersionsSaid(text)' = VersionsSaid(t)'
         /\ Said(text)' = Said(t)' /\ text'.days = t.days /\ text'.notes = t.notes
BY DEF LendersSaid, VersionsSaid, Said

\* The same of the text after a step, when the step says which it is.
LEMMA NowStuck ==
  ASSUME NEW t, text' = t, NEW reason
  PROVE  Stuck(text, reason)' <=> Stuck(t, reason)'
<1>1. /\ LendersSaid(text)' = LendersSaid(t)' /\ VersionsSaid(text)' = VersionsSaid(t)'
      /\ text'.days = t.days /\ text'.notes = t.notes
  BY NowWords
<1> QED BY <1>1, Zenon DEF Stuck

\* And its verdicts.
LEMMA NowPassed ==
  ASSUME NEW t, text' = t
  PROVE  PolicyPassed(text)' <=> PolicyPassed(t)'
<1>1. /\ LendersSaid(text)' = LendersSaid(t)' /\ VersionsSaid(text)' = VersionsSaid(t)'
      /\ text'.days = t.days /\ text'.notes = t.notes
  BY NowWords
<1>2. Family(text)' = Family(t)' BY <1>1 DEF Family
<1>3. {s.document : s \in Family(text)}' = {s.document : s \in Family(t)}' BY <1>2
<1> QED BY <1>1, <1>3, Zenon DEF PolicyPassed

LEMMA NowFollows ==
  ASSUME NEW t, text' = t, NEW spec
  PROVE  FollowsText(text, spec)' <=> FollowsText(t, spec)'
<1>1. /\ LendersSaid(text)' = LendersSaid(t)' /\ VersionsSaid(text)' = VersionsSaid(t)'
      /\ text'.days = t.days /\ text'.notes = t.notes
  BY NowWords
<1>2. InForce(Of(spec.lender), text)' = InForce(Of(spec.lender), t)' BY <1>1 DEF InForce
<1> QED BY <1>1, <1>2, Zenon DEF FollowsText

LEMMA NowCompared ==
  ASSUME NEW t, text' = t, NEW specs
  PROVE  ComparedText(text, specs)' <=> ComparedText(t, specs)'
<1>1. /\ LendersSaid(text)' = LendersSaid(t)' /\ VersionsSaid(text)' = VersionsSaid(t)'
      /\ Said(text)' = Said(t)' /\ text'.days = t.days /\ text'.notes = t.notes
  BY NowWords
<1> QED BY <1>1, Zenon DEF ComparedText

\* The invariant holds at first.
LEMMA Initially == Init => Inv
<1> SUFFICES ASSUME Init PROVE Inv OBVIOUS
<1>1. NothingSaid \in Text
  <2>1. <<>> \in Seq(Lenders \cup Versions \cup {"both", "gap"}) OBVIOUS
  <2> QED BY <2>1 DEF NothingSaid, Text
<1>2. Readable BY <1>1 DEF Init, Readable
<1>3. OutcomeAt BY DEF Init, OutcomeAt
<1>4. StuckInv BY DEF Init, StuckInv
<1>5. prior \in DocumentSpec \cup {NoScope} /\ rounds \in 0..MaxClarify
  BY DEF Init, MaxClarify
<1>6. history \in BOOLEAN /\ node \in {"idle", "resolve", "clarify", "end"}
      /\ asked \subseteq Reasons
  BY DEF Init
<1> QED BY <1>2, <1>3, <1>4, <1>5, <1>6, Zenon DEF Inv

\* A new question keeps the invariant: nothing was asked about it yet.
LEMMA AskKeeps ==
  ASSUME Inv, NEW question \in Questions, Ask(question)
  PROVE  Inv'
<1>1. question \in Text BY TextsAreTexts
<1>2. outcome = Undecided /\ asked = {} BY DEF Inv, OutcomeAt, Ask
<1>3. Readable' BY <1>1 DEF Inv, Readable, Ask
<1>4. OutcomeAt' BY <1>2 DEF Ask, OutcomeAt, Undecided
<1>5. StuckInv' BY <1>2 DEF Ask, StuckInv
<1> QED BY <1>2, <1>3, <1>4, <1>5 DEF Inv, Ask

\* A decision is handed on, asked or given up.
LEMMA DecisionKeeps ==
  ASSUME Inv, node = "resolve", AskOrGiveUp(Decision),
         UNCHANGED <<manifest, prior, history, behavior, text, rounds>>
  PROVE  Inv'
<1>1. PICK t \in Text : t = text BY DEF Inv, Readable
<1>2. PICK d : d = Decision OBVIOUS
<1>3. manifest' = manifest /\ text' = t /\ behavior' = behavior /\ rounds' = rounds
  BY <1>1
<1>4. \/ PolicyDecision(d) /\ Unstuck
      \/ ComparisonDecision(d) /\ Unstuck
      \/ ClarificationOf(d)
      \/ behavior = "compare" /\ d = Raised
  BY <1>2, DecisionIs, Zenon DEF Inv
<1>5. Readable' BY DEF Inv, Readable
<1>6. Final' = Final BY <1>3 DEF Final, AlwaysStuck, PolicyStuck
<1>7. \A reason : Stuck(text, reason)' <=> Stuck(t, reason)
  <2>1. \A reason : Stuck(t, reason)' <=> Stuck(t, reason) BY <1>3, SameStuck, Zenon
  <2>2. \A reason : Stuck(text, reason)' <=> Stuck(t, reason)'
    BY <1>3, NowStuck, Zenon
  <2> QED BY <2>1, <2>2, Zenon
<1>8. Unstuck => Unstuck' BY <1>1, <1>6, <1>7, Zenon DEF Unstuck
<1>9. StuckInv => \A reason \in asked \cap Final : Stuck(text, reason)'
  BY <1>1, <1>7, Zenon DEF StuckInv
<1>10. AskOrGiveUp(d) BY <1>2
<1>11. CASE d.status # "clarification"
  <2>1. node' = "end" /\ outcome' = d /\ asked' = asked BY <1>10, <1>11, Zenon DEF AskOrGiveUp
  <2>2. StuckInv' BY <1>6, <1>9, <2>1 DEF StuckInv, Inv
  <2>3. CASE PolicyDecision(d) /\ Unstuck
    <3>1. FollowsText(text, d.scopes[1].spec)'
      <4>1. FollowsText(t, d.scopes[1].spec)
        BY <1>1, <2>3 DEF PolicyDecision
      <4>2. FollowsText(t, d.scopes[1].spec)' BY <1>3, <4>1, SameFollows
      <4> QED BY <1>3, <4>2, NowFollows
    <3>2. Finds(d.scopes[1])' BY <1>3, <2>3, SameFinds DEF PolicyDecision
    <3>3. PolicyDecision(outcome)'
      BY <1>3, <2>1, <2>3, <3>1, <3>2 DEF PolicyDecision
    <3>4. OutcomeAt' BY <1>8, <2>1, <2>3, <3>3 DEF OutcomeAt
    <3> QED BY <1>5, <2>1, <2>2, <3>4 DEF Inv
  <2>4. CASE ComparisonDecision(d) /\ Unstuck
    <3>1. ComparedText(text, {d.scopes[1].spec, d.scopes[2].spec})'
      <4>1. ComparedText(t, {d.scopes[1].spec, d.scopes[2].spec})
        BY <1>1, <2>4 DEF ComparisonDecision
      <4>2. ComparedText(t, {d.scopes[1].spec, d.scopes[2].spec})' BY <1>3, <4>1, SameCompared
      <4> QED BY <1>3, <4>2, NowCompared
    <3>2. Finds(d.scopes[1])' /\ Finds(d.scopes[2])'
      BY <1>3, <2>4, SameFinds DEF ComparisonDecision
    <3>3. ComparisonDecision(outcome)'
      BY <1>3, <2>1, <2>4, <3>1, <3>2 DEF ComparisonDecision
    <3>4. OutcomeAt' BY <1>8, <2>1, <2>4, <3>3 DEF OutcomeAt
    <3> QED BY <1>5, <2>1, <2>2, <3>4 DEF Inv
  <2>5. CASE behavior = "compare" /\ d = Raised
    <3>1. OutcomeAt' BY <1>3, <2>1, <2>5 DEF OutcomeAt, Raised
    <3> QED BY <1>5, <2>1, <2>2, <3>1 DEF Inv
  <2>6. ~ClarificationOf(d) BY <1>11 DEF ClarificationOf
  <2> QED BY <1>4, <2>3, <2>4, <2>5, <2>6
<1>12. CASE d.status = "clarification"
  <2>1. PICK reason \in Reasons :
          /\ d = [status |-> "clarification", reason |-> reason, scopes |-> <<>>]
          /\ reason \in Final => Stuck(t, reason)
          /\ behavior = "policy" /\ reason = "date_not_covered" => PolicyPassed(t)
    <3>1. d.status # "resolved" /\ d # Raised BY <1>12 DEF Raised
    <3> QED BY <1>1, <1>4, <3>1 DEF ClarificationOf, PolicyDecision, ComparisonDecision
  <2>2. PolicyPassed(t) => PolicyPassed(text)'
    <3>1. PolicyPassed(t)' <=> PolicyPassed(t) BY <1>3, SamePassed
    <3> QED BY <1>3, <3>1, NowPassed
  <2>3. CASE rounds >= MaxClarify
    <3>1. node' = "end" /\ asked' = asked /\ outcome' = [d EXCEPT !.status = "unresolved"]
      BY <1>10, <1>12, <2>3 DEF AskOrGiveUp
    <3>2. outcome' = [status |-> "unresolved", reason |-> reason, scopes |-> <<>>]
      BY <2>1, <3>1
    <3>3. StuckInv' BY <1>6, <1>9, <3>1 DEF StuckInv, Inv
    <3>4. OutcomeAt' BY <1>3, <2>1, <2>2, <3>1, <3>2 DEF OutcomeAt
    <3> QED BY <1>5, <3>1, <3>3, <3>4 DEF Inv
  <2>4. CASE ~(rounds >= MaxClarify)
    <3>1. node' = "clarify" /\ asked' = asked \cup {reason} /\ outcome' = d
      BY <1>10, <1>12, <2>1, <2>4 DEF AskOrGiveUp
    <3>2. StuckInv' BY <1>6, <1>7, <1>9, <2>1, <3>1 DEF StuckInv, Inv
    <3>3. rounds' < MaxClarify BY <1>3, <2>4 DEF Inv, MaxClarify
    <3>4. ClarificationOf(outcome)'
      BY <1>3, <1>6, <1>7, <2>1, <2>2, <3>1 DEF ClarificationOf
    <3>5. OutcomeAt' BY <3>1, <3>3, <3>4 DEF OutcomeAt
    <3> QED BY <1>5, <2>1, <3>1, <3>2, <3>5 DEF Inv
  <2> QED BY <2>3, <2>4
<1> QED BY <1>11, <1>12

\* A reply keeps it: what was stuck stays.
LEMMA ReplyKeeps ==
  ASSUME Inv, NEW reply \in Replies, Reply(reply)
  PROVE  Inv'
<1>1. PICK t \in Text : t = text BY DEF Inv, Readable
<1>2. reply \in Text BY TextsAreTexts
<1>3. /\ manifest' = manifest /\ behavior' = behavior /\ text' = Folded(t, reply)
      /\ outcome' = outcome /\ asked' = asked /\ rounds' = rounds + 1
      /\ node = "clarify" /\ node' = "resolve" /\ prior' = prior /\ history' = history
  BY <1>1 DEF Reply
<1>4. PICK f \in Text : f = Folded(t, reply) BY <1>2, FoldedSaysMore
<1>5. Readable' BY <1>3, <1>4 DEF Inv, Readable
<1>6. rounds' \in 0..MaxClarify BY <1>3 DEF Inv, OutcomeAt, MaxClarify
<1>7. Final' = Final /\ Final \subseteq AlwaysStuck \cup PolicyStuck
  BY <1>3 DEF Final, AlwaysStuck, PolicyStuck
<1>8. StuckInv'
  <2>1. \A reason \in asked \cap Final : Stuck(f, reason)
    BY <1>1, <1>2, <1>4, <1>7, StuckStays, Zenon DEF Inv, StuckInv
  <2>2. \A reason : Stuck(f, reason)' <=> Stuck(f, reason) BY <1>3, SameStuck, Zenon
  <2>3. \A reason : Stuck(text, reason)' <=> Stuck(f, reason)'
    BY <1>3, <1>4, NowStuck, Zenon
  <2> QED BY <1>3, <1>7, <2>1, <2>2, <2>3 DEF StuckInv
<1>9. OutcomeAt' BY <1>3 DEF Inv, OutcomeAt, ClarificationOf
<1> QED BY <1>3, <1>5, <1>6, <1>8, <1>9 DEF Inv

\* The end of a turn keeps it.
LEMMA FinishKeeps ==
  ASSUME Inv, Finish
  PROVE  Inv'
<1>1. /\ node = "end" /\ node' = "idle" /\ text' = NothingSaid /\ rounds' = 0
      /\ outcome' = Undecided /\ asked' = {} /\ manifest' = manifest /\ behavior' = behavior
      /\ history' \in {history, TRUE}
      /\ \/ prior' = IF outcome.reason = "policy" THEN outcome.scopes[1].spec ELSE NoScope
         \/ prior' = NoScope \/ prior' = prior
  BY DEF Finish
<1>2. NothingSaid \in Text
  <2>1. <<>> \in Seq(Lenders \cup Versions \cup {"both", "gap"}) OBVIOUS
  <2> QED BY <2>1 DEF NothingSaid, Text
<1>3. outcome.reason = "policy" => outcome.scopes[1].spec \in DocumentSpec
  <2>1. CASE PolicyDecision(outcome)
    BY <2>1, ManifestIsFinite DEF PolicyDecision, Inv, Readable
  <2>2. CASE ComparisonDecision(outcome) BY <2>2 DEF ComparisonDecision
  <2>3. CASE outcome = Raised BY <2>3 DEF Raised
  <2>4. ASSUME NEW reason \in Reasons,
               outcome = [status |-> "unresolved", reason |-> reason, scopes |-> <<>>]
        PROVE  outcome.reason # "policy"
    BY <2>4 DEF Reasons
  <2> QED BY <1>1, <2>1, <2>2, <2>3, <2>4 DEF Inv, OutcomeAt
<1>4. prior' \in DocumentSpec \cup {NoScope} BY <1>1, <1>3 DEF Inv
<1>5. Readable' BY <1>1, <1>2 DEF Inv, Readable
<1>6. OutcomeAt' /\ StuckInv' BY <1>1 DEF OutcomeAt, StuckInv
<1>7. history' \in BOOLEAN BY <1>1 DEF Inv
<1>8. /\ rounds' \in 0..MaxClarify /\ node' \in {"idle", "resolve", "clarify", "end"}
      /\ asked' \subseteq Reasons
  BY <1>1 DEF MaxClarify
<1> QED BY <1>4, <1>5, <1>6, <1>7, <1>8 DEF Inv

\* A step that changes nothing keeps it.
LEMMA StutterKeeps == ASSUME Inv, UNCHANGED vars PROVE Inv'
<1>1. PICK t \in Text : t = text BY DEF Inv, Readable
<1>1o. PICK o : o = outcome OBVIOUS
<1>2. manifest' = manifest /\ text' = t /\ behavior' = behavior /\ outcome' = o
  BY <1>1, <1>1o DEF vars
<1>3. Readable' BY DEF Inv, Readable, vars
<1>4. Final' = Final BY DEF Final, AlwaysStuck, PolicyStuck, vars
<1>5. \A reason : Stuck(text, reason)' <=> Stuck(text, reason)
  <2>1. \A reason : Stuck(t, reason)' <=> Stuck(t, reason) BY <1>2, SameStuck, Zenon
  <2>2. \A reason : Stuck(text, reason)' <=> Stuck(t, reason)'
    BY <1>2, NowStuck, Zenon
  <2> QED BY <1>1, <2>1, <2>2, Zenon
<1>6. StuckInv' BY <1>4, <1>5, Zenon DEF Inv, StuckInv, vars
<1>7. Unstuck => Unstuck' BY <1>4, <1>5, Zenon DEF Unstuck
<1>8. PolicyPassed(text) => PolicyPassed(text)'
  <2>1. PolicyPassed(t)' <=> PolicyPassed(t) BY <1>2, SamePassed
  <2> QED BY <1>1, <1>2, <2>1, NowPassed
<1>9. PolicyDecision(outcome) => PolicyDecision(outcome)'
  <2> SUFFICES ASSUME PolicyDecision(o) PROVE PolicyDecision(outcome)' BY <1>1, <1>1o
  <2>1. FollowsText(text, o.scopes[1].spec)'
    <3>1. FollowsText(t, o.scopes[1].spec) BY <1>1, <1>1o DEF PolicyDecision
    <3>2. FollowsText(t, o.scopes[1].spec)' BY <1>2, <3>1, SameFollows
    <3> QED BY <1>2, <3>2, NowFollows
  <2>2. Finds(o.scopes[1])' BY <1>2, SameFinds DEF PolicyDecision
  <2> QED BY <1>2, <2>1, <2>2 DEF PolicyDecision
<1>10. ComparisonDecision(outcome) => ComparisonDecision(outcome)'
  <2> SUFFICES ASSUME ComparisonDecision(o) PROVE ComparisonDecision(outcome)' BY <1>1, <1>1o
  <2>1. ComparedText(text, {o.scopes[1].spec, o.scopes[2].spec})'
    <3>1. ComparedText(t, {o.scopes[1].spec, o.scopes[2].spec})
      BY <1>1, <1>1o DEF ComparisonDecision
    <3>2. ComparedText(t, {o.scopes[1].spec, o.scopes[2].spec})' BY <1>2, <3>1, SameCompared
    <3> QED BY <1>2, <3>2, NowCompared
  <2>2. Finds(o.scopes[1])' /\ Finds(o.scopes[2])' BY <1>2, SameFinds DEF ComparisonDecision
  <2> QED BY <1>2, <2>1, <2>2 DEF ComparisonDecision
<1>11. ClarificationOf(outcome) => ClarificationOf(outcome)'
  BY <1>1, <1>1o, <1>2, <1>4, <1>5, <1>8 DEF ClarificationOf
<1>12. OutcomeAt'
  <2>1. node' = node /\ rounds' = rounds /\ asked' = asked BY DEF vars
  <2>2. CASE node = "end"
    BY <1>1, <1>1o, <1>2, <1>7, <1>8, <1>9, <1>10, <2>1, <2>2 DEF Inv, OutcomeAt, Raised
  <2>3. CASE node # "end"
    BY <1>1, <1>1o, <1>2, <1>11, <2>1, <2>3 DEF Inv, OutcomeAt, Undecided
  <2> QED BY <2>2, <2>3
<1> QED BY <1>3, <1>6, <1>12 DEF Inv, vars

\* The dialogue is what it should be at every step of every turn.
THEOREM Invariant == Spec => []Inv
<1>1. Inv /\ [Next]_vars => Inv'
  <2> SUFFICES ASSUME Inv, [Next]_vars PROVE Inv' OBVIOUS
  <2>1. CASE \E question \in Questions : Ask(question) BY <2>1, AskKeeps
  <2>2. CASE ResolveScope
    <3>1. AskOrGiveUp(Decision) BY <2>2, Zenon DEF ResolveScope, Decision
    <3> QED BY <2>2, <3>1, DecisionKeeps DEF ResolveScope
  <2>3. CASE ResolveComparisonScopes
    <3>1. behavior # "policy" BY <2>3 DEF ResolveComparisonScopes
    <3>2. AskOrGiveUp(Decision) BY <2>3, <3>1, Zenon DEF ResolveComparisonScopes, Decision
    <3> QED BY <2>3, <3>2, DecisionKeeps DEF ResolveComparisonScopes
  <2>4. CASE \E reply \in Replies : Reply(reply) BY <2>4, ReplyKeeps
  <2>5. CASE Finish BY <2>5, FinishKeeps
  <2>6. CASE UNCHANGED vars BY <2>6, StutterKeeps
  <2> QED BY <2>1, <2>2, <2>3, <2>4, <2>5, <2>6 DEF Next
<1> QED BY Initially, <1>1, PTL DEF Spec

-----------------------------------------------------------------------------
(* What the runs check.                                                    *)

\* What an outcome is, wherever the turn stands.
LEMMA Outcomes ==
  ASSUME Inv
  PROVE  \/ outcome = Undecided
         \/ \E reason \in Reasons :
              outcome = [status |-> "clarification", reason |-> reason, scopes |-> <<>>]
         \/ \E reason \in Reasons :
              outcome = [status |-> "unresolved", reason |-> reason, scopes |-> <<>>]
         \/ outcome = Raised
         \/ PolicyDecision(outcome) /\ Unstuck
         \/ ComparisonDecision(outcome) /\ Unstuck
BY Zenon DEF Inv, OutcomeAt, ClarificationOf

\* The outcomes that settle on nothing.
LEMMA OutcomeFields ==
  /\ Undecided.status = "" /\ Undecided.reason = ""
  /\ Raised.status = "raised" /\ Raised.reason = "KeyError"
BY DEF Undecided, Raised

\* An outcome that is resolved is one of the two decisions.
LEMMA Resolutions ==
  ASSUME Inv, outcome.status = "resolved"
  PROVE  (PolicyDecision(outcome) \/ ComparisonDecision(outcome)) /\ Unstuck
<1>1. outcome # Undecided /\ outcome # Raised
  <2>1. "resolved" # "" /\ "resolved" # "raised" OBVIOUS
  <2> QED BY <2>1, OutcomeFields, Zenon
<1>2. \A reason : outcome # [status |-> "clarification", reason |-> reason, scopes |-> <<>>]
  OBVIOUS
<1>3. \A reason : outcome # [status |-> "unresolved", reason |-> reason, scopes |-> <<>>]
  OBVIOUS
<1> QED BY <1>1, <1>2, <1>3, Outcomes, Zenon

\* The state stays well formed, for every manifest and every text: no more than two
\* questions are asked, and what is resolved has one scope, or two for a comparison
\* (_route_after_scope, _route_after_comparison_scope).
THEOREM TypeCorrect == Spec => []TypeOK
<1>1. Inv => TypeOK
  <2> SUFFICES ASSUME Inv PROVE TypeOK OBVIOUS
  <2>1. /\ manifest \in Manifests /\ prior \in DocumentSpec \cup {NoScope}
        /\ history \in BOOLEAN /\ behavior \in {"policy", "compare"}
        /\ text \in Text /\ rounds \in 0..MaxClarify
        /\ node \in {"idle", "resolve", "clarify", "end"} /\ asked \subseteq Reasons
    BY Zenon DEF Inv, Readable
  <2> DEFINE WellFormed ==
        /\ outcome.status \in {"", "resolved", "clarification", "unresolved", "raised"}
        /\ outcome.reason \in Reasons \cup {"", "policy", "comparison", "KeyError"}
        /\ outcome.status = "resolved" =>
             /\ outcome.reason = IF behavior = "policy" THEN "policy" ELSE "comparison"
             /\ Len(outcome.scopes) = IF behavior = "policy" THEN 1 ELSE 2
  <2>2. WellFormed
    <3>1. ASSUME outcome = Undecided \/ outcome = Raised PROVE WellFormed
      <4>1. /\ outcome.status \in {"", "raised"} /\ outcome.reason \in {"", "KeyError"}
        BY <3>1, OutcomeFields, Zenon
      <4> QED BY <4>1
    <3>2. ASSUME NEW reason \in Reasons,
                 outcome = [status |-> "clarification", reason |-> reason, scopes |-> <<>>]
          PROVE  WellFormed
      BY <3>2
    <3>3. ASSUME NEW reason \in Reasons,
                 outcome = [status |-> "unresolved", reason |-> reason, scopes |-> <<>>]
          PROVE  WellFormed
      BY <3>3
    <3>4. ASSUME PolicyDecision(outcome) PROVE WellFormed BY <3>4 DEF PolicyDecision
    <3>5. ASSUME ComparisonDecision(outcome) PROVE WellFormed BY <3>5 DEF ComparisonDecision
    <3> HIDE DEF WellFormed
    <3> QED BY <3>1, <3>2, <3>3, <3>4, <3>5, Outcomes, Zenon
  <2> QED BY <2>1, <2>2, Zenon DEF TypeOK
<1> QED BY <1>1, Invariant, PTL

\* Whatever the manifest, the order of the replies and what they say: the manual a turn
\* settles on is that of the lender, the version and the day that were said, and the only
\* one there is (resolve_query_scope after each clarification).
THEOREM ScopeFollowsHolds == Spec => []ScopeFollowsDialogue
<1>1. Inv => ScopeFollowsDialogue
  <2> SUFFICES ASSUME Inv, outcome.status = "resolved", behavior = "policy"
               PROVE  ScopeFollowsDialogue
    BY DEF ScopeFollowsDialogue, Settled
  <2>1. PolicyDecision(outcome) BY Resolutions DEF ComparisonDecision
  <2>2. FollowsText(text, outcome.scopes[1].spec) BY <2>1 DEF PolicyDecision
  <2> QED BY <2>2, Zenon DEF FollowsText, ScopeFollowsDialogue
<1> QED BY <1>1, Invariant, PTL

\* Whatever the manifest and the text, a comparison is of two lenders, keeps every version
\* the user attached and obeys the day and "current" (resolve_comparison_scopes).
THEOREM ComparedHolds == Spec => []ComparedAsSaid
<1>1. Inv => ComparedAsSaid
  <2> SUFFICES ASSUME Inv, outcome.status = "resolved", behavior = "compare"
               PROVE  ComparedAsSaid
    BY DEF ComparedAsSaid, Settled
  <2>1. ComparisonDecision(outcome) BY Resolutions DEF PolicyDecision
  <2>2. ComparedText(text, {outcome.scopes[1].spec, outcome.scopes[2].spec})
    BY <2>1 DEF ComparisonDecision
  <2>3. {outcome.scopes[k].spec : k \in 1..2} = {outcome.scopes[1].spec, outcome.scopes[2].spec}
    OBVIOUS
  <2> QED BY <2>2, <2>3, Zenon DEF ComparedText, ComparedAsSaid
<1> QED BY <1>1, Invariant, PTL

\* For every manifest that loads, the filter of a scope finds its manual and no other, and
\* a day that is not covered by one manual is covered by none, or by two of which one
\* follows the other on it (load_manifest, scope_filter, _contains).
THEOREM FilterHolds == Spec => []FilterFindsManual
<1>1. Inv => FilterFindsManual
  <2> SUFFICES ASSUME Inv PROVE FilterFindsManual OBVIOUS
  <2>1. ASSUME outcome.status = "resolved", NEW k \in DOMAIN outcome.scopes
        PROVE  Finds(outcome.scopes[k])
    <3>1. CASE PolicyDecision(outcome)
      <4>1. DOMAIN outcome.scopes = 1..1 /\ Finds(outcome.scopes[1])
        BY <3>1 DEF PolicyDecision
      <4>2. k = 1 BY <2>1, <4>1
      <4> QED BY <4>1, <4>2
    <3>2. CASE ComparisonDecision(outcome)
      <4>1. DOMAIN outcome.scopes = 1..2 /\ Finds(outcome.scopes[1]) /\ Finds(outcome.scopes[2])
        BY <3>2 DEF ComparisonDecision
      <4>2. k = 1 \/ k = 2 BY <2>1, <4>1
      <4> QED BY <4>1, <4>2
    <3> QED BY <2>1, <3>1, <3>2, Resolutions
  <2>2. ASSUME behavior = "policy", node # "resolve", outcome.reason = "date_not_covered"
        PROVE  PolicyPassed(text)
    <3>1. node # "idle"
      <4>1. "" # "date_not_covered" OBVIOUS
      <4> QED BY <2>2, <4>1, OutcomeFields, Zenon DEF Inv, OutcomeAt
    <3>2. CASE node = "clarify" BY <2>2, <3>2 DEF Inv, OutcomeAt, ClarificationOf
    <3>3. CASE node = "end"
      BY <2>2, <3>3 DEF Inv, OutcomeAt, PolicyDecision, ComparisonDecision, Raised
    <3> QED BY <2>2, <3>1, <3>2, <3>3 DEF Inv
  <2>3. ASSUME behavior = "policy", node # "resolve", outcome.reason = "date_not_covered",
               NEW s \in InForce(Family(text), text), NEW t \in InForce(Family(text), text),
               s.from < t.from, NEW d \in text.days
        PROVE  s.until # Open /\ DayOf(s.until) = d /\ DayOf(t.from) = d
    <3>1. PICK u \in Text : u = text BY DEF Inv, Readable
    <3>2. PolicyPassed(u) BY <2>2, <2>3, <3>1
    <3>3. manifest \in Manifests /\ LoadManifest(manifest) BY DEF Inv, Readable
    <3>4. s \in InForce(Family(u), u) /\ t \in InForce(Family(u), u) /\ d \in u.days
      BY <2>3, <3>1
    <3> QED BY <2>3, <3>2, <3>3, <3>4, DayBetween, Zenon
  <2>4. Family(text) = UNION {Of(l) : l \in LendersSaid(text)} BY DEF Family
  <2> QED BY <2>1, <2>3, <2>4, Zenon DEF FilterFindsManual, Finds
<1> QED BY <1>1, Invariant, PTL

\* Once one of these questions has been asked no number of replies resolves the turn,
\* whatever they say, since a reply only adds to the text (clarify_node).
THEOREM TakenBackHolds == Spec => []NothingIsTakenBack
<1>1. Inv => NothingIsTakenBack
  <2> SUFFICES ASSUME Inv, outcome.status = "resolved" PROVE NothingIsTakenBack
    BY DEF NothingIsTakenBack
  <2>1. asked \cap Final = {} BY Resolutions DEF Inv, StuckInv, Unstuck
  <2> QED BY <2>1 DEF Final, AlwaysStuck, PolicyStuck, NothingIsTakenBack
<1> QED BY <1>1, Invariant, PTL

================================================================================
