------------------------- MODULE EvaluationRunProofs -------------------------
(***************************************************************************)
(* Theorems about the evaluation scripts, for every dataset, every list of *)
(* configurations and every number of faults: the result file speaks for   *)
(* the whole plan of its run, the numbers of a record rest on validated    *)
(* judgements, and a run of a suite that stands whole costs nothing.       *)
(***************************************************************************)
EXTENDS EvaluationRun, FiniteSetTheorems, WellFoundedInduction, TLAPS

-----------------------------------------------------------------------------
(* The locals of a process, and what its records have to do with its plan. *)

Lacks == {"none", "judge", "skipped"}

Metrics == {"recall", "forbidden", "grounded", "relevant", "response"}

Records == [unit : Units, status : Statuses, lack : Lacks, metrics : SUBSET Metrics]

Jobs ==
  [plan : Seq(Units), at : Nat, ask : Seq(Calls), status : Statuses \cup {""},
   records : Seq(Records), partial : BOOLEAN, keep : BOOLEAN, judged : BOOLEAN]

ResultFiles ==
  [state : {"none", "torn", "whole"}, plan : Seq(Units), records : Seq(Records)]

\* The records are those of the first m units of the plan.
Covers(records, plan, m) ==
  Len(records) = m /\ \A i \in 1..m : records[i].unit = plan[i]

\* The records are those of some of the first m units, in the order of the plan.
Samples(records, plan, m) ==
  \E at \in [1..Len(records) -> 1..m] :
    /\ \A i \in 1..Len(records) : records[i].unit = plan[at[i]]
    /\ \A i, k \in 1..Len(records) : i < k => at[i] < at[k]

\* Only a retrieval run goes on without a record of what failed.
Reports(s, records, plan, m) ==
  IF s = "retrieval" THEN Samples(records, plan, m) ELSE Covers(records, plan, m)

\* A proper part of the plan that ends with a whole case.
StopsShort(records, plan) ==
  \E n \in 1..Len(plan) - 1 :
    Covers(records, plan, n) /\ CaseOf[plan[n]] # CaseOf[plan[n + 1]]

Begun(s, j) ==
  /\ j \in Jobs /\ j.plan # <<>> /\ ToSet(j.plan) \subseteq ToSet(Plan[s])
  /\ j.judged \/ s = "comparison"

\* The records reach up to m.
Reaching(s, j, m) == Begun(s, j) /\ ~j.partial /\ Reports(s, j.records, j.plan, m)

\* In the loop over the plan.
Looping(s, j) == j.at \in 1..Len(j.plan) /\ Reaching(s, j, j.at - 1)

\* In front of the loop, where a retrieval run prepares its queries.
Preparing(s, j) == s = "retrieval" /\ j.at = 0 /\ Reaching(s, j, 0)

\* Behind the loop.
Finished(s, j) ==
  /\ Begun(s, j) /\ j.records # <<>> /\ j.at \in 1..Len(j.plan)
  /\ IF j.partial THEN StopsShort(j.records, j.plan)
     ELSE Reports(s, j.records, j.plan, Len(j.plan))

JobAt(s, step, j) ==
  /\ step \in {"idle", "turn", "graph", "call", "repair", "open", "write"}
  /\ step = "idle" => j = NoJob
  /\ step \in {"turn", "graph"} => Looping(s, j)
  /\ step = "graph" => s \in ThroughGraph
  /\ step \in {"call", "repair"} => (Looping(s, j) /\ j.status \in Statuses) \/ Preparing(s, j)
  /\ step \in {"open", "write"} => Finished(s, j)

FileAt(s, f, file) ==
  /\ file \in ResultFiles
  /\ file.state # "whole" => file = [NoFile EXCEPT !.state = file.state]
  /\ file.state = "whole" =>
       /\ file.records # <<>>
       /\ IF f = "partial" THEN StopsShort(file.records, file.plan)
          ELSE Reports(s, file.records, file.plan, Len(file.plan))

\* The inductive invariant behind the result files.
RunInv ==
  /\ suite \in Suites
  /\ cache \in [Calls -> Kept \cup {"none", "torn"}]
  /\ sent \in BOOLEAN /\ faults \in 0..MaxFaults
  /\ JobAt(suite, pc, job)
  /\ DOMAIN files = {"result", "partial"}
  /\ \A f \in {"result", "partial"} : FileAt(suite, f, files[f])

-----------------------------------------------------------------------------
(* What the judgements in the caches have to do with the records.          *)

Embeddings == ToSet(CallsOn("embed", Queries))

\* What is asked about what a turn came to, a unit and a status.
Asked(said) ==
  ToSet(Assessment(said, TRUE)) \cup IF suite = "retrieval" THEN ToSet(Retrieval(said[1])) ELSE {}

\* The calls whose replies a record of it rests on.
Wanted(said) ==
  Asked(said) \cup IF suite = "retrieval" THEN Embeddings ELSE {}

\* The support of no claims is not asked for.
Spared(call) == call[1] = "support" /\ cache[<<"decomp", call[2], 0>>] = "nothing"

\* A reply is kept that its reader takes, or none is needed.
Done(call) == (cache[call] # "none" /\ Accepts(call, cache[call])) \/ Spared(call)

Served(r) ==
  IF r.lack = "none"
  THEN /\ \A call \in Wanted(<<r.unit, r.status>>) : Done(call)
       /\ suite = "generation" =>
            r.status \in {"answer", "empty"} /\ cache[<<"turn", r.unit, 0>>] = r.status
       /\ r.metrics \subseteq Measures(<<r.unit, r.status>>)
  ELSE r.metrics = {}

\* A decomposition is followed by the support of what it finds, and a support follows
\* its decomposition, or is in front because that found claims.
Paired(q) ==
  \A i \in DOMAIN q :
    /\ q[i][1] = "decomp" => i < Len(q) /\ q[i + 1] = <<"support", q[i][2], 0>>
    /\ q[i][1] = "support" =>
         IF i = 1 THEN cache[<<"decomp", q[i][2], 0>>] = "valid"
         ELSE q[i - 1] = <<"decomp", q[i][2], 0>>

\* What the process at "call" still needs, or has.
Due == IF job.at = 0 THEN Embeddings ELSE Asked(<<Unit, job.status>>)

AskInv ==
  /\ ToSet(job.ask) \subseteq Due
  /\ job.judged => \A call \in Due : call \in ToSet(job.ask) \/ Done(call)
  /\ Paired(job.ask)

\* What the turn in work came to; the generation suite keeps that in a cache file.
StatusInv ==
  /\ suite = "retrieval" /\ job.at # 0 => job.status = "answer"
  /\ suite = "generation" =>
       job.status \in {"answer", "empty"} /\ cache[<<"turn", Unit, 0>>] = job.status

RecordsServed == \A r \in ToSet(job.records) : Served(r)

FilesServed == \A f \in {"result", "partial"} : \A r \in ToSet(files[f].records) : Served(r)

\* A configuration is measured with the vectors of every query.
QueriesReady ==
  suite = "retrieval" /\ pc \in {"turn", "call", "repair"} /\ job.at # 0 =>
    \A call \in Embeddings : Done(call)

\* Only a verdict on a claim is repaired.
RepairInv ==
  pc = "repair" =>
    job.ask # <<>> /\ Head(job.ask)[1] = "claim" /\ cache[Head(job.ask)] = "none"

\* The inductive invariant behind the scores.
ServedInv ==
  /\ RecordsServed /\ FilesServed /\ QueriesReady
  /\ pc \in {"call", "repair"} => AskInv /\ StatusInv
  /\ RepairInv


-----------------------------------------------------------------------------
(* Sequences.                                                              *)

LEMMA LeastNat ==
  ASSUME NEW S \in SUBSET Nat, S # {}
  PROVE  \E m \in S : \A n \in S : m <= n
<1> DEFINE T == {0..m : m \in S}
<1>1. IsWellFoundedOn(StrictSubsetOrdering(Nat), FiniteSubsetsOf(Nat))
  BY FS_StrictSubsetOrderingWellFounded
<1>2. T \subseteq FiniteSubsetsOf(Nat)
  <2>1. \A m \in S : IsFiniteSet(0..m) BY FS_Interval
  <2>2. \A m \in S : 0..m \subseteq Nat OBVIOUS
  <2> QED BY <2>1, <2>2 DEF FiniteSubsetsOf
<1>3. T # {} OBVIOUS
<1>4. PICK x \in T : \A y \in T : <<y, x>> \notin StrictSubsetOrdering(Nat)
  <2> HIDE DEF T
  <2> QED BY <1>1, <1>2, <1>3, WFMin
<1>5. PICK m \in S : x = 0..m BY <1>4
<1>6. ASSUME NEW n \in S, n < m PROVE FALSE
  <2>1. 0..n \subseteq 0..m /\ 0..n # 0..m /\ 0..n \subseteq Nat /\ 0..m \subseteq Nat BY <1>6
  <2>2. <<0..n, 0..m>> \in StrictSubsetOrdering(Nat) BY <2>1 DEF StrictSubsetOrdering
  <2> QED BY <2>2, <1>4, <1>5
<1> QED BY <1>5, <1>6

LEMMA CoversAnother ==
  ASSUME NEW S, NEW records \in Seq(S), NEW r \in S, NEW plan, NEW m \in Nat,
         Covers(records, plan, m), r.unit = plan[m + 1]
  PROVE  Covers(Append(records, r), plan, m + 1)
BY DEF Covers

LEMMA SamplesWider ==
  ASSUME NEW records, NEW plan, NEW m \in Nat, Samples(records, plan, m)
  PROVE  Samples(records, plan, m + 1)
<1>1. PICK at \in [1..Len(records) -> 1..m] :
        /\ \A i \in 1..Len(records) : records[i].unit = plan[at[i]]
        /\ \A i, k \in 1..Len(records) : i < k => at[i] < at[k]
  BY DEF Samples
<1>2. at \in [1..Len(records) -> 1..m + 1] OBVIOUS
<1> QED BY <1>1, <1>2 DEF Samples

LEMMA SamplesAnother ==
  ASSUME NEW S, NEW records \in Seq(S), NEW r \in S, NEW plan, NEW m \in Nat,
         Samples(records, plan, m), r.unit = plan[m + 1]
  PROVE  Samples(Append(records, r), plan, m + 1)
<1> DEFINE new == Append(records, r)
<1>1. PICK at \in [1..Len(records) -> 1..m] :
        /\ \A i \in 1..Len(records) : records[i].unit = plan[at[i]]
        /\ \A i, k \in 1..Len(records) : i < k => at[i] < at[k]
  BY DEF Samples
<1> DEFINE bt == [i \in 1..Len(records) + 1 |-> IF i = Len(records) + 1 THEN m + 1 ELSE at[i]]
<1>2. Len(new) = Len(records) + 1 /\ Len(records) \in Nat OBVIOUS
<1>3. bt \in [1..Len(new) -> 1..m + 1] BY <1>2
<1>4. /\ \A i \in 1..Len(records) : i \in 1..Len(new) /\ new[i] = records[i] /\ bt[i] = at[i]
      /\ new[Len(new)] = r /\ bt[Len(new)] = m + 1
      /\ \A i \in 1..Len(new) : i \in 1..Len(records) \/ i = Len(new)
  BY <1>2
<1> HIDE DEF new, bt
<1>5. \A i \in 1..Len(new) : new[i].unit = plan[bt[i]] BY <1>1, <1>4
<1>6. ASSUME NEW i \in 1..Len(new), NEW k \in 1..Len(new), i < k PROVE bt[i] < bt[k]
  <2>1. i \in 1..Len(records) /\ bt[i] = at[i] /\ at[i] \in 1..m BY <1>1, <1>2, <1>4, <1>6
  <2>2. CASE k \in 1..Len(records) BY <1>1, <1>4, <1>6, <2>1, <2>2
  <2>3. CASE k = Len(new) BY <1>4, <2>1, <2>3
  <2> QED BY <1>4, <2>2, <2>3
<1> QED BY <1>3, <1>5, <1>6 DEF Samples, new

LEMMA ReportsAnother ==
  ASSUME NEW s, NEW records \in Seq(Records), NEW r \in Records, NEW plan, NEW m \in Nat,
         Reports(s, records, plan, m), r.unit = plan[m + 1]
  PROVE  Reports(s, Append(records, r), plan, m + 1)
BY CoversAnother, SamplesAnother DEF Reports

LEMMA ReportsNothing ==
  ASSUME NEW s, NEW plan PROVE Reports(s, <<>>, plan, 0)
<1>1. Covers(<<>>, plan, 0) BY DEF Covers
<1>2. Samples(<<>>, plan, 0)
  <2> DEFINE at == [i \in 1..0 |-> 0]
  <2>1. at \in [1..Len(<<>>) -> 1..0] OBVIOUS
  <2>2. \A i \in 1..Len(<<>>) : FALSE OBVIOUS
  <2> HIDE DEF at
  <2> QED BY <2>1, <2>2 DEF Samples
<1> QED BY <1>1, <1>2 DEF Reports

-----------------------------------------------------------------------------
(* The locals of a process.                                                *)

LEMMA JobFields ==
  ASSUME NEW j \in Jobs
  PROVE  /\ j.plan \in Seq(Units) /\ j.at \in Nat /\ j.ask \in Seq(Calls)
         /\ j.status \in Statuses \cup {""} /\ j.records \in Seq(Records)
         /\ j.partial \in BOOLEAN /\ j.keep \in BOOLEAN /\ j.judged \in BOOLEAN
BY DEF Jobs

LEMMA JobUpdates ==
  ASSUME NEW j \in Jobs
  PROVE  /\ \A n \in Nat : [j EXCEPT !.at = n] \in Jobs
         /\ \A q \in Seq(Calls) : [j EXCEPT !.ask = q] \in Jobs
         /\ \A st \in Statuses \cup {""} : [j EXCEPT !.status = st] \in Jobs
         /\ \A q \in Seq(Records) : [j EXCEPT !.records = q] \in Jobs
         /\ \A b \in BOOLEAN : [j EXCEPT !.partial = b] \in Jobs
<1>1. \A n \in Nat : [j EXCEPT !.at = n] \in Jobs BY DEF Jobs
<1>2. \A q \in Seq(Calls) : [j EXCEPT !.ask = q] \in Jobs BY DEF Jobs
<1>3. \A st \in Statuses \cup {""} : [j EXCEPT !.status = st] \in Jobs BY DEF Jobs
<1>4. \A q \in Seq(Records) : [j EXCEPT !.records = q] \in Jobs BY DEF Jobs
<1>5. \A b \in BOOLEAN : [j EXCEPT !.partial = b] \in Jobs BY DEF Jobs
<1> QED BY <1>1, <1>2, <1>3, <1>4, <1>5

LEMMA NextUnit ==
  ASSUME NEW j \in Jobs, NEW k,
         k = [j EXCEPT !.at = @ + 1, !.ask = <<>>, !.status = ""]
  PROVE  /\ k \in Jobs /\ k.plan = j.plan /\ k.at = j.at + 1 /\ k.records = j.records
         /\ k.partial = j.partial /\ k.judged = j.judged
<1>1. [j EXCEPT !.at = j.at + 1] \in Jobs
  <2>1. j.at \in Nat BY JobFields
  <2>2. j.at + 1 \in Nat BY <2>1
  <2> QED BY <2>2, JobUpdates, Zenon
<1>2. <<>> \in Seq(Calls) /\ "" \in Statuses \cup {""}
  <2>1. <<>> \in Seq(Calls) OBVIOUS
  <2>2. "" \in Statuses \cup {""} OBVIOUS
  <2> QED BY <2>1, <2>2
<1>3. [[j EXCEPT !.at = j.at + 1] EXCEPT !.ask = <<>>] \in Jobs BY <1>1, <1>2, JobUpdates
<1>4. [[[j EXCEPT !.at = j.at + 1] EXCEPT !.ask = <<>>] EXCEPT !.status = ""] \in Jobs
  BY <1>2, <1>3, JobUpdates
<1>5. k \in Jobs BY <1>4, Zenon
<1>6. /\ k.plan = j.plan /\ k.at = j.at + 1 /\ k.records = j.records
      /\ k.partial = j.partial /\ k.judged = j.judged
  BY DEF Jobs
<1> QED BY <1>5, <1>6

-----------------------------------------------------------------------------
(* The loop of a run.                                                      *)

LEMMA PlansAreUnits ==
  ASSUME NEW s \in Suites, NEW plan \in Plans[s]
  PROVE  plan \in Seq(Units) /\ plan # <<>> /\ ToSet(plan) \subseteq ToSet(Plan[s])
<1>1. Plan[s] \in Seq(Units) /\ Plan[s] # <<>> BY PlansHaveUnits
<1>2. ToSet(Plan[s]) \subseteq Units BY <1>1 DEF ToSet
<1>3. CASE plan = Plan[s] BY <1>1, <1>3
<1>4. CASE \E n \in DOMAIN Plan[s] : plan \in [1..n -> ToSet(Plan[s])]
  <2>1. PICK n \in DOMAIN Plan[s] : plan \in [1..n -> ToSet(Plan[s])] BY <1>4
  <2>2. n \in Nat /\ n > 0 BY <1>1
  <2>3. plan \in Seq(ToSet(Plan[s])) /\ Len(plan) = n BY <2>1, <2>2
  <2>4. plan \in Seq(Units) BY <1>2, <2>1, <2>2
  <2>5. ToSet(plan) \subseteq ToSet(Plan[s]) BY <2>3 DEF ToSet
  <2> QED BY <2>2, <2>3, <2>4, <2>5
<1> QED BY <1>3, <1>4 DEF Plans

LEMMA MeasuresAreMetrics ==
  ASSUME NEW said PROVE Measures(said) \subseteq Metrics
BY DEF Measures, RetryMeasures, ScoreMeasures, Metrics

LEMMA RecordType ==
  ASSUME NEW u \in Units, NEW status \in Statuses, NEW lack \in Lacks
  PROVE  RecordOf(u, status, lack) \in Records
BY MeasuresAreMetrics DEF RecordOf, Records

LEMMA UnitType ==
  ASSUME NEW s, NEW j, Looping(s, j)
  PROVE  j.plan[j.at] \in Units
<1>1. j.plan \in Seq(Units) BY JobFields DEF Looping, Reaching, Begun
<1> QED BY <1>1 DEF Looping

LEMMA ProceedRuns ==
  ASSUME NEW s, NEW j, Reaching(s, j, j.at), j.at \in 0..Len(j.plan), Proceed(j)
  PROVE  JobAt(s, pc', job')
<1>1. j \in Jobs /\ j.plan # <<>> /\ Len(j.plan) \in Nat \ {0}
  <2>1. j \in Jobs /\ j.plan # <<>> BY DEF Reaching, Begun
  <2>2. j.plan \in Seq(Units) BY <2>1, JobFields
  <2> QED BY <2>1, <2>2
<1>2. CASE j.at < Len(j.plan)
  <2> DEFINE k == [j EXCEPT !.at = @ + 1, !.ask = <<>>, !.status = ""]
  <2>1. job' = k /\ pc' = "turn" BY <1>2 DEF Proceed, Become, Goto
  <2>2. /\ k \in Jobs /\ k.plan = j.plan /\ k.at = j.at + 1 /\ k.records = j.records
        /\ k.partial = j.partial /\ k.judged = j.judged
    BY <1>1, NextUnit
  <2>3. Looping(s, k)
    <3> HIDE DEF k
    <3> QED BY <1>1, <1>2, <2>2 DEF Looping, Reaching, Begun
  <2> QED BY <2>1, <2>3 DEF JobAt
<1>3. CASE j.at = Len(j.plan)
  <2>1. Finished(s, j) \/ ~(j.keep /\ j.records # <<>>)
    BY <1>1, <1>3 DEF Finished, Reaching
  <2> QED BY <1>3, <2>1 DEF Proceed, Become, Goto, Exit, JobAt
<1> QED BY <1>1, <1>2, <1>3

LEMMA RecordedRuns ==
  ASSUME NEW s, NEW j, NEW lack \in Lacks, Looping(s, j), j.status \in Statuses,
         j.plan = job.plan, j.at = job.at, Recorded(j, lack)
  PROVE  JobAt(s, pc', job')
<1> DEFINE r == RecordOf(Unit, j.status, lack)
           k == [j EXCEPT !.records = Append(@, r)]
<1>1. r \in Records /\ r.unit = j.plan[j.at]
  <2>1. Unit = j.plan[j.at] BY DEF Unit
  <2> QED BY <2>1, UnitType, RecordType DEF RecordOf
<1>2. j \in Jobs /\ j.at \in 1..Len(j.plan) /\ j.records \in Seq(Records)
  BY JobFields DEF Looping, Reaching, Begun
<1> HIDE DEF r
<1>3. /\ k \in Jobs /\ k.plan = j.plan /\ k.at = j.at /\ k.partial = j.partial
      /\ k.judged = j.judged /\ k.records = Append(j.records, r)
  <2>1. Append(j.records, r) \in Seq(Records) BY <1>1, <1>2
  <2>2. k \in Jobs BY <1>2, <2>1, JobUpdates
  <2>3. /\ k.plan = j.plan /\ k.at = j.at /\ k.partial = j.partial
        /\ k.judged = j.judged /\ k.records = Append(j.records, r)
    BY <1>2 DEF Jobs
  <2> QED BY <2>2, <2>3
<1>4. Reports(s, k.records, k.plan, k.at)
  <2>1. j.at - 1 \in Nat /\ j.at - 1 + 1 = j.at BY <1>2
  <2> QED BY <1>1, <1>2, <1>3, <2>1, ReportsAnother DEF Looping, Reaching
<1>5. Proceed(k) BY DEF Recorded, r
<1> HIDE DEF k
<1>6. Reaching(s, k, k.at) BY <1>3, <1>4 DEF Looping, Reaching, Begun
<1> QED BY <1>2, <1>3, <1>5, <1>6, ProceedRuns

\* What is left at a failure: the records of the finished cases.
LEMMA StopSplits ==
  ASSUME job \in Jobs, Stop
  PROVE  \/ Exit
         \/ \E n \in 1..Len(job.records) :
              /\ Become([job EXCEPT !.records = SubSeq(@, 1, n), !.partial = TRUE], "open")
              /\ \A i \in n + 1..Len(job.records) : CaseOf[job.records[i].unit] = CaseOf[Unit]
              /\ CaseOf[job.records[n].unit] # CaseOf[Unit]
<1> DEFINE InWork(i) == CaseOf[job.records[i].unit] = CaseOf[Unit]
           Splits(n) == /\ \A i \in n + 1..Len(job.records) : InWork(i)
                        /\ n # 0 => ~InWork(n)
           done == CHOOSE n \in 0..Len(job.records) : Splits(n)
           k == [job EXCEPT !.records = SubSeq(@, 1, done), !.partial = TRUE]
<1>1. job.records \in Seq(Records) BY JobFields
<1>2. \E n \in 0..Len(job.records) : Splits(n)
  <2> DEFINE S == {n \in 0..Len(job.records) : \A i \in n + 1..Len(job.records) : InWork(i)}
  <2>1. Len(job.records) \in Nat BY <1>1
  <2>2. S \subseteq Nat /\ Len(job.records) \in S BY <2>1
  <2>3. PICK m \in S : \A n \in S : m <= n
    <3> HIDE DEF S
    <3> QED BY <2>2, LeastNat
  <2>4. ASSUME m # 0, InWork(m) PROVE FALSE
    <3>1. \A i \in m - 1 + 1..Len(job.records) : i = m \/ i \in m + 1..Len(job.records)
      BY <2>1, <2>4
    <3>2. m - 1 \in S BY <2>1, <2>4, <3>1
    <3>3. m <= m - 1 BY <2>3, <3>2
    <3>4. m \in Nat BY <2>2
    <3> HIDE DEF S
    <3> QED BY <3>3, <3>4
  <2>5. Splits(m) BY <2>3, <2>4
  <2> QED BY <2>3, <2>5
<1>3. done \in 0..Len(job.records) /\ Splits(done)
  <2> HIDE DEF Splits
  <2> QED BY <1>2
<1> HIDE DEF done
<1>4. IF done = 0 \/ ~job.keep THEN Exit ELSE Become(k, "open")
  BY Zenon DEF Stop, done
<1>5. done # 0 => done \in 1..Len(job.records)
  <2>1. Len(job.records) \in Nat BY <1>1
  <2> QED BY <1>3, <2>1
<1> QED BY <1>3, <1>4, <1>5

LEMMA StopRuns ==
  ASSUME Looping(suite, job), suite # "retrieval", Stop
  PROVE  JobAt(suite, pc', job')
<1>1. /\ job \in Jobs /\ job.records \in Seq(Records) /\ job.at \in 1..Len(job.plan)
      /\ Len(job.records) = job.at - 1 /\ Len(job.plan) \in Nat
      /\ \A i \in 1..job.at - 1 : job.records[i].unit = job.plan[i]
  <2>1. job \in Jobs /\ job.at \in 1..Len(job.plan) /\ Covers(job.records, job.plan, job.at - 1)
    BY DEF Looping, Reaching, Begun, Reports
  <2>2. job.records \in Seq(Records) /\ job.plan \in Seq(Units) BY <2>1, JobFields
  <2> QED BY <2>1, <2>2 DEF Covers
<1>2. CASE Exit BY <1>2 DEF Exit, Become, Goto, JobAt
<1>3. ASSUME NEW done \in 1..Len(job.records),
             Become([job EXCEPT !.records = SubSeq(@, 1, done), !.partial = TRUE], "open"),
             \A i \in done + 1..Len(job.records) : CaseOf[job.records[i].unit] = CaseOf[Unit],
             CaseOf[job.records[done].unit] # CaseOf[Unit]
      PROVE  JobAt(suite, pc', job')
  <2> DEFINE k == [job EXCEPT !.records = SubSeq(@, 1, done), !.partial = TRUE]
  <2>1. job' = k /\ pc' = "open" BY <1>3 DEF Become, Goto
  <2>2. done \in 1..job.at - 1 BY <1>1
  <2>3. SubSeq(job.records, 1, done) \in Seq(Records) BY <1>1, <2>2
  <2>4. k \in Jobs
    <3>1. [job EXCEPT !.records = SubSeq(job.records, 1, done)] \in Jobs
      BY <1>1, <2>3, JobUpdates
    <3>2. [[job EXCEPT !.records = SubSeq(job.records, 1, done)] EXCEPT !.partial = TRUE] \in Jobs
      BY <3>1, JobUpdates
    <3> QED BY <3>2, Zenon
  <2>5. /\ k.plan = job.plan /\ k.at = job.at /\ k.partial = TRUE /\ k.judged = job.judged
        /\ k.records = SubSeq(job.records, 1, done)
    BY <1>1 DEF Jobs
  <2> HIDE DEF k
  <2>6. Covers(k.records, k.plan, done)
    <3>1. Len(SubSeq(job.records, 1, done)) = done BY <1>1, <2>2
    <3>2. \A i \in 1..done : SubSeq(job.records, 1, done)[i] = job.records[i] BY <1>1, <2>2
    <3>3. \A i \in 1..done : i \in 1..job.at - 1 BY <1>1, <2>2
    <3> QED BY <1>1, <2>5, <3>1, <3>2, <3>3, Zenon DEF Covers
  <2>7. CaseOf[job.plan[done + 1]] = CaseOf[Unit]
    <3>1. CASE done + 1 = job.at BY <3>1 DEF Unit
    <3>2. CASE done + 1 < job.at
      <4>1. done + 1 \in done + 1..Len(job.records) BY <1>1, <2>2, <3>2
      <4>2. CaseOf[job.records[done + 1].unit] = CaseOf[Unit] BY <1>3, <4>1
      <4> QED BY <1>1, <2>2, <3>2, <4>2
    <3> QED BY <1>1, <2>2, <3>1, <3>2
  <2>8. CaseOf[job.plan[done]] # CaseOf[Unit] BY <1>1, <1>3, <2>2
  <2>9. StopsShort(k.records, k.plan)
    <3>1. done \in 1..Len(k.plan) - 1 BY <1>1, <2>2, <2>5
    <3> QED BY <2>5, <2>6, <2>7, <2>8, <3>1 DEF StopsShort
  <2>10. k.records # <<>>
    <3>1. Len(k.records) = done /\ done # 0 BY <2>2, <2>6 DEF Covers
    <3>2. Len(<<>>) = 0 OBVIOUS
    <3> QED BY <3>1, <3>2, Zenon
  <2>11. Finished(suite, k)
    BY <1>1, <2>4, <2>5, <2>9, <2>10 DEF Finished, Begun, Looping, Reaching
  <2> QED BY <2>1, <2>11 DEF JobAt
<1> QED BY <1>1, <1>2, <1>3, StopSplits

LEMMA FailedCallRuns ==
  ASSUME suite \in Suites, JudgeFails,
         (Looping(suite, job) /\ job.status \in Statuses) \/ Preparing(suite, job)
  PROVE  JobAt(suite, pc', job')
<1>1. CASE suite \in {"generation", "retry", "conversation"}
  BY <1>1, StopRuns DEF JudgeFails, Preparing
<1>2. CASE suite = "comparison"
  <2>1. Looping(suite, job) /\ job.status \in Statuses BY <1>2 DEF Preparing
  <2>2. Recorded(job, "judge") BY <1>2 DEF JudgeFails
  <2>3. "judge" \in Lacks BY DEF Lacks
  <2> QED BY <2>1, <2>2, <2>3, RecordedRuns
<1>3. CASE suite = "retrieval"
  <2>1. IF job.at = 0 THEN Exit ELSE Proceed(job) BY <1>3 DEF JudgeFails
  <2>2. CASE job.at = 0 BY <2>1, <2>2 DEF Exit, Become, Goto, JobAt
  <2>3. CASE job.at # 0
    <3>1. Looping(suite, job) BY <2>3 DEF Preparing
    <3>2. Reaching(suite, job, job.at)
      <4>1. job.at - 1 \in Nat /\ job.at - 1 + 1 = job.at BY <3>1 DEF Looping
      <4>2. Samples(job.records, job.plan, job.at - 1)
        BY <1>3, <3>1 DEF Looping, Reaching, Reports
      <4>3. Samples(job.records, job.plan, job.at) BY <4>1, <4>2, SamplesWider
      <4> QED BY <1>3, <3>1, <4>3 DEF Looping, Reaching, Reports
    <3>3. Proceed(job) /\ job.at \in 0..Len(job.plan) BY <2>1, <2>3, <3>1 DEF Looping
    <3> QED BY <3>2, <3>3, ProceedRuns
  <2> QED BY <2>2, <2>3
<1> QED BY <1>1, <1>2, <1>3, SuitesAreScripts

LEMMA FailedTurnRuns ==
  ASSUME suite \in Suites, Looping(suite, job), TurnFails
  PROVE  JobAt(suite, pc', job')
<1>1. CASE suite = "retry"
  <2> DEFINE k == [job EXCEPT !.status = "error"]
  <2>1. Recorded(k, "none") BY <1>1 DEF TurnFails
  <2>2. "error" \in Statuses /\ "none" \in Lacks BY DEF Statuses, Lacks
  <2>3. job \in Jobs BY DEF Looping, Reaching, Begun
  <2>4. k \in Jobs BY <2>2, <2>3, JobUpdates
  <2>5. /\ k.plan = job.plan /\ k.at = job.at /\ k.records = job.records
        /\ k.partial = job.partial /\ k.judged = job.judged /\ k.status = "error"
    BY <2>3 DEF Jobs
  <2> HIDE DEF k
  <2>6. Looping(suite, k) BY <2>4, <2>5 DEF Looping, Reaching, Begun
  <2> QED BY <2>1, <2>2, <2>5, <2>6, RecordedRuns
<1>2. CASE suite = "conversation"
  BY <1>2, StopRuns DEF TurnFails
<1>3. CASE suite = "retrieval"
  <2>1. Proceed(job) BY <1>3 DEF TurnFails
  <2>2. job.at - 1 \in Nat /\ job.at - 1 + 1 = job.at /\ job.at \in 0..Len(job.plan) BY DEF Looping
  <2>3. Samples(job.records, job.plan, job.at - 1) BY <1>3 DEF Looping, Reaching, Reports
  <2>4. Samples(job.records, job.plan, job.at) BY <2>2, <2>3, SamplesWider
  <2>5. Reaching(suite, job, job.at) BY <1>3, <2>4 DEF Looping, Reaching, Reports
  <2> QED BY <2>1, <2>2, <2>5, ProceedRuns
<1>4. CASE suite \notin {"retry", "conversation", "retrieval"}
  <2>1. Exit BY <1>4 DEF TurnFails
  <2> QED BY <2>1 DEF Exit, Become, Goto, JobAt
<1> QED BY <1>1, <1>2, <1>3, <1>4

-----------------------------------------------------------------------------
(* What is asked about a unit.                                             *)

LEMMA TurnIsCall ==
  ASSUME NEW u \in Units PROVE <<"turn", u, 0>> \in Calls
BY DEF Calls

LEMMA CallsOfUnit ==
  ASSUME NEW said \in Said
  PROVE  /\ \A tag \in AskTags : <<tag, said, 0>> \in Calls
         /\ \A n \in Claims(said) : <<"claim", said, n>> \in Calls
<1>1. \A tag \in AskTags : <<tag, said, 0>> \in Calls BY DEF Calls
<1>2. ASSUME NEW n \in Claims(said) PROVE <<"claim", said, n>> \in Calls
  <2>1. <<"claim", said, n>> \in {<<"claim", said, k>> : k \in Claims(said)}
    OBVIOUS
  <2> QED BY <2>1 DEF Calls
<1> QED BY <1>1, <1>2

LEMMA ClaimsAreFinite ==
  ASSUME NEW said \in Said
  PROVE  /\ Required[said[1]] \in Nat /\ Forbidden[said[1]] \in Nat
         /\ Claims(said) = 1..Required[said[1]] + Forbidden[said[1]]
BY ClaimsAreCounted DEF Said, Claims

LEMMA CallsOnQueries ==
  ASSUME NEW tag \in {"embed", "rerank"}
  PROVE  /\ CallsOn(tag, Queries) \in Seq(Calls)
         /\ \A call \in ToSet(CallsOn(tag, Queries)) : call[1] = tag
         /\ ToSet(CallsOn(tag, Queries)) = {<<tag, q, 0>> : q \in ToSet(Queries)}
<1>1. Queries \in Seq(ToSet(Queries)) BY QueriesAreListed
<1>2. DOMAIN Queries = 1..Len(Queries) /\ Len(Queries) \in Nat BY <1>1
<1>3. ASSUME NEW i \in DOMAIN Queries PROVE <<tag, Queries[i], 0>> \in Calls
  <2>1. Queries[i] \in ToSet(Queries) BY DEF ToSet
  <2>2. <<tag, Queries[i], 0>> \in {<<t, q, 0>> : t \in {"embed", "rerank"}, q \in ToSet(Queries)}
    BY <2>1
  <2> QED BY <2>2 DEF Calls
<1>4. CallsOn(tag, Queries) \in Seq(Calls)
  <2>1. CallsOn(tag, Queries) \in [1..Len(Queries) -> Calls] BY <1>2, <1>3 DEF CallsOn
  <2> QED BY <1>2, <2>1
<1> QED BY <1>4 DEF CallsOn, ToSet

LEMMA ClaimCallsType ==
  ASSUME NEW said \in Said
  PROVE  /\ ClaimCalls(said) \in Seq(Calls)
         /\ DOMAIN ClaimCalls(said) = Claims(said)
         /\ \A i \in Claims(said) : ClaimCalls(said)[i] = <<"claim", said, i>>
<1>1. PICK n \in Nat : n = Required[said[1]] + Forbidden[said[1]] BY ClaimsAreFinite
<1>2. Claims(said) = 1..n BY <1>1, ClaimsAreFinite
<1>3. ClaimCalls(said) = [i \in 1..n |-> <<"claim", said, i>>] BY <1>2 DEF ClaimCalls
<1>4. \A i \in 1..n : <<"claim", said, i>> \in Calls BY <1>2, CallsOfUnit
<1>5. ClaimCalls(said) \in [1..n -> Calls] BY <1>3, <1>4, Zenon
<1>6. ClaimCalls(said) \in Seq(Calls) /\ DOMAIN ClaimCalls(said) = 1..n BY <1>5
<1>7. \A i \in 1..n : ClaimCalls(said)[i] = <<"claim", said, i>> BY <1>3, Zenon
<1> QED BY <1>2, <1>6, <1>7

\* Every decomposition with its support behind it.
Coupled(q) ==
  \A i \in DOMAIN q :
    /\ q[i][1] = "decomp" => i < Len(q) /\ q[i + 1] = <<"support", q[i][2], 0>>
    /\ q[i][1] = "support" => i > 1 /\ q[i - 1] = <<"decomp", q[i][2], 0>>

\* A list of calls that may be asked for.
Asks(q) == q \in Seq(Calls) /\ Coupled(q)

LEMMA ConcatElements ==
  ASSUME NEW S, NEW p \in Seq(S), NEW q \in Seq(S)
  PROVE  /\ p \o q \in Seq(S)
         /\ Len(p \o q) = Len(p) + Len(q)
         /\ \A i \in 1..Len(p) : (p \o q)[i] = p[i]
         /\ \A i \in 1..Len(q) : (p \o q)[Len(p) + i] = q[i]
         /\ ToSet(p \o q) = ToSet(p) \cup ToSet(q)
<1>1. /\ p \o q \in Seq(S)
      /\ Len(p \o q) = Len(p) + Len(q)
      /\ \A i \in 1..Len(p) : (p \o q)[i] = p[i]
      /\ \A i \in 1..Len(q) : (p \o q)[Len(p) + i] = q[i]
  OBVIOUS
<1>2. Len(p) \in Nat /\ Len(q) \in Nat /\ DOMAIN p = 1..Len(p) /\ DOMAIN q = 1..Len(q)
      /\ DOMAIN (p \o q) = 1..Len(p \o q)
  BY <1>1
<1> DEFINE r == p \o q
<1> HIDE DEF r
<1>3. ASSUME NEW x \in ToSet(r) PROVE x \in ToSet(p) \cup ToSet(q)
  <2>1. PICK i \in 1..Len(r) : x = r[i] BY <1>2 DEF ToSet, r
  <2>2. CASE i <= Len(p) BY <1>1, <1>2, <2>1, <2>2 DEF ToSet, r
  <2>3. CASE i > Len(p)
    <3>1. i - Len(p) \in 1..Len(q) /\ Len(p) + (i - Len(p)) = i
      BY <1>1, <1>2, <2>1, <2>3 DEF r
    <3>2. r[i] = q[i - Len(p)] BY <1>1, <3>1 DEF r
    <3> QED BY <1>2, <2>1, <3>1, <3>2 DEF ToSet
  <2> QED BY <1>2, <2>1, <2>2, <2>3
<1>4. ASSUME NEW x \in ToSet(p) PROVE x \in ToSet(r)
  <2>1. PICK i \in 1..Len(p) : x = p[i] BY <1>2 DEF ToSet
  <2>2. i \in DOMAIN r /\ r[i] = x BY <1>1, <1>2, <2>1 DEF r
  <2> QED BY <2>2 DEF ToSet
<1>5. ASSUME NEW x \in ToSet(q) PROVE x \in ToSet(r)
  <2>1. PICK i \in 1..Len(q) : x = q[i] BY <1>2 DEF ToSet
  <2>2. Len(p) + i \in DOMAIN r /\ r[Len(p) + i] = x BY <1>1, <1>2, <2>1 DEF r
  <2> QED BY <2>2 DEF ToSet
<1>6. ToSet(r) = ToSet(p) \cup ToSet(q) BY <1>3, <1>4, <1>5
<1> QED BY <1>1, <1>6 DEF r

LEMMA AsksJoin ==
  ASSUME NEW p, NEW q, Asks(p), Asks(q)
  PROVE  Asks(p \o q) /\ ToSet(p \o q) = ToSet(p) \cup ToSet(q)
<1> DEFINE r == p \o q
<1>1. /\ r \in Seq(Calls)
      /\ Len(r) = Len(p) + Len(q)
      /\ \A i \in 1..Len(p) : r[i] = p[i]
      /\ \A i \in 1..Len(q) : r[Len(p) + i] = q[i]
      /\ ToSet(r) = ToSet(p) \cup ToSet(q)
  BY ConcatElements DEF Asks
<1>2. Len(p) \in Nat /\ Len(q) \in Nat /\ DOMAIN p = 1..Len(p) /\ DOMAIN q = 1..Len(q)
      /\ DOMAIN r = 1..Len(r)
  BY <1>1 DEF Asks
<1> HIDE DEF r
<1>3. ASSUME NEW i \in DOMAIN r
      PROVE  /\ r[i][1] = "decomp" => i < Len(r) /\ r[i + 1] = <<"support", r[i][2], 0>>
             /\ r[i][1] = "support" => i > 1 /\ r[i - 1] = <<"decomp", r[i][2], 0>>
  <2>1. CASE i <= Len(p)
    <3>1. i \in DOMAIN p /\ r[i] = p[i] BY <1>1, <1>2, <2>1
    <3>2. r[i][1] = "decomp" => i < Len(r) /\ r[i + 1] = <<"support", r[i][2], 0>>
      <4>1. p[i][1] = "decomp" => i < Len(p) /\ p[i + 1] = <<"support", p[i][2], 0>>
        BY <3>1 DEF Asks, Coupled
      <4>2. i < Len(p) => r[i + 1] = p[i + 1] /\ i < Len(r) BY <1>1, <1>2, <3>1
      <4> QED BY <3>1, <4>1, <4>2
    <3>3. r[i][1] = "support" => i > 1 /\ r[i - 1] = <<"decomp", r[i][2], 0>>
      <4>1. p[i][1] = "support" => i > 1 /\ p[i - 1] = <<"decomp", p[i][2], 0>>
        BY <3>1 DEF Asks, Coupled
      <4>2. i > 1 => r[i - 1] = p[i - 1] BY <1>1, <1>2, <3>1
      <4> QED BY <3>1, <4>1, <4>2
    <3> QED BY <3>2, <3>3
  <2>2. CASE i > Len(p)
    <3> DEFINE k == i - Len(p)
    <3>1. k \in DOMAIN q /\ Len(p) + k = i BY <1>1, <1>2, <2>2
    <3>2. r[i] = q[k] BY <1>1, <1>2, <3>1
    <3>3. r[i][1] = "decomp" => i < Len(r) /\ r[i + 1] = <<"support", r[i][2], 0>>
      <4>1. q[k][1] = "decomp" => k < Len(q) /\ q[k + 1] = <<"support", q[k][2], 0>>
        BY <3>1 DEF Asks, Coupled
      <4>2. k < Len(q) => r[Len(p) + (k + 1)] = q[k + 1] /\ i < Len(r) BY <1>1, <1>2, <3>1
      <4>3. Len(p) + (k + 1) = i + 1 BY <1>2, <3>1
      <4> QED BY <3>2, <4>1, <4>2, <4>3
    <3>4. r[i][1] = "support" => i > 1 /\ r[i - 1] = <<"decomp", r[i][2], 0>>
      <4>1. q[k][1] = "support" => k > 1 /\ q[k - 1] = <<"decomp", q[k][2], 0>>
        BY <3>1 DEF Asks, Coupled
      <4>2. k > 1 => r[Len(p) + (k - 1)] = q[k - 1] /\ i > 1 BY <1>1, <1>2, <3>1
      <4>3. Len(p) + (k - 1) = i - 1 BY <1>2, <3>1
      <4> QED BY <3>2, <4>1, <4>2, <4>3
    <3> QED BY <3>3, <3>4
  <2> QED BY <1>2, <2>1, <2>2
<1>4. Coupled(r) BY <1>3 DEF Coupled
<1> QED BY <1>1, <1>4 DEF Asks, r

\* A call that needs no other.
LEMMA AsksAlone ==
  ASSUME NEW call \in Calls, call[1] \notin {"decomp", "support"}
  PROVE  Asks(<<call>>) /\ ToSet(<<call>>) = {call}
BY DEF Asks, Coupled, ToSet

LEMMA AsksNothing == Asks(<<>>) /\ ToSet(<<>>) = {}
BY DEF Asks, Coupled, ToSet

LEMMA AsksClaims ==
  ASSUME NEW said \in Said
  PROVE  /\ Asks(ClaimCalls(said))
         /\ ToSet(ClaimCalls(said)) = {<<"claim", said, n>> : n \in Claims(said)}
<1>1. PICK q \in Seq(Calls) :
        /\ q = ClaimCalls(said) /\ DOMAIN q = Claims(said)
        /\ \A i \in DOMAIN q : q[i] = <<"claim", said, i>>
  BY ClaimCallsType
<1>2. Coupled(q) BY <1>1 DEF Coupled
<1>3. ToSet(q) = {<<"claim", said, n>> : n \in Claims(said)} BY <1>1 DEF ToSet
<1> QED BY <1>1, <1>2, <1>3 DEF Asks

LEMMA AsksGrounding ==
  ASSUME NEW said \in Said
  PROVE  /\ Asks(Grounding(said))
         /\ ToSet(Grounding(said)) = {<<"decomp", said, 0>>, <<"support", said, 0>>}
<1> DEFINE d == <<"decomp", said, 0>>
           s == <<"support", said, 0>>
           q == <<d, s>>
<1>1. d \in Calls /\ s \in Calls BY CallsOfUnit DEF AskTags
<1>2. q \in Seq(Calls) /\ Len(q) = 2 /\ DOMAIN q = {1, 2} /\ q[1] = d /\ q[2] = s
  <2> HIDE DEF d, s
  <2> QED BY <1>1
<1>3. ToSet(q) = {d, s}
  <2> HIDE DEF d, s, q
  <2> QED BY <1>2 DEF ToSet
<1>4. Coupled(q)
  <2>1. d[1] = "decomp" /\ d[2] = said /\ s[1] = "support" /\ s[2] = said OBVIOUS
  <2> HIDE DEF q
  <2> QED BY <1>2, <2>1 DEF Coupled
<1> QED BY <1>2, <1>3, <1>4 DEF Asks, Grounding

LEMMA AsksQueries ==
  ASSUME NEW tag \in {"embed", "rerank"}
  PROVE  Asks(CallsOn(tag, Queries))
<1>1. \A i \in DOMAIN CallsOn(tag, Queries) : CallsOn(tag, Queries)[i][1] = tag
  BY CallsOnQueries DEF ToSet
<1> QED BY <1>1, CallsOnQueries DEF Asks, Coupled

ClaimsOf(said) == {<<"claim", said, n>> : n \in Claims(said)}

GroundingOf(said) == {<<"decomp", said, 0>>, <<"support", said, 0>>}

LEMMA AsksScoring ==
  ASSUME NEW said \in Said
  PROVE  /\ Asks(Scoring(said))
         /\ ToSet(Scoring(said)) = ClaimsOf(said) \cup GroundingOf(said) \cup {<<"relev", said, 0>>}
<1>1. Asks(<<<<"relev", said, 0>>>>) /\ ToSet(<<<<"relev", said, 0>>>>) = {<<"relev", said, 0>>}
  <2>1. <<"relev", said, 0>> \in Calls BY CallsOfUnit DEF AskTags
  <2> QED BY <2>1, AsksAlone
<1>2. /\ Asks(ClaimCalls(said) \o Grounding(said))
      /\ ToSet(ClaimCalls(said) \o Grounding(said)) = ClaimsOf(said) \cup GroundingOf(said)
  BY AsksClaims, AsksGrounding, AsksJoin DEF ClaimsOf, GroundingOf
<1>3. /\ Asks((ClaimCalls(said) \o Grounding(said)) \o <<<<"relev", said, 0>>>>)
      /\ ToSet((ClaimCalls(said) \o Grounding(said)) \o <<<<"relev", said, 0>>>>)
           = (ClaimsOf(said) \cup GroundingOf(said)) \cup {<<"relev", said, 0>>}
  BY <1>1, <1>2, AsksJoin
<1> QED BY <1>3 DEF Scoring

LEMMA AsksClassification ==
  ASSUME NEW said \in Said
  PROVE  /\ Asks(Classification(said))
         /\ ToSet(Classification(said)) = IF said[2] = "empty" THEN {} ELSE {<<"response", said, 0>>}
<1>1. <<"response", said, 0>> \in Calls BY CallsOfUnit DEF AskTags
<1> QED BY <1>1, AsksAlone, AsksNothing DEF Classification

\* What is asked about a turn is a list of calls, each decomposition with its support.
LEMMA AsksAssessment ==
  ASSUME NEW said, NEW judged
  PROVE  Asks(Assessment(said, judged))
<1>1. Asks(<<>>) BY AsksNothing
<1>2. CASE said \notin Said BY <1>1, <1>2 DEF Assessment
<1>3. CASE said \in Said
  <2>1. Asks(Classification(said) \o Scoring(said))
    BY <1>3, AsksClassification, AsksScoring, AsksJoin
  <2>2. Asks(RetryAssessment(said))
    <3>1. Asks(ClaimCalls(said) \o Grounding(said)) BY <1>3, AsksClaims, AsksGrounding, AsksJoin
    <3>2. Asks((ClaimCalls(said) \o Grounding(said)) \o Classification(said))
      BY <1>3, <3>1, AsksClassification, AsksJoin
    <3>3. Asks(ClaimCalls(said) \o Classification(said))
      BY <1>3, AsksClaims, AsksClassification, AsksJoin
    <3> QED BY <1>1, <3>2, <3>3 DEF RetryAssessment
  <2>3. Asks(ConversationAssessment(said))
    <3>1. Asks(Classification(said) \o <<>>) BY <1>1, <1>3, AsksClassification, AsksJoin
    <3> QED BY <2>1, <3>1 DEF ConversationAssessment
  <2>4. Asks(ComparisonAssessment(said, judged))
    BY <1>1, <2>1 DEF ComparisonAssessment
  <2> QED BY <1>1, <2>1, <2>2, <2>3, <2>4 DEF Assessment
<1> QED BY <1>2, <1>3

LEMMA AsksRetrieval ==
  ASSUME NEW u PROVE Asks(Retrieval(u))
BY AsksNothing, AsksQueries DEF Retrieval

-----------------------------------------------------------------------------
(* Steps: the process and its result files.                                *)

Inv == RunInv /\ ServedInv

CacheOK == cache \in [Calls -> Kept \cup {"none", "torn"}]

FilesOK ==
  DOMAIN files = {"result", "partial"} /\ \A f \in {"result", "partial"} : FileAt(suite, f, files[f])

LEMMA FaultCounts ==
  ASSUME faults \in 0..MaxFaults, Fault PROVE faults' \in 0..MaxFaults
BY EvaluationBounds DEF Fault

LEMMA StartRuns ==
  ASSUME Inv, NEW plan \in Plans[suite], NEW keep \in BOOLEAN, NEW judged \in BOOLEAN,
         Start(plan, keep, judged)
  PROVE  JobAt(suite, pc', job')
<1> DEFINE j == [NoJob EXCEPT !.plan = plan, !.keep = keep, !.judged = judged]
<1>1. plan \in Seq(Units) /\ plan # <<>> /\ ToSet(plan) \subseteq ToSet(Plan[suite])
  BY PlansAreUnits DEF Inv, RunInv
<1>2. judged \/ suite = "comparison" BY DEF Start
<1>3. /\ j.plan = plan /\ j.at = 0 /\ j.ask = <<>> /\ j.status = "" /\ j.records = <<>>
      /\ j.partial = FALSE /\ j.keep = keep /\ j.judged = judged
  BY DEF NoJob
<1>4. j \in Jobs
  <2>1. <<>> \in Seq(Calls) /\ <<>> \in Seq(Records) OBVIOUS
  <2>2. "" \in Statuses \cup {""} OBVIOUS
  <2>3. NoJob \in Jobs
    <3>1. <<>> \in Seq(Units) OBVIOUS
    <3> QED BY <2>1, <2>2, <3>1 DEF NoJob, Jobs
  <2>4. PICK k \in Jobs : k = NoJob BY <2>3
  <2>5. [k EXCEPT !.plan = plan] \in Jobs BY <1>1 DEF Jobs
  <2>6. [[k EXCEPT !.plan = plan] EXCEPT !.keep = keep] \in Jobs BY <2>5 DEF Jobs
  <2>7. [[[k EXCEPT !.plan = plan] EXCEPT !.keep = keep] EXCEPT !.judged = judged] \in Jobs
    BY <2>6 DEF Jobs
  <2> QED BY <2>4, <2>7, Zenon
<1>5. Len(plan) \in Nat \ {0} BY <1>1
<1>6. IF suite = "retrieval"
      THEN Become([j EXCEPT !.ask = CallsOn("embed", Queries)], "call")
      ELSE Become([j EXCEPT !.at = 1], "turn")
  BY DEF Start
<1> HIDE DEF j
<1>7. CASE suite = "retrieval"
  <2> DEFINE k == [j EXCEPT !.ask = CallsOn("embed", Queries)]
  <2>1. job' = k /\ pc' = "call" BY <1>6, <1>7 DEF Become, Goto
  <2>2. CallsOn("embed", Queries) \in Seq(Calls) BY CallsOnQueries
  <2>3. k \in Jobs BY <1>4, <2>2, JobUpdates
  <2>4. /\ k.plan = plan /\ k.at = 0 /\ k.records = <<>> /\ k.partial = FALSE
        /\ k.judged = judged
    BY <1>3, <1>4 DEF Jobs
  <2> HIDE DEF k
  <2>5. Preparing(suite, k)
    BY <1>1, <1>2, <1>7, <2>3, <2>4, ReportsNothing DEF Preparing, Reaching, Begun
  <2> QED BY <2>1, <2>5 DEF JobAt
<1>8. CASE suite # "retrieval"
  <2> DEFINE k == [j EXCEPT !.at = 1]
  <2>1. job' = k /\ pc' = "turn" BY <1>6, <1>8 DEF Become, Goto
  <2>2. k \in Jobs BY <1>4, JobUpdates
  <2>3. /\ k.plan = plan /\ k.at = 1 /\ k.records = <<>> /\ k.partial = FALSE
        /\ k.judged = judged
    BY <1>3, <1>4 DEF Jobs
  <2> HIDE DEF k
  <2>4. Reports(suite, k.records, k.plan, k.at - 1)
    <3>1. k.at - 1 = 0 BY <2>3
    <3> QED BY <2>3, <3>1, ReportsNothing
  <2>5. Looping(suite, k)
    BY <1>1, <1>2, <1>5, <2>2, <2>3, <2>4 DEF Looping, Reaching, Begun
  <2> QED BY <2>1, <2>5 DEF JobAt
<1> QED BY <1>7, <1>8

\* A job of which only the calls still to be made or the status change stays in the loop.
LEMMA AskingRuns ==
  ASSUME NEW s, NEW j, NEW q \in Seq(Calls), NEW status \in Statuses \cup {""}, Looping(s, j)
  PROVE  Looping(s, [j EXCEPT !.status = status, !.ask = q])
<1> DEFINE k == [j EXCEPT !.status = status, !.ask = q]
<1>1. j \in Jobs BY DEF Looping, Reaching, Begun
<1>2. [j EXCEPT !.status = status] \in Jobs BY <1>1, JobUpdates
<1>3. [[j EXCEPT !.status = status] EXCEPT !.ask = q] \in Jobs BY <1>2, JobUpdates
<1>4. k \in Jobs BY <1>3, Zenon
<1>5. /\ k.plan = j.plan /\ k.at = j.at /\ k.records = j.records
      /\ k.partial = j.partial /\ k.judged = j.judged
  BY <1>1 DEF Jobs
<1> HIDE DEF k
<1>6. Looping(s, k) BY <1>4, <1>5 DEF Looping, Reaching, Begun
<1> QED BY <1>6 DEF k

LEMMA AnsweredRuns ==
  ASSUME suite \in Suites, Looping(suite, job), NEW status \in Statuses, Answered(status)
  PROVE  JobAt(suite, pc', job')
<1> DEFINE q == Assessment(<<Unit, status>>, job.judged)
           k == [job EXCEPT !.status = status, !.ask = q]
<1>1. job' = k /\ pc' = "call" BY DEF Answered, Become, Goto
<1>3. q \in Seq(Calls) BY AsksAssessment DEF Asks
<1>4. Looping(suite, k)
  <2> HIDE DEF q
  <2> QED BY <1>3, AskingRuns
<1>5. k.status = status BY DEF Looping, Reaching, Begun, Jobs
<1> HIDE DEF k
<1> QED BY <1>1, <1>4, <1>5 DEF JobAt

LEMMA GenerateRuns ==
  ASSUME Inv, Generate
  PROVE  JobAt(suite, pc', job') /\ CacheOK' /\ faults' \in 0..MaxFaults
<1>1. Looping(suite, job) /\ suite \in Suites /\ cache \in [Calls -> Kept \cup {"none", "torn"}]
      /\ faults \in 0..MaxFaults
  BY DEF Inv, RunInv, JobAt, Generate
<1> DEFINE call == <<"turn", Unit, 0>>
<1>2. {"answer", "empty"} \subseteq Statuses \cap Kept BY DEF Statuses, Kept
<1>3. CASE cache[call] = "torn" /\ TurnFails /\ UNCHANGED <<cache, faults>>
  BY <1>1, <1>3, FailedTurnRuns DEF CacheOK
<1>4. CASE cache[call] \in {"answer", "empty"} /\ Answered(cache[call]) /\ UNCHANGED <<cache, faults>>
  <2>1. PICK st \in {"answer", "empty"} : cache[call] = st BY <1>4
  <2>2. Answered(st) BY <1>4, <2>1
  <2> QED BY <1>1, <1>2, <1>4, <2>2, AnsweredRuns DEF CacheOK
<1>5. ASSUME NEW reply \in {"answer", "empty"}, cache' = [cache EXCEPT ![call] = reply],
             Answered(reply), UNCHANGED faults
      PROVE  JobAt(suite, pc', job') /\ CacheOK' /\ faults' \in 0..MaxFaults
  <2>1. CacheOK' BY <1>1, <1>2, <1>5 DEF CacheOK
  <2> QED BY <1>1, <1>2, <1>5, <2>1, AnsweredRuns
<1>6. CASE TurnFails /\ Fault /\ UNCHANGED cache
  BY <1>1, <1>6, FailedTurnRuns, FaultCounts DEF CacheOK
<1> QED
  <2> HIDE DEF call
  <2> QED BY <1>3, <1>4, <1>5, <1>6 DEF Generate, call

\* What a turn of the graph may come to.
LEMMA EndsAreStatuses ==
  ASSUME NEW u \in Units PROVE Ends[u] \subseteq {"answer", "clarify", "guarded"}
BY EndsAreOfTurns

LEMMA ScreenRuns ==
  ASSUME Inv, Screen
  PROVE  JobAt(suite, pc', job') /\ CacheOK' /\ faults' \in 0..MaxFaults
<1>1. Looping(suite, job) /\ suite \in Suites /\ CacheOK /\ faults \in 0..MaxFaults
      /\ suite \in ThroughGraph
  BY DEF Inv, RunInv, JobAt, Screen, CacheOK
<1>2. CacheOK' /\ faults' \in 0..MaxFaults BY <1>1 DEF CacheOK, Screen
<1>3. CASE Goto("graph") /\ UNCHANGED job BY <1>1, <1>2, <1>3 DEF Goto, JobAt
<1>4. CASE Answered("guarded")
  <2>1. "guarded" \in Statuses BY DEF Statuses
  <2> QED BY <1>1, <1>2, <1>4, <2>1, AnsweredRuns
<1> QED BY <1>3, <1>4 DEF Screen

LEMMA RunGraphRuns ==
  ASSUME Inv, RunGraph
  PROVE  JobAt(suite, pc', job') /\ CacheOK' /\ faults' \in 0..MaxFaults
<1>1. Looping(suite, job) /\ suite \in Suites /\ CacheOK /\ faults \in 0..MaxFaults
  BY DEF Inv, RunInv, JobAt, RunGraph, CacheOK
<1>2. CacheOK' BY <1>1 DEF CacheOK, RunGraph
<1>3. PICK u \in Units : u = Unit BY <1>1, UnitType DEF Unit
<1>4. ASSUME NEW end \in Ends[u], Answered(end), UNCHANGED faults
      PROVE  JobAt(suite, pc', job') /\ faults' \in 0..MaxFaults
  <2>1. end \in Statuses BY <1>3, EndsAreStatuses DEF Statuses
  <2> QED BY <1>1, <1>4, <2>1, AnsweredRuns
<1>5. CASE TurnFails /\ (UNCHANGED faults \/ Fault)
  <2>1. faults' \in 0..MaxFaults BY <1>1, <1>5, FaultCounts
  <2>2. JobAt(suite, pc', job') BY <1>1, <1>5, FailedTurnRuns
  <2> QED BY <1>2, <2>1, <2>2
<1> QED BY <1>2, <1>3, <1>4, <1>5 DEF RunGraph

LEMMA RetrieveRuns ==
  ASSUME Inv, Retrieve
  PROVE  JobAt(suite, pc', job') /\ CacheOK' /\ faults' \in 0..MaxFaults
<1>1. Looping(suite, job) /\ suite \in Suites /\ CacheOK /\ faults \in 0..MaxFaults
  BY DEF Inv, RunInv, JobAt, Retrieve, CacheOK
<1>2. CacheOK' BY <1>1 DEF CacheOK, Retrieve
<1>3. CASE Become([job EXCEPT !.status = "answer", !.ask = Retrieval(Unit)], "call") /\ UNCHANGED faults
  <2> DEFINE k == [job EXCEPT !.status = "answer", !.ask = Retrieval(Unit)]
  <2>1. job' = k /\ pc' = "call" BY <1>3 DEF Become, Goto
  <2>2. Retrieval(Unit) \in Seq(Calls) BY AsksRetrieval DEF Asks
  <2>3. "answer" \in Statuses BY DEF Statuses
  <2>4. Looping(suite, k) BY <1>1, <2>2, <2>3, AskingRuns
  <2>5. k.status = "answer" BY <1>1 DEF Looping, Reaching, Begun, Jobs
  <2> HIDE DEF k
  <2> QED BY <1>1, <1>2, <1>3, <2>1, <2>3, <2>4, <2>5 DEF JobAt
<1>4. CASE TurnFails /\ Fault
  BY <1>1, <1>2, <1>4, FailedTurnRuns, FaultCounts
<1> QED BY <1>3, <1>4 DEF Retrieve

\* The process is asking.
Asking == (Looping(suite, job) /\ job.status \in Statuses) \/ Preparing(suite, job)

LEMMA AskingJob ==
  ASSUME Asking
  PROVE  job \in Jobs /\ job.ask \in Seq(Calls) /\ job.at \in 0..Len(job.plan)
<1>1. job \in Jobs /\ job.at \in 0..Len(job.plan)
  <2>1. job \in Jobs BY DEF Asking, Looping, Preparing, Reaching, Begun
  <2>2. job.plan \in Seq(Units) BY <2>1, JobFields
  <2>3. Len(job.plan) \in Nat BY <2>2
  <2> QED BY <2>1, <2>3 DEF Asking, Looping, Preparing
<1>2. job.ask \in Seq(Calls) BY <1>1, JobFields
<1> QED BY <1>1, <1>2

\* What the calls still to be made are reduced to changes nothing else of a process.
LEMMA ReducedRuns ==
  ASSUME Asking, NEW q \in Seq(Calls), job' = [job EXCEPT !.ask = q]
  PROVE  (Looping(suite, job') /\ job'.status \in Statuses) \/ Preparing(suite, job')
<1>1. job \in Jobs BY AskingJob
<1>2. job' \in Jobs BY <1>1, JobUpdates
<1>3. /\ job'.plan = job.plan /\ job'.at = job.at /\ job'.records = job.records
      /\ job'.partial = job.partial /\ job'.judged = job.judged /\ job'.status = job.status
  BY <1>1 DEF Jobs
<1> QED BY <1>2, <1>3 DEF Asking, Looping, Preparing, Reaching, Begun

LEMMA TailTail ==
  ASSUME NEW S, NEW q \in Seq(S), Len(q) > 1
  PROVE  /\ Tail(Tail(q)) \in Seq(S) /\ Len(Tail(Tail(q))) = Len(q) - 2
         /\ \A i \in 1..Len(q) - 2 : Tail(Tail(q))[i] = q[i + 2]
<1>1. q # <<>> /\ Len(q) \in Nat OBVIOUS
<1>2. /\ Tail(q) \in Seq(S) /\ Len(Tail(q)) = Len(q) - 1
      /\ \A i \in 1..Len(q) - 1 : Tail(q)[i] = q[i + 1]
  BY <1>1
<1>3. Tail(q) # <<>>
  <2>1. Len(Tail(q)) # 0 BY <1>1, <1>2
  <2>2. Len(<<>>) = 0 OBVIOUS
  <2> QED BY <2>1, <2>2, Zenon
<1>4. /\ Tail(Tail(q)) \in Seq(S) /\ Len(Tail(Tail(q))) = Len(q) - 2
  BY <1>1, <1>2, <1>3
<1>5. \A i \in 1..Len(q) - 2 : Tail(Tail(q))[i] = Tail(q)[i + 1] BY <1>1, <1>2, <1>3
<1>6. \A i \in 1..Len(q) - 2 : Tail(Tail(q))[i] = q[i + 2] BY <1>1, <1>2, <1>5
<1> QED BY <1>4, <1>6

LEMMA ReadRuns ==
  ASSUME Inv, Read
  PROVE  JobAt(suite, pc', job') /\ CacheOK' /\ faults' \in 0..MaxFaults
<1> DEFINE call == Head(job.ask)
           bare == call[1] = "decomp" /\ cache[call] = "nothing"
<1>1. suite \in Suites /\ CacheOK /\ faults \in 0..MaxFaults /\ Asking
  BY DEF Inv, RunInv, JobAt, Read, CacheOK, Asking
<1>2. CacheOK' /\ faults' \in 0..MaxFaults BY <1>1 DEF Read, CacheOK
<1>3. job.ask \in Seq(Calls) /\ job.ask # <<>> /\ job \in Jobs BY <1>1, AskingJob DEF Read
<1>4. CASE Accepts(call, cache[call])
  <2>1. job' = [job EXCEPT !.ask = IF bare THEN Tail(Tail(@)) ELSE Tail(@)] /\ pc' = "call"
    BY <1>4 DEF Read
  <2>2. Tail(job.ask) \in Seq(Calls) BY <1>3
  <2>3. bare => Tail(Tail(job.ask)) \in Seq(Calls)
    <3>1. Paired(job.ask) BY DEF Inv, ServedInv, AskInv, Read
    <3>2. 1 \in DOMAIN job.ask /\ job.ask[1] = call BY <1>3
    <3>3. bare => 1 < Len(job.ask) BY <3>1, <3>2 DEF Paired
    <3> QED BY <1>3, <3>3, TailTail
  <2>4. PICK q \in Seq(Calls) : q = IF bare THEN Tail(Tail(job.ask)) ELSE Tail(job.ask)
    BY <2>2, <2>3
  <2>5. job' = [job EXCEPT !.ask = q] BY <2>1, <2>4
  <2>6. (Looping(suite, job') /\ job'.status \in Statuses) \/ Preparing(suite, job')
    BY <1>1, <2>5, ReducedRuns
  <2> QED BY <1>2, <2>1, <2>6 DEF JobAt
<1>5. CASE ~Accepts(call, cache[call])
  <2>1. JudgeFails BY <1>5 DEF Read
  <2> QED BY <1>1, <1>2, <2>1, FailedCallRuns DEF Asking
<1> QED BY <1>4, <1>5

LEMMA RepliesKept == \A call : Replies(call) \subseteq Kept
BY DEF Replies, Kept

LEMMA CacheUpdate ==
  ASSUME CacheOK, NEW call, NEW kept \in Kept \cup {"none", "torn"},
         cache' = [cache EXCEPT ![call] = kept]
  PROVE  CacheOK'
BY DEF CacheOK

LEMMA AskRuns ==
  ASSUME Inv, Ask
  PROVE  JobAt(suite, pc', job') /\ CacheOK' /\ faults' \in 0..MaxFaults
<1> DEFINE call == Head(job.ask)
<1>1. suite \in Suites /\ CacheOK /\ faults \in 0..MaxFaults /\ Asking /\ pc = "call"
  BY DEF Inv, RunInv, JobAt, Ask, CacheOK, Asking
<1>2. ASSUME NEW reply \in Replies(call), cache' = [cache EXCEPT ![call] = reply],
             UNCHANGED <<pc, job, faults>>
      PROVE  JobAt(suite, pc', job') /\ CacheOK' /\ faults' \in 0..MaxFaults
  <2>1. reply \in Kept \cup {"none", "torn"} BY RepliesKept
  <2>2. CacheOK' BY <1>1, <1>2, <2>1, CacheUpdate
  <2> QED BY <1>1, <1>2, <2>2 DEF JobAt, Asking
<1>3. CASE Fault /\ cache' = [cache EXCEPT ![call] = "malformed"] /\ UNCHANGED <<pc, job>>
  <2>1. CacheOK' BY <1>1, <1>3, CacheUpdate DEF Kept
  <2> QED BY <1>1, <1>3, <2>1, FaultCounts DEF JobAt, Asking
<1>4. CASE Fault /\ Goto("repair") /\ UNCHANGED <<cache, job>>
  BY <1>1, <1>4, FaultCounts DEF JobAt, Asking, CacheOK, Goto
<1>5. CASE JudgeFails /\ Fault /\ UNCHANGED cache
  BY <1>1, <1>5, FaultCounts, FailedCallRuns DEF Asking, CacheOK
<1> QED
  <2> HIDE DEF call
  <2> QED BY <1>2, <1>3, <1>4, <1>5 DEF Ask, call

LEMMA RepairRuns ==
  ASSUME Inv, Repair
  PROVE  JobAt(suite, pc', job') /\ CacheOK' /\ faults' \in 0..MaxFaults
<1>1. suite \in Suites /\ CacheOK /\ faults \in 0..MaxFaults /\ Asking
  BY DEF Inv, RunInv, JobAt, Repair, CacheOK, Asking
<1>2. CASE cache' = [cache EXCEPT ![Head(job.ask)] = "valid"] /\ Goto("call") /\ UNCHANGED <<job, faults>>
  <2>1. CacheOK' BY <1>1, <1>2, CacheUpdate DEF Kept
  <2> QED BY <1>1, <1>2, <2>1 DEF JobAt, Asking, Goto
<1>3. CASE JudgeFails /\ Fault /\ UNCHANGED cache
  BY <1>1, <1>3, FaultCounts, FailedCallRuns DEF Asking, CacheOK
<1> QED BY <1>2, <1>3 DEF Repair

LEMMA ScoreRuns ==
  ASSUME Inv, Score
  PROVE  JobAt(suite, pc', job') /\ CacheOK' /\ faults' \in 0..MaxFaults
<1>1. CacheOK /\ faults \in 0..MaxFaults /\ Asking
  BY DEF Inv, RunInv, JobAt, Score, CacheOK, Asking
<1>2. CacheOK' /\ faults' \in 0..MaxFaults BY <1>1 DEF Score, CacheOK
<1>3. CASE job.at = 0
  <2>1. Proceed(job) BY <1>3 DEF Score
  <2>2. Preparing(suite, job) BY <1>1, <1>3 DEF Asking, Looping
  <2>3. Reaching(suite, job, job.at) /\ job.at \in 0..Len(job.plan)
    BY <1>1, <2>2, AskingJob DEF Preparing
  <2> QED BY <1>2, <2>1, <2>3, ProceedRuns
<1>4. CASE job.at # 0
  <2>1. Looping(suite, job) /\ job.status \in Statuses BY <1>1, <1>4 DEF Asking, Preparing
  <2>2. PICK lack \in Lacks : Recorded(job, lack) BY <1>4 DEF Score, Lacks
  <2> QED BY <1>2, <2>1, <2>2, RecordedRuns
<1> QED BY <1>3, <1>4

LEMMA IdleRuns ==
  ASSUME Exit PROVE JobAt(suite, pc', job')
BY DEF Exit, Become, Goto, JobAt

LEMMA DieRuns ==
  ASSUME Inv, Die
  PROVE  JobAt(suite, pc', job') /\ CacheOK' /\ faults' \in 0..MaxFaults
<1>1. CacheOK /\ faults \in 0..MaxFaults BY DEF Inv, RunInv, CacheOK
<1>2. CacheOK'
  <2>1. CASE UNCHANGED cache BY <1>1, <2>1 DEF CacheOK
  <2>2. CASE \E call \in Calls : cache' = [cache EXCEPT ![call] = "torn"]
    BY <1>1, <2>2, CacheUpdate
  <2> QED BY <2>1, <2>2 DEF Die
<1>3. Exit /\ Fault BY DEF Die
<1> QED BY <1>1, <1>2, <1>3, IdleRuns, FaultCounts

LEMMA OpenResultRuns ==
  ASSUME Inv, OpenResult
  PROVE  JobAt(suite, pc', job') /\ FilesOK'
<1>1. Finished(suite, job) /\ FilesOK /\ suite' = suite BY DEF Inv, RunInv, JobAt, FilesOK, OpenResult
<1>2. Destination(job) \in {"result", "partial"} BY DEF Destination
<1>3. PICK f \in {"result", "partial"} : f = Destination(job) BY <1>2
<1>4. PICK torn : torn = [NoFile EXCEPT !.state = "torn"] OBVIOUS
<1>5. FileAt(suite, f, torn)
  <2>1. torn.state = "torn" /\ torn.plan = <<>> /\ torn.records = <<>> BY <1>4 DEF NoFile
  <2>2. torn \in ResultFiles
    <3>1. <<>> \in Seq(Units) /\ <<>> \in Seq(Records) OBVIOUS
    <3>2. NoFile \in ResultFiles BY <3>1 DEF NoFile, ResultFiles
    <3> QED BY <1>4, <3>2 DEF ResultFiles
  <2> QED BY <1>4, <2>1, <2>2 DEF FileAt
<1>6. files' = [files EXCEPT ![f] = torn] BY <1>3, <1>4 DEF OpenResult
<1>7. FilesOK' BY <1>1, <1>5, <1>6 DEF FilesOK
<1> QED BY <1>1, <1>7 DEF OpenResult, Goto, JobAt

LEMMA WriteResultRuns ==
  ASSUME Inv, WriteResult
  PROVE  JobAt(suite, pc', job') /\ FilesOK'
<1>1. Finished(suite, job) /\ FilesOK /\ suite' = suite BY DEF Inv, RunInv, JobAt, FilesOK, WriteResult
<1>2. PICK f \in {"result", "partial"} : f = Destination(job) BY DEF Destination
<1>3. PICK file : file = [state |-> "whole", plan |-> job.plan, records |-> job.records] OBVIOUS
<1>4. FileAt(suite, f, file)
  <2>1. file.state = "whole" /\ file.plan = job.plan /\ file.records = job.records BY <1>3
  <2>2. file \in ResultFiles
    <3>1. job.plan \in Seq(Units) /\ job.records \in Seq(Records)
      BY <1>1, JobFields DEF Finished, Begun
    <3> QED BY <1>3, <3>1 DEF ResultFiles
  <2>3. f = "partial" => job.partial BY <1>2 DEF Destination
  <2>4. f = "result" => ~job.partial BY <1>2 DEF Destination
  <2> QED BY <1>1, <2>1, <2>2, <2>3, <2>4 DEF FileAt, Finished
<1>5. files' = [files EXCEPT ![f] = file] BY <1>2, <1>3 DEF WriteResult
<1>6. FilesOK' BY <1>1, <1>4, <1>5 DEF FilesOK
<1>7. Exit BY DEF WriteResult
<1> QED BY <1>6, <1>7, IdleRuns

LEMMA SentType ==
  ASSUME [Next]_vars, sent \in BOOLEAN PROVE sent' \in BOOLEAN
<1>1. ASSUME NEW plan \in Plans[suite], NEW keep \in BOOLEAN, NEW judged \in BOOLEAN,
             Start(plan, keep, judged)
      PROVE  sent' \in BOOLEAN
  BY <1>1 DEF Start
<1>2. CASE Generate \/ Screen \/ RunGraph \/ Retrieve BY <1>2 DEF Generate, Screen, RunGraph, Retrieve
<1>3. CASE Read \/ Ask \/ Repair \/ Score BY <1>3 DEF Read, Ask, Repair, Score
<1>4. CASE OpenResult \/ WriteResult \/ Die BY <1>4 DEF OpenResult, WriteResult, Die
<1>5. CASE UNCHANGED vars BY <1>5 DEF vars
<1> QED BY <1>1, <1>2, <1>3, <1>4, <1>5 DEF Next, Advance

\* Every step keeps the process at a place its locals fit, and the files what they are.
LEMMA RunInvStep ==
  ASSUME Inv, [Next]_vars
  PROVE  RunInv'
<1> USE DEF CacheOK, FilesOK
<1>1. RunInv BY DEF Inv
<1>2. ASSUME suite' = suite, CacheOK', faults' \in 0..MaxFaults, JobAt(suite, pc', job'), FilesOK'
      PROVE  RunInv'
  <2>1. sent' \in BOOLEAN BY <1>1, SentType DEF RunInv
  <2> QED BY <1>1, <1>2, <2>1 DEF RunInv
<1>3. UNCHANGED files /\ suite' = suite => FilesOK' BY <1>1 DEF RunInv
<1> HIDE DEF FilesOK
<1>4. UNCHANGED <<cache, faults>> => CacheOK' /\ faults' \in 0..MaxFaults
  <2>1. CacheOK /\ faults \in 0..MaxFaults BY <1>1 DEF RunInv
  <2>2. cache' = cache => CacheOK' BY <2>1
  <2> QED BY <2>1, <2>2
<1> HIDE DEF CacheOK
<1>5. ASSUME NEW plan \in Plans[suite], NEW keep \in BOOLEAN, NEW judged \in BOOLEAN,
             Start(plan, keep, judged)
      PROVE  RunInv'
  BY <1>2, <1>3, <1>4, <1>5, StartRuns DEF Start
<1>6. CASE Generate BY <1>2, <1>3, <1>6, GenerateRuns DEF Generate
<1>16. CASE Screen BY <1>2, <1>3, <1>16, ScreenRuns DEF Screen
<1>17. CASE RunGraph BY <1>2, <1>3, <1>17, RunGraphRuns DEF RunGraph
<1>7. CASE Retrieve BY <1>2, <1>3, <1>7, RetrieveRuns DEF Retrieve
<1>8. CASE Read BY <1>2, <1>3, <1>8, ReadRuns DEF Read
<1>9. CASE Ask BY <1>2, <1>3, <1>9, AskRuns DEF Ask
<1>10. CASE Repair BY <1>2, <1>3, <1>10, RepairRuns DEF Repair
<1>11. CASE Score BY <1>2, <1>3, <1>11, ScoreRuns DEF Score
<1>12. CASE OpenResult BY <1>2, <1>4, <1>12, OpenResultRuns DEF OpenResult
<1>13. CASE WriteResult BY <1>2, <1>4, <1>13, WriteResultRuns DEF WriteResult
<1>14. CASE Die BY <1>2, <1>3, <1>14, DieRuns DEF Die
<1>15. CASE UNCHANGED vars BY <1>1, <1>15 DEF vars, RunInv
<1> QED
  BY <1>5, <1>6, <1>7, <1>8, <1>9, <1>10, <1>11, <1>12, <1>13, <1>14, <1>15,
     <1>16, <1>17
  DEF Next, Advance

LEMMA RunInvInit ==
  ASSUME Init PROVE RunInv
<1>1. cache \in [Calls -> Kept \cup {"none", "torn"}] BY DEF Init
<1>2. sent \in BOOLEAN /\ faults \in 0..MaxFaults
  <2>1. sent \in BOOLEAN BY DEF Init
  <2> QED BY <2>1, EvaluationBounds DEF Init
<1>3. JobAt(suite, pc, job) BY DEF Init, JobAt
<1>4. \A f : FileAt(suite, f, NoFile)
  <2>1. <<>> \in Seq(Units) /\ <<>> \in Seq(Records) OBVIOUS
  <2>2. NoFile \in ResultFiles BY <2>1 DEF NoFile, ResultFiles
  <2> QED BY <2>2 DEF FileAt, NoFile
<1> QED BY <1>1, <1>2, <1>3, <1>4 DEF Init, RunInv

-----------------------------------------------------------------------------
(* Steps: what is kept in a cache stays.                                   *)

Grows == \A call \in Calls : cache[call] # "none" => cache'[call] = cache[call]

LEMMA CacheGrowsAt ==
  ASSUME CacheOK, NEW call, cache[call] = "none", NEW kept, cache' = [cache EXCEPT ![call] = kept]
  PROVE  Grows
BY DEF CacheOK, Grows

LEMMA CacheGrows ==
  ASSUME Inv, [Next]_vars
  PROVE  Grows /\ suite' = suite
<1>1. CacheOK BY DEF Inv, RunInv, CacheOK
<1>2. UNCHANGED cache => Grows BY DEF Grows
<1>3. CASE Generate BY <1>1, <1>2, <1>3, CacheGrowsAt DEF Generate
<1>4. CASE Ask BY <1>1, <1>2, <1>4, CacheGrowsAt DEF Ask
<1>5. CASE Repair
  <2>1. cache[Head(job.ask)] = "none" BY <1>5 DEF Inv, ServedInv, RepairInv, Repair
  <2> QED BY <1>1, <1>2, <1>5, <2>1, CacheGrowsAt DEF Repair
<1>6. CASE Die BY <1>1, <1>2, <1>6, CacheGrowsAt DEF Die
<1>7. CASE \E plan \in Plans[suite], keep, judged \in BOOLEAN : Start(plan, keep, judged)
  BY <1>2, <1>7 DEF Start
<1>8. CASE Screen \/ RunGraph \/ Retrieve \/ Read \/ Score \/ OpenResult \/ WriteResult
  BY <1>2, <1>8 DEF Screen, RunGraph, Retrieve, Read, Score, OpenResult, WriteResult
<1>9. CASE UNCHANGED vars BY <1>2, <1>9 DEF vars
<1> QED
  BY <1>3, <1>4, <1>5, <1>6, <1>7, <1>8, <1>9 DEF Next, Advance

LEMMA SupportOfUnit ==
  ASSUME NEW call \in Calls, call[1] = "support"
  PROVE  \E said \in Said : call = <<"support", said, 0>>
BY DEF Calls

LEMMA DoneStays ==
  ASSUME Grows, NEW call \in Calls, Done(call)
  PROVE  Done(call)'
<1>1. CASE cache[call] # "none" /\ Accepts(call, cache[call])
  <2>1. cache'[call] = cache[call] BY <1>1 DEF Grows
  <2>2. PICK kept : kept = cache[call] OBVIOUS
  <2>3. Accepts(call, kept) BY <1>1, <2>2
  <2>4. cache'[call] = kept /\ kept # "none" BY <1>1, <2>1, <2>2
  <2>5. Accepts(call, cache[call])' BY <2>3, <2>4 DEF Accepts, RelevanceReads, DecompositionReads, SupportReads
  <2> QED BY <2>4, <2>5 DEF Done
<1>2. CASE Spared(call)
  <2>1. PICK said \in Said : call = <<"support", said, 0>> BY <1>2, SupportOfUnit DEF Spared
  <2>2. <<"decomp", call[2], 0>> \in Calls BY <2>1, CallsOfUnit DEF AskTags
  <2>3. cache'[<<"decomp", call[2], 0>>] = "nothing" BY <1>2, <2>2 DEF Spared, Grows
  <2>4. Spared(call)' BY <1>2, <2>3 DEF Spared
  <2> QED BY <2>4 DEF Done
<1> QED BY <1>1, <1>2 DEF Done

LEMMA SuiteStays ==
  ASSUME suite' = suite, NEW said
  PROVE  /\ Asked(said)' = Asked(said)
         /\ Wanted(said)' = Wanted(said)
<1>1. Asked(said)' = Asked(said)
  BY DEF Asked, Assessment, RetryAssessment, ConversationAssessment, ComparisonAssessment,
         Classification, Scoring, Grounding, ClaimCalls, Retrieval, CallsOn, ToSet
<1> QED BY <1>1 DEF Wanted, Embeddings, CallsOn, ToSet

LEMMA MeasuresGrow ==
  ASSUME suite' = suite, Grows, NEW u \in Units, NEW status
  PROVE  Measures(<<u, status>>) \subseteq Measures(<<u, status>>)'
<1>1. PICK said : said = <<u, status>> OBVIOUS
<1>2. CASE said \in Said
  <2>1. <<"decomp", said, 0>> \in Calls BY <1>2, CallsOfUnit DEF AskTags
  <2>2. cache[<<"decomp", said, 0>>] = "valid" => cache'[<<"decomp", said, 0>>] = "valid"
    BY <2>1 DEF Grows
  <2>3. ScoreMeasures(said) \subseteq ScoreMeasures(said)' BY <2>2 DEF ScoreMeasures
  <2>4. RetryMeasures(said) \subseteq RetryMeasures(said)' BY <2>3 DEF RetryMeasures
  <2>5. Measures(said) \subseteq Measures(said)' BY <2>3, <2>4 DEF Measures
  <2> QED BY <1>1, <2>5
<1>3. CASE said \notin Said
  <2>1. said[2] \notin {"answer", "guarded"} BY <1>1, <1>3 DEF Said
  <2>2. RetryMeasures(said) \subseteq RetryMeasures(said)' BY <2>1 DEF RetryMeasures
  <2>3. Measures(said) \subseteq Measures(said)' BY <1>3, <2>2 DEF Measures
  <2> QED BY <1>1, <2>3
<1> QED BY <1>2, <1>3

LEMMA WantedAreCalls ==
  ASSUME NEW said
  PROVE  /\ Asked(said) \subseteq Calls /\ Embeddings \subseteq Calls
         /\ Wanted(said) \subseteq Calls
<1>1. Assessment(said, TRUE) \in Seq(Calls) BY AsksAssessment DEF Asks
<1>2. Retrieval(said[1]) \in Seq(Calls) BY AsksRetrieval DEF Asks
<1>3. CallsOn("embed", Queries) \in Seq(Calls) BY CallsOnQueries
<1>4. \A q \in Seq(Calls) : ToSet(q) \subseteq Calls BY DEF ToSet
<1> QED BY <1>1, <1>2, <1>3, <1>4 DEF Asked, Wanted, Embeddings

\* What a record rests on stays.
LEMMA ServedStays ==
  ASSUME suite' = suite, Grows, NEW r \in Records, Served(r)
  PROVE  Served(r)'
<1>1. r.unit \in Units BY DEF Records
<1>2. CASE r.lack = "none"
  <2>1. PICK said : said = <<r.unit, r.status>> OBVIOUS
  <2>2. \A call \in Wanted(said) : Done(call) BY <1>2, <2>1 DEF Served
  <2>3. ASSUME NEW call \in Wanted(said)' PROVE Done(call)'
    <3>1. call \in Wanted(said) BY <2>3, SuiteStays
    <3>2. call \in Calls BY <3>1, WantedAreCalls
    <3> QED BY <2>2, <3>1, <3>2, DoneStays
  <2>4. \A call \in Wanted(<<r.unit, r.status>>)' : Done(call)' BY <2>1, <2>3
  <2>5. suite = "generation" =>
          r.status \in {"answer", "empty"} /\ cache'[<<"turn", r.unit, 0>>] = r.status
    <3>1. <<"turn", r.unit, 0>> \in Calls BY <1>1, TurnIsCall
    <3> QED BY <1>2, <3>1 DEF Served, Grows
  <2>6. r.metrics \subseteq Measures(<<r.unit, r.status>>)' BY <1>1, <1>2, MeasuresGrow DEF Served
  <2> QED BY <1>2, <2>4, <2>5, <2>6 DEF Served
<1>3. CASE r.lack # "none" BY <1>3 DEF Served
<1> QED BY <1>2, <1>3

-----------------------------------------------------------------------------
(* Steps: what the records rest on.                                        *)

LEMMA ServedParts ==
  ASSUME Inv
  PROVE  /\ CacheOK /\ RecordsServed /\ FilesServed /\ QueriesReady /\ RepairInv
         /\ pc \in {"call", "repair"} => AskInv /\ StatusInv /\ Asking
         /\ pc \in {"turn", "graph"} => Looping(suite, job)
         /\ pc # "idle" => job \in Jobs
         /\ \A r \in ToSet(job.records) : r \in Records
         /\ \A f \in {"result", "partial"} : \A r \in ToSet(files[f].records) : r \in Records
<1>1. JobAt(suite, pc, job) BY DEF Inv, RunInv
<1>2. pc # "idle" => job \in Jobs
  BY <1>1 DEF JobAt, Looping, Preparing, Finished, Reaching, Begun
<1>3. job.records \in Seq(Records)
  <2>1. CASE pc = "idle"
    <3>1. job = NoJob /\ NoJob.records = <<>> BY <1>1, <2>1, Zenon DEF JobAt, NoJob
    <3>2. <<>> \in Seq(Records) OBVIOUS
    <3> QED BY <3>1, <3>2, Zenon
  <2>2. CASE pc # "idle" BY <1>2, <2>2, JobFields
  <2> QED BY <2>1, <2>2
<1>4. \A r \in ToSet(job.records) : r \in Records BY <1>3 DEF ToSet
<1>5. ASSUME NEW f \in {"result", "partial"}, NEW r \in ToSet(files[f].records) PROVE r \in Records
  <2>1. files[f] \in ResultFiles BY DEF Inv, RunInv, FileAt
  <2>2. files[f].records \in Seq(Records) BY <2>1 DEF ResultFiles
  <2> QED BY <2>2 DEF ToSet
<1> QED BY <1>1, <1>2, <1>4, <1>5 DEF Inv, RunInv, ServedInv, CacheOK, JobAt, Asking

LEMMA FilesStayServed ==
  ASSUME Inv, Grows, suite' = suite, UNCHANGED files
  PROVE  FilesServed'
<1>1. ASSUME NEW f \in {"result", "partial"}, NEW r \in ToSet(files[f].records)
      PROVE  Served(r)'
  <2>1. r \in Records /\ Served(r) BY ServedParts DEF FilesServed
  <2> QED BY <2>1, ServedStays
<1> QED BY <1>1 DEF FilesServed

LEMMA EmbeddingsStay ==
  ASSUME Grows, \A call \in Embeddings : Done(call)
  PROVE  \A call \in Embeddings' : Done(call)'
<1>1. Embeddings' = Embeddings BY DEF Embeddings, CallsOn, ToSet
<1>2. Embeddings \subseteq Calls BY CallsOnQueries DEF Embeddings, ToSet
<1> QED BY <1>1, <1>2, DoneStays

\* A step out of the asking, or past it, with records that are served.
LEMMA LeavingServes ==
  ASSUME Inv, Grows, suite' = suite, UNCHANGED files, pc' \in {"turn", "open", "idle"},
         \A r \in ToSet(job'.records) : r \in Records /\ Served(r),
         suite = "retrieval" /\ pc' = "turn" => \A call \in Embeddings : Done(call)
  PROVE  ServedInv'
<1>1. RecordsServed' BY ServedStays DEF RecordsServed
<1>2. FilesServed' BY FilesStayServed
<1>3. QueriesReady' BY EmbeddingsStay DEF QueriesReady
<1>4. RepairInv' BY DEF RepairInv
<1> QED BY <1>1, <1>2, <1>3, <1>4 DEF ServedInv

LEMMA ProceedLeaves ==
  ASSUME NEW j \in Jobs, Proceed(j)
  PROVE  pc' \in {"turn", "open", "idle"} /\ ToSet(job'.records) \subseteq ToSet(j.records)
<1>1. CASE Become([j EXCEPT !.at = @ + 1, !.ask = <<>>, !.status = ""], "turn")
  <2> DEFINE k == [j EXCEPT !.at = @ + 1, !.ask = <<>>, !.status = ""]
  <2>1. job' = k /\ pc' = "turn" BY <1>1 DEF Become, Goto
  <2>2. k.records = j.records BY NextUnit
  <2> QED BY <2>1, <2>2
<1>2. CASE Become(j, "open") BY <1>2 DEF Become, Goto
<1>3. CASE Exit
  <2>1. job'.records = <<>> /\ pc' = "idle" BY <1>3 DEF Exit, Become, Goto, NoJob
  <2>2. ToSet(job'.records) = {} BY <2>1 DEF ToSet
  <2> QED BY <2>1, <2>2
<1> QED BY <1>1, <1>2, <1>3 DEF Proceed

LEMMA RecordedLeaves ==
  ASSUME NEW j \in Jobs, NEW lack, NEW r \in Records, r = RecordOf(Unit, j.status, lack), Recorded(j, lack)
  PROVE  pc' \in {"turn", "open", "idle"} /\ ToSet(job'.records) \subseteq ToSet(j.records) \cup {r}
<1> DEFINE k == [j EXCEPT !.records = Append(@, r)]
<1>1. j.records \in Seq(Records) BY JobFields
<1>2. Append(j.records, r) \in Seq(Records) BY <1>1
<1>3. k \in Jobs BY <1>2, JobUpdates
<1>4. k.records = Append(j.records, r) BY DEF Jobs
<1>5. Proceed(k) BY DEF Recorded
<1> HIDE DEF k
<1>6. pc' \in {"turn", "open", "idle"} /\ ToSet(job'.records) \subseteq ToSet(Append(j.records, r))
  BY <1>3, <1>4, <1>5, ProceedLeaves
<1>7. ToSet(Append(j.records, r)) \subseteq ToSet(j.records) \cup {r}
  BY <1>1 DEF ToSet
<1> QED BY <1>6, <1>7

LEMMA StopLeaves ==
  ASSUME job \in Jobs, Stop
  PROVE  pc' \in {"turn", "open", "idle"} /\ ToSet(job'.records) \subseteq ToSet(job.records)
<1>1. CASE Exit
  <2>1. job'.records = <<>> /\ pc' = "idle" BY <1>1 DEF Exit, Become, Goto, NoJob
  <2>2. ToSet(job'.records) = {} BY <2>1 DEF ToSet
  <2> QED BY <2>1, <2>2
<1>2. ASSUME NEW n \in 1..Len(job.records),
             Become([job EXCEPT !.records = SubSeq(@, 1, n), !.partial = TRUE], "open")
      PROVE  pc' \in {"turn", "open", "idle"} /\ ToSet(job'.records) \subseteq ToSet(job.records)
  <2>1. job.records \in Seq(Records) BY JobFields
  <2>2. job'.records = SubSeq(job.records, 1, n) /\ pc' = "open" BY <1>2 DEF Become, Goto, Jobs
  <2>3. ToSet(SubSeq(job.records, 1, n)) \subseteq ToSet(job.records) BY <2>1 DEF ToSet
  <2> QED BY <2>2, <2>3
<1> QED BY <1>1, <1>2, StopSplits

\* A failed call leaves the asking, with a record that claims nothing if with any.
LEMMA FailedCallServes ==
  ASSUME Inv, Asking, pc \in {"call", "repair"}, Grows, suite' = suite, UNCHANGED files, JudgeFails
  PROVE  ServedInv'
<1>1. job \in Jobs /\ suite \in Suites BY AskingJob DEF Inv, RunInv
<1>2. \A r \in ToSet(job.records) : r \in Records /\ Served(r) BY ServedParts DEF RecordsServed
<1>3. ASSUME pc' \in {"turn", "open", "idle"}, ToSet(job'.records) \subseteq ToSet(job.records),
             suite = "retrieval" /\ pc' = "turn" => job.at # 0
      PROVE  ServedInv'
  <2>1. suite = "retrieval" /\ pc' = "turn" => \A call \in Embeddings : Done(call)
    BY <1>3, ServedParts DEF QueriesReady
  <2> QED BY <1>2, <1>3, <2>1, LeavingServes
<1>4. CASE suite \in {"generation", "retry", "conversation"}
  <2>1. Stop /\ suite # "retrieval" BY <1>4 DEF JudgeFails
  <2> QED BY <1>1, <1>3, <2>1, StopLeaves
<1>5. CASE suite = "comparison"
  <2>1. Looping(suite, job) /\ job.status \in Statuses BY <1>5 DEF Asking, Preparing
  <2>2. PICK r : r = RecordOf(Unit, job.status, "judge") OBVIOUS
  <2>3. r \in Records
    <3>1. Unit \in Units BY <2>1, UnitType DEF Unit
    <3> QED BY <2>1, <2>2, <3>1, RecordType DEF Lacks
  <2>4. Served(r) BY <2>2 DEF RecordOf, Served
  <2>5. Recorded(job, "judge") BY <1>5 DEF JudgeFails
  <2>6. pc' \in {"turn", "open", "idle"} /\ ToSet(job'.records) \subseteq ToSet(job.records) \cup {r}
    BY <1>1, <2>2, <2>3, <2>5, RecordedLeaves
  <2> QED BY <1>2, <1>5, <2>3, <2>4, <2>6, LeavingServes
<1>6. CASE suite = "retrieval"
  <2>1. IF job.at = 0 THEN Exit ELSE Proceed(job) BY <1>6 DEF JudgeFails
  <2>2. CASE job.at = 0
    <3>1. Exit BY <2>1, <2>2
    <3>2. job'.records = <<>> /\ pc' = "idle" BY <3>1 DEF Exit, Become, Goto, NoJob
    <3>3. ToSet(job'.records) = {} BY <3>2 DEF ToSet
    <3> QED BY <1>3, <3>2, <3>3
  <2>3. CASE job.at # 0 BY <1>1, <1>3, <2>1, <2>3, ProceedLeaves
  <2> QED BY <2>2, <2>3
<1> QED BY <1>1, <1>4, <1>5, <1>6, SuitesAreScripts

LEMMA ErrorWants ==
  ASSUME suite # "retrieval", NEW u PROVE Wanted(<<u, "error">>) = {}
<1>1. <<u, "error">> \notin Said BY DEF Said
<1>2. Assessment(<<u, "error">>, TRUE) = <<>> BY <1>1 DEF Assessment
<1> QED BY <1>2, AsksNothing DEF Wanted, Asked

\* So does a turn that raises; its record rests on nothing.
LEMMA FailedTurnServes ==
  ASSUME Inv, pc \in {"turn", "graph"}, suite = "retrieval" => pc = "turn",
         UNCHANGED <<suite, cache, files>>, TurnFails
  PROVE  ServedInv'
<1>1. Looping(suite, job) /\ job \in Jobs /\ Grows BY ServedParts DEF Grows
<1>2. \A r \in ToSet(job.records) : r \in Records /\ Served(r) BY ServedParts DEF RecordsServed
<1>3. suite = "retrieval" => \A call \in Embeddings : Done(call)
  BY <1>1, ServedParts DEF QueriesReady, Looping
<1>4. ASSUME pc' \in {"turn", "open", "idle"}, ToSet(job'.records) \subseteq ToSet(job.records)
      PROVE  ServedInv'
  BY <1>1, <1>2, <1>3, <1>4, LeavingServes
<1>5. CASE suite = "retry"
  <2> DEFINE k == [job EXCEPT !.status = "error"]
  <2>1. "error" \in Statuses /\ "none" \in Lacks BY DEF Statuses, Lacks
  <2>2. k \in Jobs /\ k.status = "error" /\ k.records = job.records
    <3>1. k \in Jobs BY <1>1, <2>1, JobUpdates
    <3>2. k.status = "error" /\ k.records = job.records BY <1>1 DEF Jobs
    <3> QED BY <3>1, <3>2
  <2>3. PICK r : r = RecordOf(Unit, "error", "none") OBVIOUS
  <2>4. r \in Records
    <3>1. Unit \in Units BY <1>1, UnitType DEF Unit
    <3> QED BY <2>1, <2>3, <3>1, RecordType
  <2>5. Served(r)
    <3>1. r.lack = "none" /\ r.status = "error" /\ r.metrics = Measures(<<r.unit, r.status>>)
      BY <2>3 DEF RecordOf
    <3>2. Wanted(<<r.unit, r.status>>) = {} BY <1>5, <3>1, ErrorWants
    <3> QED BY <1>5, <3>1, <3>2 DEF Served
  <2>6. Recorded(k, "none") BY <1>5 DEF TurnFails
  <2> HIDE DEF k
  <2>7. pc' \in {"turn", "open", "idle"} /\ ToSet(job'.records) \subseteq ToSet(job.records) \cup {r}
    BY <2>2, <2>3, <2>4, <2>6, RecordedLeaves
  <2> QED BY <1>1, <1>2, <1>5, <2>4, <2>5, <2>7, LeavingServes
<1>6. CASE suite = "conversation"
  BY <1>1, <1>4, <1>6, StopLeaves DEF TurnFails
<1>7. CASE suite = "retrieval"
  BY <1>1, <1>4, <1>7, ProceedLeaves DEF TurnFails
<1>8. CASE suite \notin {"retry", "conversation", "retrieval"}
  <2>1. Exit BY <1>8 DEF TurnFails
  <2>2. job'.records = <<>> /\ pc' = "idle" BY <2>1 DEF Exit, Become, Goto, NoJob
  <2>3. ToSet(job'.records) = {} BY <2>2 DEF ToSet
  <2> QED BY <1>4, <2>2, <2>3
<1> QED BY <1>5, <1>6, <1>7, <1>8

\* A step that keeps the records and begins to ask, or goes on asking.
LEMMA AskingServes ==
  ASSUME Inv, Grows, suite' = suite, UNCHANGED files, job'.records = job.records,
         pc' \in {"call", "repair"}, AskInv', StatusInv', RepairInv', QueriesReady'
  PROVE  ServedInv'
<1>1. RecordsServed'
  <2>1. ASSUME NEW r \in ToSet(job.records) PROVE Served(r)'
    <3>1. r \in Records /\ Served(r) BY ServedParts DEF RecordsServed
    <3> QED BY <3>1, ServedStays
  <2> QED BY <2>1 DEF RecordsServed
<1>2. FilesServed' BY FilesStayServed
<1> QED BY <1>1, <1>2 DEF ServedInv

LEMMA CoupledPairs ==
  ASSUME NEW q, Asks(q) PROVE Paired(q)
BY DEF Asks, Coupled, Paired

LEMMA AssessmentIsAsked ==
  ASSUME NEW said, NEW judged \in BOOLEAN, judged \/ suite = "comparison"
  PROVE  /\ ToSet(Assessment(said, judged)) \subseteq Asked(said)
         /\ suite # "retrieval" /\ judged => Asked(said) = ToSet(Assessment(said, judged))
<1>1. CASE judged BY <1>1 DEF Asked
<1>2. CASE ~judged
  <2>1. Assessment(said, judged) = <<>>
    BY <1>2 DEF Assessment, ComparisonAssessment
  <2> QED BY <1>2, <2>1, AsksNothing
<1> QED BY <1>1, <1>2

LEMMA AnsweredServes ==
  ASSUME Inv, pc \in {"turn", "graph"}, suite # "retrieval", Grows, UNCHANGED <<suite, files>>,
         NEW status, Answered(status),
         suite = "generation" =>
           status \in {"answer", "empty"} /\ cache'[<<"turn", Unit, 0>>] = status
  PROVE  ServedInv'
<1>1. Looping(suite, job) /\ job \in Jobs BY ServedParts
<1>2. PICK u \in Units : u = Unit BY <1>1, UnitType DEF Unit
<1>3. PICK said, q : said = <<u, status>> /\ q = Assessment(said, job.judged) OBVIOUS
<1>4. /\ job'.ask = q /\ job'.status = status /\ job'.plan = job.plan /\ job'.at = job.at
      /\ job'.records = job.records /\ job'.judged = job.judged /\ pc' = "call"
  <2>1. job' = [job EXCEPT !.status = status, !.ask = q] /\ pc' = "call"
    BY <1>2, <1>3 DEF Answered, Become, Goto
  <2> QED BY <1>1, <2>1 DEF Jobs
<1>5. job.at # 0 BY <1>1 DEF Looping
<1>6. Unit' = u BY <1>2, <1>4 DEF Unit
<1>7. Due' = Asked(said)
  <2>1. Asked(said)' = Asked(said) BY SuiteStays
  <2> QED BY <1>3, <1>4, <1>5, <1>6, <2>1 DEF Due
<1>8. job.judged \in BOOLEAN /\ (job.judged \/ suite = "comparison")
  BY <1>1, JobFields DEF Looping, Reaching, Begun
<1>9. AskInv'
  <2>1. ToSet(q) \subseteq Asked(said) /\ (job.judged => Asked(said) = ToSet(q))
    BY <1>3, <1>8, AssessmentIsAsked
  <2>2. Asks(q) BY <1>3, AsksAssessment
  <2>3. Paired(q)'
    BY <2>2 DEF Asks, Coupled, Paired
  <2>4. Paired(job.ask)' BY <1>4, <2>3 DEF Paired
  <2> QED BY <1>4, <1>7, <2>1, <2>4 DEF AskInv
<1>10. StatusInv' BY <1>2, <1>4, <1>6 DEF StatusInv
<1>11. RepairInv' BY <1>4 DEF RepairInv
<1>12. QueriesReady' BY DEF QueriesReady
<1> QED BY <1>4, <1>9, <1>10, <1>11, <1>12, AskingServes

LEMMA StartServes ==
  ASSUME Inv, NEW plan \in Plans[suite], NEW keep \in BOOLEAN, NEW judged \in BOOLEAN,
         Start(plan, keep, judged)
  PROVE  ServedInv'
<1>1. suite' = suite /\ cache' = cache /\ files' = files /\ pc = "idle" BY DEF Start
<1>2. Grows BY <1>1 DEF Grows
<1>3. job = NoJob BY <1>1 DEF Inv, RunInv, JobAt
<1>4. CASE suite = "retrieval"
  <2>1. PICK q : q = CallsOn("embed", Queries) OBVIOUS
  <2>2. job'.ask = q /\ job'.at = 0 /\ job'.records = <<>> /\ pc' = "call"
    BY <1>4, <2>1 DEF Start, Become, Goto, NoJob
  <2>3. Asks(q) /\ ToSet(q) = Embeddings BY <2>1, AsksQueries DEF Embeddings
  <2>4. Embeddings' = Embeddings BY DEF Embeddings, CallsOn, ToSet
  <2>5. Due' = ToSet(q) BY <2>2, <2>3, <2>4 DEF Due
  <2>6. Paired(job.ask)' BY <2>2, <2>3 DEF Asks, Coupled, Paired
  <2>7. AskInv' BY <2>2, <2>5, <2>6 DEF AskInv
  <2>8. StatusInv' /\ RepairInv' /\ QueriesReady'
    BY <1>1, <1>4, <2>2 DEF StatusInv, RepairInv, QueriesReady
  <2>9. job'.records = job.records BY <1>3, <2>2 DEF NoJob
  <2> QED BY <1>1, <1>2, <2>2, <2>7, <2>8, <2>9, AskingServes
<1>5. CASE suite # "retrieval"
  <2>1. job'.records = <<>> /\ pc' = "turn"
    BY <1>5 DEF Start, Become, Goto, NoJob
  <2>2. ToSet(job'.records) = {} BY <2>1 DEF ToSet
  <2> QED BY <1>1, <1>2, <1>5, <2>1, <2>2, LeavingServes
<1> QED BY <1>4, <1>5

LEMMA GenerateServes ==
  ASSUME Inv, Grows, Generate
  PROVE  ServedInv'
<1>1. PICK call : call = <<"turn", Unit, 0>> OBVIOUS
<1>2. pc = "turn" /\ suite = "generation" /\ UNCHANGED <<suite, files>> BY DEF Generate
<1>3. Looping(suite, job) /\ CacheOK BY <1>2, ServedParts
<1>4. call \in Calls
  <2>1. Unit \in Units BY <1>3, UnitType DEF Unit
  <2> QED BY <1>1, <2>1, TurnIsCall
<1>5. CASE TurnFails /\ UNCHANGED cache
  BY <1>2, <1>5, FailedTurnServes
<1>6. CASE cache[call] \in {"answer", "empty"} /\ Answered(cache[call]) /\ UNCHANGED cache
  <2>1. PICK st \in {"answer", "empty"} : st = cache[call] BY <1>6
  <2>2. Answered(st) /\ cache'[call] = st BY <1>6, <2>1
  <2> QED BY <1>1, <1>2, <2>2, AnsweredServes
<1>7. ASSUME NEW reply \in {"answer", "empty"}, cache' = [cache EXCEPT ![call] = reply], Answered(reply)
      PROVE  ServedInv'
  <2>1. cache'[call] = reply BY <1>3, <1>4, <1>7 DEF CacheOK
  <2> QED BY <1>1, <1>2, <1>7, <2>1, AnsweredServes
<1> QED BY <1>1, <1>5, <1>6, <1>7 DEF Generate

LEMMA ScreenServes ==
  ASSUME Inv, Grows, Screen
  PROVE  ServedInv'
<1>1. /\ pc = "turn" /\ suite \in ThroughGraph /\ UNCHANGED <<suite, cache, files>>
      /\ suite \notin {"retrieval", "generation"}
  BY DEF Screen, ThroughGraph
<1>2. CASE Goto("graph") /\ UNCHANGED job
  <2>1. pc' = "graph" BY <1>2 DEF Goto
  <2>2. RecordsServed'
    <3>1. ASSUME NEW r \in ToSet(job.records) PROVE Served(r)'
      <4>1. r \in Records /\ Served(r) BY ServedParts DEF RecordsServed
      <4> QED BY <1>1, <4>1, ServedStays
    <3> QED BY <1>2, <3>1 DEF RecordsServed
  <2>3. FilesServed' BY <1>1, FilesStayServed
  <2>4. QueriesReady' /\ RepairInv' BY <2>1 DEF QueriesReady, RepairInv
  <2> QED BY <2>1, <2>2, <2>3, <2>4 DEF ServedInv
<1>3. CASE Answered("guarded") BY <1>1, <1>3, AnsweredServes
<1> QED BY <1>2, <1>3 DEF Screen

LEMMA GraphSuite ==
  ASSUME Inv, pc = "graph" PROVE suite \notin {"retrieval", "generation"}
BY DEF Inv, RunInv, JobAt, ThroughGraph

LEMMA RunGraphServes ==
  ASSUME Inv, Grows, RunGraph
  PROVE  ServedInv'
<1>1. /\ pc = "graph" /\ UNCHANGED <<suite, cache, files>>
      /\ suite \notin {"retrieval", "generation"}
  BY GraphSuite DEF RunGraph
<1>2. ASSUME NEW end, Answered(end) PROVE ServedInv'
  BY <1>1, <1>2, AnsweredServes
<1>3. CASE TurnFails BY <1>1, <1>3, FailedTurnServes
<1> QED BY <1>2, <1>3 DEF RunGraph

LEMMA RetrieveServes ==
  ASSUME Inv, Grows, Retrieve
  PROVE  ServedInv'
<1>1. pc = "turn" /\ suite = "retrieval" /\ UNCHANGED <<suite, cache, files>> BY DEF Retrieve
<1>2. Looping(suite, job) /\ job \in Jobs BY <1>1, ServedParts
<1>3. CASE TurnFails BY <1>1, <1>3, FailedTurnServes
<1>4. CASE Become([job EXCEPT !.status = "answer", !.ask = Retrieval(Unit)], "call")
  <2>1. PICK u : u = Unit OBVIOUS
  <2>2. PICK q : q = Retrieval(u) OBVIOUS
  <2>3. /\ job'.ask = q /\ job'.status = "answer" /\ job'.plan = job.plan /\ job'.at = job.at
        /\ job'.records = job.records /\ pc' = "call"
    <3>1. job' = [job EXCEPT !.status = "answer", !.ask = q] /\ pc' = "call"
      BY <1>4, <2>1, <2>2 DEF Become, Goto
    <3> QED BY <1>2, <3>1 DEF Jobs
  <2>4. Unit' = u /\ job.at # 0 BY <1>2, <2>1, <2>3 DEF Unit, Looping
  <2>5. Asked(<<u, "answer">>) = ToSet(q)
    <3>1. Assessment(<<u, "answer">>, TRUE) = <<>> BY <1>1 DEF Assessment
    <3> QED BY <1>1, <2>2, <3>1, AsksNothing DEF Asked
  <2>6. Due' = ToSet(q)
    <3>1. PICK said : said = <<u, "answer">> OBVIOUS
    <3>2. Asked(said)' = Asked(said) BY <1>1, SuiteStays
    <3>3. Due' = Asked(said)' BY <2>3, <2>4, <3>1 DEF Due
    <3> QED BY <2>5, <3>1, <3>2, <3>3
  <2>7. Asks(q) BY <2>2, AsksRetrieval
  <2>8. Paired(job.ask)' BY <2>3, <2>7 DEF Asks, Coupled, Paired
  <2>9. AskInv' BY <2>3, <2>6, <2>8 DEF AskInv
  <2>10. \A call \in Embeddings : Done(call) BY <1>1, <1>2, ServedParts DEF QueriesReady, Looping
  <2>11. \A call \in Embeddings' : Done(call)' BY <2>10, EmbeddingsStay
  <2>12. StatusInv' /\ RepairInv' /\ QueriesReady'
    BY <1>1, <2>3, <2>11 DEF StatusInv, RepairInv, QueriesReady
  <2> QED BY <1>1, <2>3, <2>9, <2>12, AskingServes
<1> QED BY <1>3, <1>4 DEF Retrieve

\* Nothing that is asked is a turn.
LEMMA AssessmentAsksNoTurn ==
  ASSUME NEW said
  PROVE  \A call \in ToSet(Assessment(said, TRUE)) : call[1] # "turn"
<1>1. CASE said \notin Said BY <1>1, AsksNothing DEF Assessment
<1>2. CASE said \in Said
  <2>1. \A call \in ToSet(Scoring(said)) : call[1] # "turn"
    BY <1>2, AsksScoring DEF ClaimsOf, GroundingOf
  <2>2. \A call \in ToSet(Classification(said)) : call[1] # "turn"
    BY <1>2, AsksClassification
  <2>3. \A call \in ToSet(ClaimCalls(said)) : call[1] # "turn"
    BY <1>2, AsksClaims
  <2>4. \A call \in ToSet(Grounding(said)) : call[1] # "turn"
    BY <1>2, AsksGrounding
  <2>5. ToSet(Classification(said) \o Scoring(said)) = ToSet(Classification(said)) \cup ToSet(Scoring(said))
    BY <1>2, AsksClassification, AsksScoring, AsksJoin
  <2>6. ToSet(Classification(said) \o <<>>) = ToSet(Classification(said))
    BY <1>2, AsksClassification, AsksNothing, AsksJoin
  <2>7. ToSet((ClaimCalls(said) \o Grounding(said)) \o Classification(said))
          = ToSet(ClaimCalls(said)) \cup ToSet(Grounding(said)) \cup ToSet(Classification(said))
    BY <1>2, AsksClaims, AsksGrounding, AsksClassification, AsksJoin
  <2>8. ToSet(ClaimCalls(said) \o Classification(said))
          = ToSet(ClaimCalls(said)) \cup ToSet(Classification(said))
    BY <1>2, AsksClaims, AsksClassification, AsksJoin
  <2>9. \A call \in ToSet(RetryAssessment(said)) : call[1] # "turn"
    BY <2>2, <2>3, <2>4, <2>7, <2>8, AsksNothing DEF RetryAssessment
  <2>10. \A call \in ToSet(ConversationAssessment(said)) : call[1] # "turn"
    BY <2>1, <2>2, <2>5, <2>6 DEF ConversationAssessment
  <2>11. \A call \in ToSet(ComparisonAssessment(said, TRUE)) : call[1] # "turn"
    BY <2>1, <2>2, <2>5, AsksNothing DEF ComparisonAssessment
  <2>12. \A call \in ToSet(Classification(said) \o Scoring(said)) : call[1] # "turn"
    BY <2>1, <2>2, <2>5
  <2> QED BY <2>9, <2>10, <2>11, <2>12, AsksNothing DEF Assessment
<1> QED BY <1>1, <1>2

LEMMA DueAreCalls ==
  ASSUME Asking
  PROVE  /\ Due \subseteq Calls
         /\ \A call \in Due : call[1] # "turn"
<1>1. \A q : Asks(q) => ToSet(q) \subseteq Calls BY DEF Asks, ToSet
<1>2. CASE job.at = 0
  <2>1. Due = ToSet(CallsOn("embed", Queries)) BY <1>2 DEF Due, Embeddings
  <2> QED BY <1>1, <2>1, AsksQueries, CallsOnQueries
<1>3. CASE job.at # 0
  <2>1. PICK said : said = <<Unit, job.status>> OBVIOUS
  <2>2. Due = Asked(said) BY <1>3, <2>1 DEF Due
  <2>3. Asked(said) \subseteq Calls BY WantedAreCalls
  <2>4. \A call \in ToSet(Retrieval(said[1])) : call[1] # "turn"
    BY AsksNothing, CallsOnQueries DEF Retrieval
  <2>5. \A call \in ToSet(Assessment(said, TRUE)) : call[1] # "turn" BY AssessmentAsksNoTurn
  <2> QED BY <2>2, <2>3, <2>4, <2>5 DEF Asked
<1> QED BY <1>2, <1>3

\* Where only the calls still to be made change, what is due does not.
LEMMA DueStays ==
  ASSUME suite' = suite, job'.plan = job.plan, job'.at = job.at, job'.status = job.status
  PROVE  Due' = Due /\ Unit' = Unit
<1>1. Unit' = Unit BY DEF Unit
<1>2. PICK said : said = <<Unit, job.status>> OBVIOUS
<1>3. Asked(said)' = Asked(said) BY SuiteStays
<1>4. Embeddings' = Embeddings BY DEF Embeddings, CallsOn, ToSet
<1> QED BY <1>1, <1>2, <1>3, <1>4 DEF Due

\* The cache files of turns are as they were: so is the status of the turn in work.
LEMMA StatusStays ==
  ASSUME suite' = suite, job'.plan = job.plan, job'.at = job.at, job'.status = job.status, StatusInv,
         suite = "generation" => cache'[<<"turn", Unit, 0>>] = cache[<<"turn", Unit, 0>>]
  PROVE  StatusInv'
<1>1. Unit' = Unit BY DEF Unit
<1> QED BY <1>1 DEF StatusInv

LEMMA QueriesStayReady ==
  ASSUME Inv, Grows, suite' = suite, job'.at = job.at, pc \in {"call", "repair"}
  PROVE  QueriesReady'
<1>1. suite = "retrieval" /\ job.at # 0 => \A call \in Embeddings : Done(call)
  BY ServedParts DEF QueriesReady
<1> QED BY <1>1, EmbeddingsStay DEF QueriesReady

LEMMA ReadServes ==
  ASSUME Inv, Grows, Read
  PROVE  ServedInv'
<1>1. /\ pc = "call" /\ suite' = suite /\ cache' = cache /\ files' = files
      /\ job.ask # <<>> /\ AskInv /\ StatusInv /\ Asking
  BY ServedParts DEF Read
<1>2. job \in Jobs /\ job.ask \in Seq(Calls) BY <1>1, AskingJob
<1>3. PICK call : call = Head(job.ask) OBVIOUS
<1>4. PICK bare \in BOOLEAN : bare = (call[1] = "decomp" /\ cache[call] = "nothing") OBVIOUS
<1>5. CASE ~Accepts(call, cache[call])
  <2>1. JudgeFails BY <1>3, <1>5 DEF Read
  <2> QED BY <1>1, <2>1, FailedCallServes
<1>6. CASE Accepts(call, cache[call])
  <2>1. PICK old \in Seq(Calls) : old = job.ask BY <1>2
  <2>2. PICK new : new = IF bare THEN Tail(Tail(old)) ELSE Tail(old) OBVIOUS
  <2>3. job' = [job EXCEPT !.ask = new] /\ pc' = "call"
    BY <1>3, <1>4, <1>6, <2>1, <2>2 DEF Read
  <2>4. /\ job'.ask = new /\ job'.plan = job.plan /\ job'.at = job.at /\ job'.status = job.status
        /\ job'.records = job.records /\ job'.judged = job.judged
    BY <1>2, <2>3 DEF Jobs
  <2>5. /\ Paired(old) /\ ToSet(old) \subseteq Due
        /\ job.judged => \A c \in Due : c \in ToSet(old) \/ Done(c)
    BY <1>1, <2>1 DEF AskInv
  <2>6. /\ old # <<>> /\ Len(old) \in Nat /\ Len(old) > 0 /\ DOMAIN old = 1..Len(old)
        /\ old[1] = call
    BY <1>1, <1>3, <2>1
  <2>7. call[1] = "decomp" => Len(old) > 1 /\ old[2] = <<"support", call[2], 0>>
    <3>1. 1 \in DOMAIN old /\ 1 + 1 = 2 BY <2>6
    <3>2. old[1][1] = "decomp" => 1 < Len(old) /\ old[1 + 1] = <<"support", old[1][2], 0>>
      BY <2>5, <3>1 DEF Paired
    <3> QED BY <2>6, <3>1, <3>2
  <2>8. Done(call)
    <3>1. cache[call] # "none" BY <1>3 DEF Read
    <3> QED BY <1>6, <3>1 DEF Done
  <2>9. bare => Done(old[2])
    <3>1. ASSUME bare PROVE Spared(old[2])
      <4>1. call[1] = "decomp" /\ cache[call] = "nothing" /\ old[2] = <<"support", call[2], 0>>
        BY <1>4, <2>7, <3>1
      <4>2. call \in Calls BY <2>1, <2>6
      <4>3. call = <<"decomp", call[2], 0>> BY <4>1, <4>2 DEF Calls
      <4>4. old[2][1] = "support" /\ old[2][2] = call[2] BY <4>1
      <4> QED BY <4>1, <4>3, <4>4 DEF Spared
    <3> QED BY <3>1 DEF Done
  <2> DEFINE dropped == IF bare THEN 2 ELSE 1
  <2>10. PICK k \in {1, 2} : k = dropped OBVIOUS
  <2>11. /\ new \in Seq(Calls) /\ Len(new) = Len(old) - k
         /\ \A i \in 1..Len(new) : new[i] = old[i + k]
    <3>1. CASE bare
      <4>1. k = 2 /\ new = Tail(Tail(old)) BY <2>2, <2>10, <3>1
      <4>2. Len(old) > 1 BY <1>4, <2>7, <3>1
      <4> QED BY <4>1, <4>2, TailTail
    <3>2. CASE ~bare
      <4>1. k = 1 /\ new = Tail(old) BY <2>2, <2>10, <3>2
      <4> QED BY <2>6, <4>1
    <3> QED BY <3>1, <3>2
  <2> HIDE DEF dropped
  <2>12. DOMAIN new = 1..Len(new) /\ Len(new) \in Nat /\ k <= Len(old)
    BY <2>6, <2>11
  <2>13. Due' = Due BY <1>1, <2>4, DueStays
  <2>14. ToSet(new) \subseteq ToSet(old)
    <3>1. ASSUME NEW i \in 1..Len(new) PROVE new[i] = old[i + k] /\ i + k \in 1..Len(old)
      BY <2>6, <2>11, <2>12
    <3> QED BY <2>6, <2>12, <3>1 DEF ToSet
  <2>15. ASSUME NEW c \in ToSet(old), c \notin ToSet(new) PROVE Done(c)
    <3>1. PICK i \in 1..Len(old) : c = old[i] BY <2>6, <2>15 DEF ToSet
    <3>2. i <= k
      <4>1. SUFFICES ASSUME i > k PROVE FALSE BY <2>12
      <4>2. i - k \in 1..Len(new) /\ (i - k) + k = i BY <2>6, <2>11, <2>12, <4>1
      <4>3. new[i - k] = c BY <2>11, <3>1, <4>2
      <4> QED BY <2>12, <2>15, <4>2, <4>3 DEF ToSet
    <3>3. i = 1 \/ (bare /\ i = 2) BY <2>10, <3>2 DEF dropped
    <3> QED BY <2>6, <2>8, <2>9, <3>1, <3>3
  <2>16. ASSUME NEW c \in Due, Done(c) PROVE Done(c)'
    BY <1>1, <2>16, DueAreCalls, DoneStays
  <2>17. Paired(new)'
    <3>1. SUFFICES ASSUME NEW i \in DOMAIN new
                   PROVE  /\ new[i][1] = "decomp" => i < Len(new) /\ new[i + 1] = <<"support", new[i][2], 0>>
                          /\ new[i][1] = "support" =>
                               IF i = 1 THEN cache[<<"decomp", new[i][2], 0>>] = "valid"
                               ELSE new[i - 1] = <<"decomp", new[i][2], 0>>
      BY <1>1 DEF Paired
    <3>2. new[i] = old[i + k] /\ i + k \in DOMAIN old BY <2>6, <2>11, <2>12
    <3>3. new[i][1] = "decomp" => i < Len(new) /\ new[i + 1] = <<"support", new[i][2], 0>>
      <4>1. new[i][1] = "decomp" => i + k < Len(old) /\ old[(i + k) + 1] = <<"support", new[i][2], 0>>
        BY <2>5, <3>2 DEF Paired
      <4>2. i + k < Len(old) => i < Len(new) /\ new[i + 1] = old[(i + 1) + k]
        BY <2>6, <2>11, <2>12
      <4>3. (i + 1) + k = (i + k) + 1 BY <2>12
      <4> QED BY <4>1, <4>2, <4>3
    <3>4. ASSUME new[i][1] = "support"
          PROVE  IF i = 1 THEN cache[<<"decomp", new[i][2], 0>>] = "valid"
                 ELSE new[i - 1] = <<"decomp", new[i][2], 0>>
      <4>1. i + k # 1 /\ i \in 1..Len(new) BY <2>12
      <4>2. old[(i + k) - 1] = <<"decomp", new[i][2], 0>> BY <2>5, <3>2, <3>4, <4>1 DEF Paired
      <4>3. CASE i # 1
        <5>1. i - 1 \in 1..Len(new) /\ (i - 1) + k = (i + k) - 1 BY <2>12, <4>1, <4>3
        <5> QED BY <2>11, <4>2, <4>3, <5>1
      <4>4. CASE i = 1 /\ bare
        <5>1. (i + k) - 1 = 2 BY <2>10, <4>4 DEF dropped
        <5>2. old[2][1] = "support"
          <6>1. call[1] = "decomp" BY <1>4, <4>4
          <6> QED BY <2>7, <6>1
        <5> QED BY <4>2, <5>1, <5>2
      <4>5. CASE i = 1 /\ ~bare
        <5>1. (i + k) - 1 = 1 BY <2>10, <4>5 DEF dropped
        <5>2. call = <<"decomp", new[i][2], 0>> BY <2>6, <4>2, <5>1
        <5>3. cache[call] \in {"valid", "nothing"} /\ call[1] = "decomp"
          BY <1>6, <5>2 DEF Accepts, DecompositionReads
        <5>4. cache[call] = "valid" BY <1>4, <4>5, <5>3
        <5> QED BY <4>5, <5>2, <5>4
      <4> QED BY <4>3, <4>4, <4>5
    <3> QED BY <3>3, <3>4
  <2>18. Paired(job.ask)' BY <2>4, <2>17 DEF Paired
  <2>19. AskInv' BY <2>4, <2>5, <2>13, <2>14, <2>15, <2>16, <2>18 DEF AskInv
  <2>20. StatusInv' BY <1>1, <2>4, StatusStays
  <2>21. RepairInv' BY <2>3 DEF RepairInv
  <2>22. QueriesReady' BY <1>1, <2>4, QueriesStayReady
  <2> QED BY <1>1, <2>3, <2>4, <2>19, <2>20, <2>21, <2>22, AskingServes
<1> QED BY <1>5, <1>6

\* Where the process asks on and only a cache file is written, nothing that is done is undone.
LEMMA AskingOnServes ==
  ASSUME Inv, pc = "call" \/ pc = "repair", Grows, UNCHANGED <<suite, files, job>>,
         pc' \in {"call", "repair"}, RepairInv',
         suite = "generation" => cache'[<<"turn", Unit, 0>>] = cache[<<"turn", Unit, 0>>]
  PROVE  ServedInv'
<1>1. AskInv /\ StatusInv /\ Asking BY ServedParts
<1>2. Due' = Due BY DueStays
<1>3. \A call \in Due : Done(call) => Done(call)' BY <1>1, DueAreCalls, DoneStays
<1>4. PICK q \in Seq(Calls) : q = job.ask BY <1>1, AskingJob
<1>5. Paired(q)'
  <2>1. Paired(q) BY <1>1, <1>4 DEF AskInv
  <2>2. ASSUME NEW i \in DOMAIN q, q[i][1] = "support",
               cache[<<"decomp", q[i][2], 0>>] = "valid"
        PROVE  cache'[<<"decomp", q[i][2], 0>>] = "valid"
    <3>1. q[i] \in Calls BY <1>4
    <3>2. PICK said \in Said : q[i] = <<"support", said, 0>> BY <2>2, <3>1, SupportOfUnit
    <3>3. q[i][2] = said BY <3>2
    <3>4. <<"decomp", said, 0>> \in Calls BY CallsOfUnit DEF AskTags
    <3>5. <<"decomp", q[i][2], 0>> \in Calls BY <3>3, <3>4, Zenon
    <3> QED BY <2>2, <3>5 DEF Grows
  <2> QED BY <2>1, <2>2 DEF Paired
<1>6. Paired(job.ask)' BY <1>4, <1>5 DEF Paired
<1>7. AskInv' BY <1>1, <1>2, <1>3, <1>6 DEF AskInv
<1>8. StatusInv' BY <1>1, StatusStays
<1>9. QueriesReady' BY QueriesStayReady
<1> QED BY <1>7, <1>8, <1>9, AskingServes

LEMMA AskServes ==
  ASSUME Inv, Grows, Ask
  PROVE  ServedInv'
<1>1. /\ pc = "call" /\ UNCHANGED <<suite, files>> /\ job.ask # <<>> /\ cache[Head(job.ask)] = "none"
      /\ AskInv /\ Asking
  BY ServedParts DEF Ask
<1>2. PICK call : call = Head(job.ask) OBVIOUS
<1>3. call \in Due /\ call \in Calls /\ call[1] # "turn"
  <2>1. job.ask \in Seq(Calls) BY <1>1, AskingJob
  <2>2. call \in ToSet(job.ask) BY <1>1, <1>2, <2>1 DEF ToSet
  <2> QED BY <1>1, <2>2, DueAreCalls DEF AskInv
<1>4. CacheOK BY ServedParts
<1>5. ASSUME NEW kept, cache' = [cache EXCEPT ![call] = kept], UNCHANGED <<pc, job>>
      PROVE  ServedInv'
  <2>1. ASSUME suite = "generation" PROVE cache'[<<"turn", Unit, 0>>] = cache[<<"turn", Unit, 0>>]
    <3>1. call # <<"turn", Unit, 0>> BY <1>3
    <3>2. <<"turn", Unit, 0>> \in Calls
      <4>1. Unit \in Units BY <1>1, <2>1, UnitType DEF Asking, Preparing, Unit
      <4> QED BY <4>1, TurnIsCall
    <3> QED BY <1>4, <1>5, <3>1, <3>2 DEF CacheOK
  <2>2. RepairInv' BY <1>1, <1>5 DEF RepairInv
  <2> QED BY <1>1, <1>5, <2>1, <2>2, AskingOnServes
<1>6. CASE call[1] = "claim" /\ Goto("repair") /\ UNCHANGED <<cache, job>>
  <2>1. RepairInv' BY <1>1, <1>2, <1>6 DEF RepairInv
  <2>2. pc' = "repair" BY <1>6 DEF Goto
  <2> QED BY <1>1, <1>6, <2>1, <2>2, AskingOnServes
<1>7. CASE JudgeFails
  BY <1>1, <1>7, FailedCallServes
<1> QED BY <1>2, <1>5, <1>6, <1>7 DEF Ask

LEMMA RepairServes ==
  ASSUME Inv, Grows, Repair
  PROVE  ServedInv'
<1>1. /\ pc = "repair" /\ UNCHANGED <<suite, files>> /\ AskInv /\ Asking /\ CacheOK
      /\ job.ask # <<>> /\ Head(job.ask)[1] = "claim"
  BY ServedParts DEF Repair, RepairInv
<1>2. CASE cache' = [cache EXCEPT ![Head(job.ask)] = "valid"] /\ Goto("call") /\ UNCHANGED job
  <2>1. ASSUME suite = "generation" PROVE cache'[<<"turn", Unit, 0>>] = cache[<<"turn", Unit, 0>>]
    <3>1. Head(job.ask) # <<"turn", Unit, 0>> BY <1>1
    <3>2. <<"turn", Unit, 0>> \in Calls
      <4>1. Unit \in Units BY <1>1, <2>1, UnitType DEF Asking, Preparing, Unit
      <4> QED BY <4>1, TurnIsCall
    <3> QED BY <1>1, <1>2, <3>1, <3>2 DEF CacheOK
  <2>2. pc' = "call" BY <1>2 DEF Goto
  <2>3. RepairInv' BY <2>2 DEF RepairInv
  <2> QED BY <1>1, <1>2, <2>1, <2>2, <2>3, AskingOnServes
<1>3. CASE JudgeFails
  BY <1>1, <1>3, FailedCallServes
<1> QED BY <1>2, <1>3 DEF Repair

LEMMA ScoreServes ==
  ASSUME Inv, Grows, Score
  PROVE  ServedInv'
<1>1. /\ pc = "call" /\ UNCHANGED <<suite, cache, files>> /\ job.ask = <<>>
      /\ AskInv /\ StatusInv /\ Asking /\ QueriesReady
  BY ServedParts DEF Score
<1>2. job \in Jobs /\ \A r \in ToSet(job.records) : r \in Records /\ Served(r)
  BY <1>1, AskingJob, ServedParts DEF RecordsServed
<1>3. job.judged => \A call \in Due : Done(call)
  BY <1>1, AsksNothing DEF AskInv
<1>4. job.judged \in BOOLEAN /\ (job.judged \/ suite = "comparison")
  BY <1>1, <1>2, JobFields DEF Asking, Looping, Preparing, Reaching, Begun
<1>5. suite = "retrieval" => \A call \in Embeddings : Done(call)
  <2>1. CASE job.at = 0 BY <1>3, <1>4, <2>1 DEF Due
  <2>2. CASE job.at # 0 BY <1>1, <2>2 DEF QueriesReady
  <2> QED BY <2>1, <2>2
<1>6. CASE job.at = 0
  <2>1. Proceed(job) BY <1>6 DEF Score
  <2> QED BY <1>1, <1>2, <1>5, <2>1, ProceedLeaves, LeavingServes
<1>7. CASE job.at # 0
  <2>1. PICK lack \in Lacks : lack = IF job.judged THEN "none" ELSE "skipped" BY DEF Lacks
  <2>2. Recorded(job, lack) BY <1>7, <2>1 DEF Score
  <2>3. Looping(suite, job) /\ job.status \in Statuses BY <1>1, <1>7 DEF Asking, Preparing
  <2>4. PICK u \in Units : u = Unit BY <2>3, UnitType DEF Unit
  <2>5. PICK st \in Statuses : st = job.status BY <2>3
  <2>6. PICK r : r = RecordOf(u, st, lack) OBVIOUS
  <2>7. r \in Records BY <2>6, RecordType
  <2>8. r.unit = u /\ r.status = st /\ r.lack = lack BY <2>6 DEF RecordOf
  <2>9. Served(r)
    <3>1. CASE job.judged
      <4>1. lack = "none" /\ r.metrics = Measures(<<u, st>>) BY <2>1, <2>6, <3>1 DEF RecordOf
      <4>2. \A call \in Asked(<<u, st>>) : Done(call) BY <1>3, <1>7, <2>4, <2>5, <3>1 DEF Due
      <4>3. \A call \in Wanted(<<u, st>>) : Done(call) BY <1>5, <4>2 DEF Wanted
      <4>4. suite = "generation" => st \in {"answer", "empty"} /\ cache[<<"turn", u, 0>>] = st
        BY <1>1, <2>4, <2>5 DEF StatusInv
      <4> QED BY <2>8, <4>1, <4>3, <4>4 DEF Served
    <3>2. CASE ~job.judged
      <4>1. r.lack # "none" /\ r.metrics = {} BY <2>1, <2>6, <3>2 DEF RecordOf
      <4> QED BY <4>1 DEF Served
    <3> QED BY <3>1, <3>2
  <2>10. pc' \in {"turn", "open", "idle"} /\ ToSet(job'.records) \subseteq ToSet(job.records) \cup {r}
    BY <1>2, <2>2, <2>4, <2>5, <2>6, <2>7, RecordedLeaves
  <2> QED BY <1>1, <1>2, <1>5, <2>7, <2>9, <2>10, LeavingServes
<1> QED BY <1>6, <1>7

\* A result file takes the records of the process, or none.
LEMMA FileServes ==
  ASSUME Inv, Grows, suite' = suite, CacheOK, NEW f \in {"result", "partial"}, NEW file,
         files' = [files EXCEPT ![f] = file],
         file.records = <<>> \/ file.records = job.records
  PROVE  FilesServed'
<1>1. DOMAIN files = {"result", "partial"} BY DEF Inv, RunInv
<1>2. ASSUME NEW g \in {"result", "partial"}, NEW r \in ToSet(files'[g].records)
      PROVE  Served(r)'
  <2>1. r \in ToSet(files[g].records) \/ r \in ToSet(job.records)
    <3>1. CASE g # f BY <1>1, <1>2, <3>1
    <3>2. CASE g = f
      <4>1. r \in ToSet(file.records) BY <1>1, <1>2, <3>2
      <4> QED BY <4>1, AsksNothing
    <3> QED BY <3>1, <3>2
  <2>2. r \in Records /\ Served(r) BY <2>1, ServedParts DEF RecordsServed, FilesServed
  <2> QED BY <2>2, ServedStays
<1> QED BY <1>2 DEF FilesServed

LEMMA OpenResultServes ==
  ASSUME Inv, Grows, OpenResult
  PROVE  ServedInv'
<1>1. PICK f \in {"result", "partial"} : f = Destination(job) BY DEF Destination
<1>2. PICK file : file = [NoFile EXCEPT !.state = "torn"] OBVIOUS
<1>3. file.records = <<>> BY <1>2 DEF NoFile
<1>4. suite' = suite /\ pc' = "write" /\ job' = job /\ files' = [files EXCEPT ![f] = file]
  BY <1>1, <1>2 DEF OpenResult, Goto
<1>5. FilesServed' BY <1>3, <1>4, ServedParts, FileServes
<1>6. RecordsServed'
  <2>1. ASSUME NEW r \in ToSet(job.records) PROVE Served(r)'
    <3>1. r \in Records /\ Served(r) BY ServedParts DEF RecordsServed
    <3> QED BY <1>4, <3>1, ServedStays
  <2> QED BY <1>4, <2>1 DEF RecordsServed
<1>7. QueriesReady' /\ RepairInv' BY <1>4 DEF QueriesReady, RepairInv
<1> QED BY <1>4, <1>5, <1>6, <1>7 DEF ServedInv

\* Out of work, nothing is claimed.
LEMMA IdleServes ==
  ASSUME Exit, FilesServed' PROVE ServedInv'
<1>1. job'.records = <<>> /\ pc' = "idle" BY DEF Exit, Become, Goto, NoJob
<1>2. ToSet(job'.records) = {} BY <1>1 DEF ToSet
<1> QED BY <1>1, <1>2 DEF ServedInv, RecordsServed, QueriesReady, RepairInv

LEMMA WriteResultServes ==
  ASSUME Inv, Grows, WriteResult
  PROVE  ServedInv'
<1>1. PICK f \in {"result", "partial"} : f = Destination(job) BY DEF Destination
<1>2. PICK file : file = [state |-> "whole", plan |-> job.plan, records |-> job.records] OBVIOUS
<1>3. file.records = job.records BY <1>2
<1>4. suite' = suite /\ Exit /\ files' = [files EXCEPT ![f] = file]
  BY <1>1, <1>2 DEF WriteResult
<1>5. FilesServed' BY <1>3, <1>4, ServedParts, FileServes
<1> QED BY <1>4, <1>5, IdleServes

\* Every step keeps the records resting on what is in the caches.
LEMMA ServedInvStep ==
  ASSUME Inv, [Next]_vars
  PROVE  ServedInv'
<1>1. Grows /\ suite' = suite BY CacheGrows
<1>2. ASSUME NEW plan \in Plans[suite], NEW keep \in BOOLEAN, NEW judged \in BOOLEAN,
             Start(plan, keep, judged)
      PROVE  ServedInv'
  BY <1>2, StartServes
<1>3. CASE Generate BY <1>1, <1>3, GenerateServes
<1>13. CASE Screen BY <1>1, <1>13, ScreenServes
<1>14. CASE RunGraph BY <1>1, <1>14, RunGraphServes
<1>4. CASE Retrieve BY <1>1, <1>4, RetrieveServes
<1>5. CASE Read BY <1>1, <1>5, ReadServes
<1>6. CASE Ask BY <1>1, <1>6, AskServes
<1>7. CASE Repair BY <1>1, <1>7, RepairServes
<1>8. CASE Score BY <1>1, <1>8, ScoreServes
<1>9. CASE OpenResult BY <1>1, <1>9, OpenResultServes
<1>10. CASE WriteResult BY <1>1, <1>10, WriteResultServes
<1>11. CASE Die
  <2>1. FilesServed' BY <1>1, <1>11, FilesStayServed DEF Die
  <2> QED BY <1>11, <2>1, IdleServes DEF Die
<1>12. CASE UNCHANGED vars
  <2> USE <1>12 DEF vars
  <2>1. RecordsServed' /\ FilesServed'
    <3>1. \A r \in ToSet(job.records) : Served(r)' BY <1>1, ServedParts, ServedStays DEF RecordsServed
    <3>2. FilesServed' BY <1>1, FilesStayServed
    <3> QED BY <3>1, <3>2 DEF RecordsServed
  <2>2. RepairInv' BY ServedParts DEF RepairInv
  <2>3. CASE pc \in {"call", "repair"} BY <1>1, <2>2, <2>3, AskingOnServes
  <2>4. CASE pc \notin {"call", "repair"}
    <3>1. QueriesReady'
      <4>1. suite = "retrieval" /\ pc = "turn" /\ job.at # 0 => \A call \in Embeddings : Done(call)
        BY ServedParts DEF QueriesReady
      <4> QED BY <1>1, <2>4, <4>1, EmbeddingsStay DEF QueriesReady
    <3> QED BY <2>1, <2>2, <2>4, <3>1 DEF ServedInv
  <2> QED BY <2>3, <2>4
<1> QED
  BY <1>2, <1>3, <1>4, <1>5, <1>6, <1>7, <1>8, <1>9, <1>10, <1>11, <1>12, <1>13, <1>14
  DEF Next, Advance

-----------------------------------------------------------------------------
(* The theorems.                                                           *)

\* The invariant, of the result files and of the records, in every state.
THEOREM Invariant == Spec => []Inv
<1>1. Init => Inv
  <2> SUFFICES ASSUME Init PROVE Inv OBVIOUS
  <2>1. RunInv BY RunInvInit
  <2>2. job.records = <<>> /\ files["result"].records = <<>> /\ files["partial"].records = <<>>
        /\ pc = "idle"
    BY DEF Init, NoJob, NoFile
  <2>3. ToSet(<<>>) = {} BY AsksNothing
  <2>4. ServedInv
    BY <2>2, <2>3 DEF ServedInv, RecordsServed, FilesServed, QueriesReady, RepairInv
  <2> QED BY <2>1, <2>4 DEF Inv
<1>2. Inv /\ [Next]_vars => Inv' BY RunInvStep, ServedInvStep DEF Inv
<1> QED BY <1>1, <1>2, PTL DEF Spec

LEMMA RecordShape ==
  ASSUME NEW r \in Records PROVE RecordOK(r)
BY DEF Records, RecordOK, Lacks, Metrics

LEMMA NoJobIsNone ==
  ASSUME NEW s, NEW j, Begun(s, j) PROVE j # NoJob
<1>1. NoJob.plan = <<>> BY DEF NoJob
<1>2. j.plan # <<>> BY DEF Begun
<1> QED BY <1>1, <1>2, Zenon

\* Type correctness of the evaluation scripts, for every dataset and number of faults.
THEOREM TypeCorrect == Spec => []TypeOK
<1>1. Inv => TypeOK
  <2> SUFFICES ASSUME Inv PROVE TypeOK OBVIOUS
  <2>1. /\ suite \in Suites /\ cache \in [Calls -> Kept \cup {"none", "torn"}]
        /\ sent \in BOOLEAN /\ faults \in 0..MaxFaults /\ JobAt(suite, pc, job)
        /\ \A f \in {"result", "partial"} : FileAt(suite, f, files[f])
    BY DEF Inv, RunInv
  <2>2. ASSUME NEW f \in {"result", "partial"}
        PROVE  /\ files[f].state \in {"none", "torn", "whole"}
               /\ files[f].state # "whole" => files[f] = [NoFile EXCEPT !.state = files[f].state]
               /\ \A i \in DOMAIN files[f].records : RecordOK(files[f].records[i])
    <3>1. PICK file : file = files[f] OBVIOUS
    <3>2. file \in ResultFiles /\ (file.state # "whole" => file = [NoFile EXCEPT !.state = file.state])
      BY <2>1, <3>1 DEF FileAt
    <3>3. file.state \in {"none", "torn", "whole"} /\ file.records \in Seq(Records)
      BY <3>2 DEF ResultFiles
    <3>4. \A i \in DOMAIN file.records : RecordOK(file.records[i]) BY <3>3, RecordShape
    <3> QED BY <3>1, <3>2, <3>3, <3>4
  <2>3. pc \in {"idle", "turn", "graph", "call", "repair", "open", "write"} BY <2>1 DEF JobAt
  <2>4. CASE pc = "idle"
    <3>1. job = NoJob BY <2>1, <2>4 DEF JobAt
    <3>2. /\ NoJob.records = <<>> /\ NoJob.at = 0 /\ NoJob.plan = <<>> /\ NoJob.ask = <<>>
      BY DEF NoJob
    <3>3. \A i \in DOMAIN job.records : RecordOK(job.records[i]) BY <3>1, <3>2
    <3>4. job.at \in 0..Len(job.plan)
      <4>1. Len(<<>>) = 0 OBVIOUS
      <4> QED BY <3>1, <3>2, <4>1
    <3>5. ToSet(job.ask) \subseteq Calls BY <3>1, <3>2, AsksNothing
    <3> QED BY <2>1, <2>2, <2>3, <2>4, <3>1, <3>3, <3>4, <3>5 DEF TypeOK
  <2>5. CASE pc # "idle"
    <3>1. PICK s : s = suite OBVIOUS
    <3>2. Begun(s, job) /\ job.at \in 0..Len(job.plan)
      <4>1. Looping(s, job) \/ Preparing(s, job) \/ Finished(s, job)
        BY <2>1, <2>5, <3>1 DEF JobAt
      <4>2. Begun(s, job) BY <4>1 DEF Looping, Preparing, Finished, Reaching
      <4>3. job.plan \in Seq(Units) BY <4>2, JobFields DEF Begun
      <4> QED BY <4>1, <4>2, <4>3 DEF Looping, Preparing, Finished
    <3>3. job # NoJob BY <3>2, NoJobIsNone
    <3>4. job.records \in Seq(Records) /\ job.ask \in Seq(Calls) BY <3>2, JobFields DEF Begun
    <3>5. \A i \in DOMAIN job.records : RecordOK(job.records[i]) BY <3>4, RecordShape
    <3>6. ToSet(job.ask) \subseteq Calls BY <3>4 DEF ToSet
    <3> QED BY <2>1, <2>2, <2>3, <2>5, <3>2, <3>3, <3>5, <3>6 DEF TypeOK
  <2> QED BY <2>4, <2>5
<1> QED BY <1>1, Invariant, PTL

\* A result file speaks for every unit of the plan its run had; what a stopped run leaves
\* under the other name is a proper part that ends with a whole case.
THEOREM ResultsCompleteHolds == Spec => []ResultsAreComplete
<1>1. Inv => ResultsAreComplete
  <2> SUFFICES ASSUME Inv PROVE ResultsAreComplete OBVIOUS
  <2>1. PICK s \in Suites : s = suite BY DEF Inv, RunInv
  <2>2. ASSUME files["result"].state = "whole"
        PROVE  LET units == UnitsOf(files["result"])
                   plan == files["result"].plan
               IN IF suite = "retrieval" THEN units # <<>> /\ InOrder(units, plan) ELSE units = plan
    <3>1. PICK file : file = files["result"] OBVIOUS
    <3>2. /\ file.records \in Seq(Records) /\ file.plan \in Seq(Units) /\ file.records # <<>>
          /\ Reports(s, file.records, file.plan, Len(file.plan))
      BY <2>1, <2>2, <3>1 DEF Inv, RunInv, FileAt, ResultFiles
    <3>3. PICK units : units = UnitsOf(file) OBVIOUS
    <3>4. /\ DOMAIN units = 1..Len(file.records) /\ Len(file.records) \in Nat
          /\ \A i \in 1..Len(file.records) : units[i] = file.records[i].unit
          /\ units \in [1..Len(file.records) -> Units] /\ Len(file.records) # 0
      <4>1. DOMAIN file.records = 1..Len(file.records) /\ Len(file.records) \in Nat BY <3>2
      <4>2. Len(file.records) # 0 BY <3>2
      <4>3. \A i \in 1..Len(file.records) : file.records[i] \in Records BY <3>2
      <4>4. \A i \in 1..Len(file.records) : file.records[i].unit \in Units BY <4>3 DEF Records
      <4> QED BY <3>3, <4>1, <4>2, <4>4 DEF UnitsOf
    <3>5. units \in Seq(Units) /\ Len(units) = Len(file.records) BY <3>4
    <3>6. CASE s = "retrieval"
      <4>1. PICK at \in [1..Len(file.records) -> 1..Len(file.plan)] :
              /\ \A i \in 1..Len(file.records) : file.records[i].unit = file.plan[at[i]]
              /\ \A i, k \in 1..Len(file.records) : i < k => at[i] < at[k]
        BY <3>2, <3>6 DEF Reports, Samples
      <4>2. DOMAIN file.plan = 1..Len(file.plan) BY <3>2
      <4>3. InOrder(units, file.plan) BY <3>4, <4>1, <4>2 DEF InOrder
      <4>4. units # <<>>
        <5>1. Len(<<>>) = 0 OBVIOUS
        <5> QED BY <3>4, <3>5, <5>1
      <4> QED BY <2>1, <3>1, <3>3, <3>6, <4>3, <4>4
    <3>7. CASE s # "retrieval"
      <4>1. /\ Len(file.records) = Len(file.plan)
            /\ \A i \in 1..Len(file.plan) : file.records[i].unit = file.plan[i]
        BY <3>2, <3>7 DEF Reports, Covers
      <4>2. units = file.plan BY <3>2, <3>4, <3>5, <4>1
      <4> QED BY <2>1, <3>1, <3>3, <3>7, <4>2
    <3> QED BY <3>6, <3>7
  <2>3. ASSUME files["partial"].state = "whole"
        PROVE  LET units == UnitsOf(files["partial"])
                   rest == SubSeq(files["partial"].plan, Len(units) + 1, Len(files["partial"].plan))
               IN /\ units # <<>> /\ rest # <<>>
                  /\ units \o rest = files["partial"].plan
                  /\ CaseOf[Last(units)] # CaseOf[Head(rest)]
    <3>1. PICK file : file = files["partial"] OBVIOUS
    <3>2. /\ file.records \in Seq(Records) /\ file.plan \in Seq(Units)
          /\ StopsShort(file.records, file.plan)
      BY <2>1, <2>3, <3>1 DEF Inv, RunInv, FileAt, ResultFiles
    <3>3. PICK n \in 1..Len(file.plan) - 1 :
            Covers(file.records, file.plan, n) /\ CaseOf[file.plan[n]] # CaseOf[file.plan[n + 1]]
      BY <3>2 DEF StopsShort
    <3>4. PICK units : units = UnitsOf(file) OBVIOUS
    <3>5. /\ DOMAIN units = 1..n /\ n \in Nat \ {0}
          /\ \A i \in 1..n : units[i] = file.plan[i]
          /\ units \in [1..n -> Units]
      BY <3>2, <3>3, <3>4 DEF UnitsOf, Records, Covers
    <3>6. units \in Seq(Units) /\ Len(units) = n BY <3>5
    <3>7. PICK rest : rest = SubSeq(file.plan, n + 1, Len(file.plan)) OBVIOUS
    <3>8. /\ rest \in Seq(Units) /\ Len(rest) = Len(file.plan) - n
          /\ \A i \in 1..Len(rest) : rest[i] = file.plan[n + i]
      BY <3>2, <3>3, <3>7
    <3>9. Len(rest) >= 1 BY <3>2, <3>3, <3>8
    <3>10. units # <<>> /\ rest # <<>>
      <4>1. Len(<<>>) = 0 OBVIOUS
      <4> QED BY <3>5, <3>6, <3>9, <4>1
    <3>11. units \o rest = file.plan
      <4>1. /\ units \o rest \in Seq(Units)
            /\ Len(units \o rest) = Len(units) + Len(rest)
            /\ \A i \in 1..Len(units) : (units \o rest)[i] = units[i]
            /\ \A i \in 1..Len(rest) : (units \o rest)[Len(units) + i] = rest[i]
        <5>1. units \in Seq(Units) /\ rest \in Seq(Units) BY <3>6, <3>8
        <5>2. PICK p \in Seq(Units) : p = units BY <5>1
        <5>3. PICK q \in Seq(Units) : q = rest BY <5>1
        <5>4. /\ p \o q \in Seq(Units)
              /\ Len(p \o q) = Len(p) + Len(q)
              /\ \A i \in 1..Len(p) : (p \o q)[i] = p[i]
              /\ \A i \in 1..Len(q) : (p \o q)[Len(p) + i] = q[i]
          BY ConcatElements
        <5> QED BY <5>2, <5>3, <5>4
      <4>2. PICK both \in Seq(Units) : both = units \o rest BY <4>1
      <4>3. Len(both) = Len(file.plan) BY <3>2, <3>3, <3>6, <3>8, <4>1, <4>2
      <4>4. ASSUME NEW i \in 1..Len(file.plan) PROVE both[i] = file.plan[i]
        <5>1. CASE i <= n
          <6>1. i \in 1..Len(units) BY <3>2, <3>6, <5>1
          <6> QED BY <3>5, <3>6, <4>1, <4>2, <6>1
        <5>2. CASE i > n
          <6>1. i - n \in 1..Len(rest) /\ n + (i - n) = i BY <3>2, <3>3, <3>8, <5>2
          <6> QED BY <3>6, <3>8, <4>1, <4>2, <6>1
        <5> QED BY <3>3, <5>1, <5>2
      <4>5. both = file.plan BY <3>2, <4>3, <4>4
      <4> QED BY <4>2, <4>5
    <3>12. CaseOf[Last(units)] # CaseOf[Head(rest)]
      <4>1. Last(units) = file.plan[n] BY <3>5, <3>6 DEF Last
      <4>2. Head(rest) = file.plan[n + 1]
        <5>1. Head(rest) = rest[1] /\ 1 \in 1..Len(rest) BY <3>8, <3>9, <3>10
        <5> QED BY <3>8, <5>1
      <4> QED BY <3>3, <4>1, <4>2
    <3> QED BY <3>1, <3>4, <3>6, <3>7, <3>10, <3>11, <3>12
  <2> QED BY <2>2, <2>3 DEF ResultsAreComplete
<1> QED BY <1>1, Invariant, PTL

-----------------------------------------------------------------------------
(* The numbers of a record.                                                *)

\* What can be kept of the judge's word on relevance.
RelevanceKept ==
  \A said \in Said : cache[<<"relev", said, 0>>] \in {"none", "torn", "valid", "malformed"}

LEMMA RelevanceUpdate ==
  ASSUME CacheOK, RelevanceKept, NEW call, NEW kept, cache' = [cache EXCEPT ![call] = kept],
         call[1] = "relev" => kept \in {"none", "torn", "valid", "malformed"}
  PROVE  RelevanceKept'
<1>1. ASSUME NEW said \in Said
      PROVE  cache'[<<"relev", said, 0>>] \in {"none", "torn", "valid", "malformed"}
  <2>1. PICK c \in Calls : c = <<"relev", said, 0>> BY CallsOfUnit DEF AskTags
  <2>2. c[1] = "relev" BY <2>1
  <2>3. cache'[c] = IF c = call THEN kept ELSE cache[c] BY DEF CacheOK
  <2> QED BY <2>1, <2>2, <2>3 DEF RelevanceKept
<1> QED BY <1>1 DEF RelevanceKept

LEMMA RelevanceStep ==
  ASSUME Inv, RelevanceKept, [Next]_vars
  PROVE  RelevanceKept'
<1>1. CacheOK BY ServedParts
<1>2. UNCHANGED cache => RelevanceKept' BY DEF RelevanceKept
<1>3. CASE Generate
  <2>1. PICK call : call = <<"turn", Unit, 0>> OBVIOUS
  <2>2. call[1] # "relev" BY <2>1
  <2> QED BY <1>1, <1>2, <1>3, <2>1, <2>2, RelevanceUpdate DEF Generate
<1>4. CASE Ask
  <2>1. PICK call : call = Head(job.ask) OBVIOUS
  <2>2. ASSUME NEW reply \in Replies(call) PROVE call[1] = "relev" => reply = "valid"
    BY <2>2 DEF Replies
  <2> QED BY <1>1, <1>2, <1>4, <2>1, <2>2, RelevanceUpdate DEF Ask
<1>5. CASE Repair BY <1>1, <1>2, <1>5, RelevanceUpdate DEF Repair
<1>6. CASE Die BY <1>1, <1>2, <1>6, RelevanceUpdate DEF Die
<1>7. CASE \E plan \in Plans[suite], keep, judged \in BOOLEAN : Start(plan, keep, judged)
  BY <1>2, <1>7 DEF Start
<1>8. CASE Screen \/ RunGraph \/ Retrieve \/ Read \/ Score \/ OpenResult \/ WriteResult
  BY <1>2, <1>8 DEF Screen, RunGraph, Retrieve, Read, Score, OpenResult, WriteResult
<1>9. CASE UNCHANGED vars BY <1>2, <1>9 DEF vars
<1> QED
  BY <1>3, <1>4, <1>5, <1>6, <1>7, <1>8, <1>9 DEF Next, Advance

\* What the calls behind a record say about its numbers.
LEMMA ClaimsOfDone ==
  ASSUME NEW said \in Said, \A call \in ClaimsOf(said) : Done(call)
  PROVE  \A n \in Claims(said) : cache[<<"claim", said, n>>] = "valid"
<1>1. ASSUME NEW n \in Claims(said) PROVE cache[<<"claim", said, n>>] = "valid"
  <2>1. PICK call : call = <<"claim", said, n>> OBVIOUS
  <2>2. call \in ClaimsOf(said) BY <2>1 DEF ClaimsOf
  <2>3. Done(call) BY <2>2
  <2>4. call[1] = "claim" BY <2>1
  <2>5. Accepts(call, cache[call]) BY <2>3, <2>4 DEF Done, Spared
  <2>6. cache[call] = "valid" BY <2>4, <2>5 DEF Accepts
  <2> QED BY <2>1, <2>6
<1> QED BY <1>1

LEMMA GroundingOfDone ==
  ASSUME NEW said \in Said, \A call \in GroundingOf(said) : Done(call)
  PROVE  cache[<<"decomp", said, 0>>] = "valid" => cache[<<"support", said, 0>>] = "valid"
<1>1. ASSUME cache[<<"decomp", said, 0>>] = "valid" PROVE cache[<<"support", said, 0>>] = "valid"
  <2>1. PICK call : call = <<"support", said, 0>> OBVIOUS
  <2>2. Done(call) BY <2>1 DEF GroundingOf
  <2>3. call[1] = "support" /\ call[2] = said BY <2>1
  <2>4. ~Spared(call) BY <1>1, <2>3 DEF Spared
  <2>5. Accepts(call, cache[call]) BY <2>2, <2>4 DEF Done
  <2>6. cache[call] = "valid" BY <2>3, <2>5 DEF Accepts, SupportReads
  <2> QED BY <2>1, <2>6
<1> QED BY <1>1

LEMMA RelevanceDone ==
  ASSUME NEW said \in Said, Done(<<"relev", said, 0>>), RelevanceKept
  PROVE  cache[<<"relev", said, 0>>] \in {"valid", "malformed"}
<1>1. PICK call : call = <<"relev", said, 0>> OBVIOUS
<1>2. call[1] = "relev" BY <1>1
<1>3. cache[call] # "none" /\ cache[call] # "torn"
  BY <1>1, <1>2 DEF Done, Spared, Accepts, RelevanceReads
<1> QED BY <1>1, <1>3 DEF RelevanceKept

LEMMA ResponseDone ==
  ASSUME NEW said, Done(<<"response", said, 0>>)
  PROVE  cache[<<"response", said, 0>>] = "valid"
<1>1. PICK call : call = <<"response", said, 0>> OBVIOUS
<1>2. call[1] = "response" BY <1>1
<1> QED BY <1>1, <1>2 DEF Done, Spared, Accepts

\* What the numbers of a record with these metrics rest on.
Judgements(said, metrics) ==
  /\ "recall" \in metrics =>
       \A n \in 1..Required[said[1]] : cache[<<"claim", said, n>>] = "valid"
  /\ "forbidden" \in metrics =>
       \A n \in Required[said[1]] + 1..Required[said[1]] + Forbidden[said[1]] :
         cache[<<"claim", said, n>>] = "valid"
  /\ "grounded" \in metrics =>
       cache[<<"decomp", said, 0>>] = "valid" /\ cache[<<"support", said, 0>>] = "valid"
  /\ "relevant" \in metrics => cache[<<"relev", said, 0>>] \in {"valid", "malformed"}
  /\ "response" \in metrics =>
       said[2] \notin {"answer", "guarded"} \/ cache[<<"response", said, 0>>] = "valid"

ClaimsDone(said) == \A n \in Claims(said) : cache[<<"claim", said, n>>] = "valid"

GroundsDone(said) ==
  cache[<<"decomp", said, 0>>] = "valid" => cache[<<"support", said, 0>>] = "valid"

RelationDone(said) == cache[<<"relev", said, 0>>] \in {"valid", "malformed"}

AnswerDone(said) ==
  said[2] \in {"answer", "guarded"} => cache[<<"response", said, 0>>] = "valid"

LEMMA ScoresJudgements ==
  ASSUME NEW said \in Said, NEW metrics,
         "recall" \in metrics \/ "forbidden" \in metrics => ClaimsDone(said),
         "grounded" \in metrics => GroundsDone(said) /\ "grounded" \in ScoreMeasures(said),
         "relevant" \in metrics => RelationDone(said),
         "response" \in metrics => AnswerDone(said)
  PROVE  Judgements(said, metrics)
<1>1. Required[said[1]] \in Nat /\ Forbidden[said[1]] \in Nat
      /\ Claims(said) = 1..Required[said[1]] + Forbidden[said[1]]
  BY ClaimsAreFinite
<1>2. ClaimsDone(said) => \A n \in 1..Required[said[1]] : cache[<<"claim", said, n>>] = "valid"
  BY <1>1 DEF ClaimsDone
<1>3. ClaimsDone(said) =>
        \A n \in Required[said[1]] + 1..Required[said[1]] + Forbidden[said[1]] :
          cache[<<"claim", said, n>>] = "valid"
  BY <1>1 DEF ClaimsDone
<1>4. "grounded" \in ScoreMeasures(said) => cache[<<"decomp", said, 0>>] = "valid"
  BY DEF ScoreMeasures
<1> QED BY <1>2, <1>3, <1>4 DEF Judgements, GroundsDone, RelationDone, AnswerDone

LEMMA ClassificationDone ==
  ASSUME NEW said \in Said, \A call \in ToSet(Classification(said)) : Done(call)
  PROVE  AnswerDone(said)
<1>1. said[2] \in {"answer", "guarded"} => <<"response", said, 0>> \in ToSet(Classification(said))
  BY AsksClassification
<1> QED BY <1>1, ResponseDone DEF AnswerDone

LEMMA ClaimCallsDone ==
  ASSUME NEW said \in Said, \A call \in ToSet(ClaimCalls(said)) : Done(call)
  PROVE  ClaimsDone(said)
<1>1. \A call \in ClaimsOf(said) : Done(call) BY AsksClaims DEF ClaimsOf
<1> QED BY <1>1, ClaimsOfDone DEF ClaimsDone

LEMMA GroundingDone ==
  ASSUME NEW said \in Said, \A call \in ToSet(Grounding(said)) : Done(call)
  PROVE  GroundsDone(said)
<1>1. \A call \in GroundingOf(said) : Done(call) BY AsksGrounding DEF GroundingOf
<1> QED BY <1>1, GroundingOfDone DEF GroundsDone

LEMMA WholeScoringDone ==
  ASSUME NEW said \in Said, RelevanceKept,
         \A call \in ToSet(Classification(said) \o Scoring(said)) : Done(call)
  PROVE  ClaimsDone(said) /\ GroundsDone(said) /\ RelationDone(said) /\ AnswerDone(said)
<1>1. ToSet(Classification(said) \o Scoring(said)) = ToSet(Classification(said)) \cup ToSet(Scoring(said))
  BY AsksClassification, AsksScoring, AsksJoin
<1>2. \A call \in ClaimsOf(said) \cup GroundingOf(said) \cup {<<"relev", said, 0>>} : Done(call)
  BY <1>1, AsksScoring
<1>3. AnswerDone(said) BY <1>1, ClassificationDone
<1>4. ClaimsDone(said) /\ GroundsDone(said) BY <1>2, ClaimsOfDone, GroundingOfDone DEF ClaimsDone, GroundsDone
<1>5. RelationDone(said) BY <1>2, RelevanceDone DEF RelationDone
<1> QED BY <1>3, <1>4, <1>5

LEMMA RetryDone ==
  ASSUME NEW said \in Said, \A call \in ToSet(RetryAssessment(said)) : Done(call)
  PROVE  /\ said[2] \in {"answer", "guarded"} => ClaimsDone(said) /\ AnswerDone(said)
         /\ said[2] = "answer" => GroundsDone(said)
<1>1. ToSet((ClaimCalls(said) \o Grounding(said)) \o Classification(said))
        = ToSet(ClaimCalls(said)) \cup ToSet(Grounding(said)) \cup ToSet(Classification(said))
  BY AsksClaims, AsksGrounding, AsksClassification, AsksJoin
<1>2. ToSet(ClaimCalls(said) \o Classification(said))
        = ToSet(ClaimCalls(said)) \cup ToSet(Classification(said))
  BY AsksClaims, AsksClassification, AsksJoin
<1>3. CASE said[2] = "answer"
  <2>1. RetryAssessment(said) = (ClaimCalls(said) \o Grounding(said)) \o Classification(said)
    BY <1>3 DEF RetryAssessment
  <2> QED BY <1>1, <1>3, <2>1, ClaimCallsDone, GroundingDone, ClassificationDone
<1>4. CASE said[2] = "guarded"
  <2>1. RetryAssessment(said) = ClaimCalls(said) \o Classification(said)
    BY <1>4 DEF RetryAssessment
  <2> QED BY <1>2, <1>4, <2>1, ClaimCallsDone, ClassificationDone
<1> QED BY <1>3, <1>4

\* A record that is served has no number without its judgements.
LEMMA ServedIsJudged ==
  ASSUME RelevanceKept, suite \in Suites, NEW r \in Records, Served(r)
  PROVE  Judgements(<<r.unit, r.status>>, r.metrics)
<1>1. PICK said : said = <<r.unit, r.status>> OBVIOUS
<1>2. CASE r.lack # "none" BY <1>2 DEF Served, Judgements
<1>3. CASE r.lack = "none"
  <2>1. PICK metrics : metrics = r.metrics OBVIOUS
  <2>2. (\A call \in ToSet(Assessment(said, TRUE)) : Done(call)) /\ metrics \subseteq Measures(said)
    BY <1>1, <1>3, <2>1 DEF Served, Wanted, Asked
  <2>3. CASE said \notin Said
    <3>1. said[2] \notin {"answer", "guarded"} /\ r.unit \in Units BY <1>1, <2>3 DEF Said, Records
    <3>2. metrics \subseteq {"response"} BY <2>2, <2>3, <3>1 DEF Measures, RetryMeasures
    <3>3. Judgements(said, metrics) BY <3>1, <3>2 DEF Judgements
    <3> QED BY <1>1, <2>1, <3>3
  <2>4. CASE said \in Said
    <3>1. CASE suite = "retry"
      <4>1. \A call \in ToSet(RetryAssessment(said)) : Done(call) BY <2>2, <2>4, <3>1 DEF Assessment
      <4>2. metrics \subseteq RetryMeasures(said) BY <2>2, <3>1 DEF Measures
      <4>3. Judgements(said, metrics)
        <5>1. "recall" \in metrics \/ "forbidden" \in metrics => ClaimsDone(said)
          BY <2>4, <4>1, <4>2, RetryDone DEF RetryMeasures
        <5>2. "grounded" \in metrics => GroundsDone(said) /\ "grounded" \in ScoreMeasures(said)
          BY <2>4, <4>1, <4>2, RetryDone DEF RetryMeasures
        <5>3. "relevant" \notin metrics
          BY <4>2 DEF RetryMeasures
        <5>4. AnswerDone(said)
          BY <2>4, <4>1, RetryDone DEF AnswerDone
        <5> QED BY <2>4, <5>1, <5>2, <5>3, <5>4, ScoresJudgements
      <4> QED BY <1>1, <2>1, <4>3
    <3>2. CASE suite = "retrieval"
      <4>1. metrics = {} BY <2>2, <3>2 DEF Measures
      <4>2. Judgements(said, metrics) BY <4>1 DEF Judgements
      <4> QED BY <1>1, <2>1, <4>2
    <3>3. ASSUME Assessment(said, TRUE) = Classification(said) \o Scoring(said),
                 metrics \subseteq {"response"} \cup ScoreMeasures(said)
          PROVE  Judgements(said, metrics)
      <4>1. ClaimsDone(said) /\ GroundsDone(said) /\ RelationDone(said) /\ AnswerDone(said)
        BY <2>2, <2>4, <3>3, WholeScoringDone
      <4>2. "grounded" \in metrics => "grounded" \in ScoreMeasures(said) BY <3>3
      <4> QED BY <2>4, <4>1, <4>2, ScoresJudgements
    <3>4. CASE suite = "generation"
      <4>1. Assessment(said, TRUE) = Classification(said) \o Scoring(said)
        BY <2>4, <3>4 DEF Assessment
      <4>2. metrics \subseteq {"response"} \cup ScoreMeasures(said) BY <2>2, <2>4, <3>4 DEF Measures
      <4> QED BY <1>1, <2>1, <3>3, <4>1, <4>2
    <3>5. CASE suite = "conversation" /\ Required[said[1]] = 0
      <4>1. Assessment(said, TRUE) = Classification(said) \o <<>>
        BY <2>4, <3>5 DEF Assessment, ConversationAssessment
      <4>2. ToSet(Classification(said) \o <<>>) = ToSet(Classification(said)) \cup {}
        BY <2>4, AsksClassification, AsksNothing, AsksJoin
      <4>3. AnswerDone(said) BY <2>2, <2>4, <4>1, <4>2, ClassificationDone
      <4>4. metrics \subseteq {"response"} BY <2>2, <2>4, <3>5 DEF Measures
      <4>5. Judgements(said, metrics) BY <2>4, <4>3, <4>4, ScoresJudgements
      <4> QED BY <1>1, <2>1, <4>5
    <3>6. CASE suite = "conversation" /\ Required[said[1]] # 0
      <4>1. Assessment(said, TRUE) = Classification(said) \o Scoring(said)
        BY <2>4, <3>6 DEF Assessment, ConversationAssessment
      <4>2. metrics \subseteq {"response"} \cup ScoreMeasures(said) BY <2>2, <2>4, <3>6 DEF Measures
      <4> QED BY <1>1, <2>1, <3>3, <4>1, <4>2
    <3>7. CASE suite = "comparison" /\ (said[2] = "guarded" \/ Required[said[1]] = 0)
      <4>1. metrics = {} BY <2>2, <2>4, <3>7 DEF Measures
      <4>2. Judgements(said, metrics) BY <4>1 DEF Judgements
      <4> QED BY <1>1, <2>1, <4>2
    <3>8. CASE suite = "comparison" /\ ~(said[2] = "guarded" \/ Required[said[1]] = 0)
      <4>1. Assessment(said, TRUE) = Classification(said) \o Scoring(said)
        BY <2>4, <3>8 DEF Assessment, ComparisonAssessment
      <4>2. metrics \subseteq {"response"} \cup ScoreMeasures(said) BY <2>2, <2>4, <3>8 DEF Measures
      <4> QED BY <1>1, <2>1, <3>3, <4>1, <4>2
    <3> QED BY <3>1, <3>2, <3>4, <3>5, <3>6, <3>7, <3>8, SuitesAreScripts
  <2> QED BY <2>3, <2>4
<1> QED BY <1>2, <1>3

\* A number in a record rests on judgements that passed their validation, all of them,
\* in this run or in one before it; the judge's word on relevance is the exception.
THEOREM ScoresJudgedHolds == Spec => []ScoresAreJudged
<1>1. Init => RelevanceKept
  <2>1. \A said \in Said : <<"relev", said, 0>> \in Calls BY CallsOfUnit DEF AskTags
  <2> QED BY <2>1 DEF Init, RelevanceKept
<1>2. Inv /\ RelevanceKept /\ [Next]_vars => RelevanceKept' BY RelevanceStep
<1>3. Inv /\ RelevanceKept => ScoresAreJudged
  <2> SUFFICES ASSUME Inv, RelevanceKept,
                      NEW r \in ToSet(job.records) \cup ToSet(files["result"].records)
                                 \cup ToSet(files["partial"].records)
               PROVE  Judgements(<<r.unit, r.status>>, r.metrics)
    BY DEF ScoresAreJudged, Judgements
  <2>1. r \in Records /\ Served(r) BY ServedParts DEF RecordsServed, FilesServed
  <2>2. suite \in Suites BY DEF Inv, RunInv
  <2> QED BY <2>1, <2>2, ServedIsJudged
<1> QED BY <1>1, <1>2, <1>3, Invariant, PTL DEF Spec

-----------------------------------------------------------------------------
(* A run of a suite that stands whole.                                     *)

\* A whole result stands, of a suite that keeps all its answers.
Settled == suite \in {"generation", "retrieval"} /\ WholeResult

LEMMA SettledUnit ==
  ASSUME Inv, Settled, NEW u \in ToSet(Plan[suite])
  PROVE  \E r \in Records : r.unit = u /\ Served(r) /\ r.lack = "none"
<1> DEFINE records == files["result"].records
<1>1. records \in Seq(Records) BY DEF Inv, RunInv, FileAt, ResultFiles
<1>2. [i \in DOMAIN records |-> records[i].unit] = Plan[suite] BY DEF Settled, WholeResult, UnitsOf
<1>3. Plan[suite] \in Seq(Units) BY PlansHaveUnits DEF Inv, RunInv
<1>4. DOMAIN records = DOMAIN Plan[suite] BY <1>2, Zenon
<1>5. PICK i \in DOMAIN Plan[suite] : u = Plan[suite][i] BY <1>3 DEF ToSet
<1>6. records[i].unit = u BY <1>2, <1>4, <1>5
<1>7. records[i] \in ToSet(records) /\ records[i] \in Records BY <1>1, <1>4 DEF ToSet
<1>8. Served(records[i]) BY <1>7, ServedParts DEF FilesServed
<1>9. records[i].lack = "none" BY <1>7 DEF Settled, WholeResult
<1> QED BY <1>6, <1>7, <1>8, <1>9

LEMMA SettledTurn ==
  ASSUME Inv, Settled, pc = "turn" \/ (pc \in {"call", "repair"} /\ job.at # 0)
  PROVE  \E r \in Records :
           /\ r.unit = Unit /\ Unit \in Units
           /\ \A call \in Wanted(<<Unit, r.status>>) : Done(call)
           /\ suite = "generation" =>
                r.status \in {"answer", "empty"} /\ cache[<<"turn", Unit, 0>>] = r.status
<1>1. Looping(suite, job) BY DEF Inv, RunInv, JobAt, Preparing
<1>2. PICK plan, at : plan = job.plan /\ at = job.at OBVIOUS
<1>3. plan \in Seq(Units) /\ at \in 1..Len(plan) /\ ToSet(plan) \subseteq ToSet(Plan[suite])
  <2>1. job \in Jobs /\ job.at \in 1..Len(job.plan) /\ ToSet(job.plan) \subseteq ToSet(Plan[suite])
    BY <1>1 DEF Looping, Reaching, Begun
  <2>2. job.plan \in Seq(Units) BY <2>1, JobFields
  <2> QED BY <1>2, <2>1, <2>2
<1>4. plan[at] \in ToSet(plan) /\ plan[at] \in Units BY <1>3 DEF ToSet
<1>5. PICK u \in Units : u = Unit /\ u \in ToSet(Plan[suite]) BY <1>2, <1>3, <1>4 DEF Unit
<1>6. PICK r \in Records : r.unit = u /\ Served(r) /\ r.lack = "none"
  BY <1>5, SettledUnit
<1>7. \A call \in Wanted(<<u, r.status>>) : Done(call) BY <1>6 DEF Served
<1>8. suite = "generation" =>
        r.status \in {"answer", "empty"} /\ cache[<<"turn", u, 0>>] = r.status
  BY <1>6 DEF Served
<1> QED BY <1>5, <1>6, <1>7, <1>8

\* Every judgement such a run comes to is kept.
LEMMA SettledAsk ==
  ASSUME Inv, Settled, pc \in {"call", "repair"}, job.ask # <<>>
  PROVE  cache[Head(job.ask)] # "none"
<1>1. AskInv /\ StatusInv /\ job.ask \in Seq(Calls) BY ServedParts, JobFields
<1>2. PICK q \in Seq(Calls) : q = job.ask BY <1>1
<1>3. PICK call : call = Head(job.ask) OBVIOUS
<1>4. call = q[1] /\ 1 \in DOMAIN q BY <1>2, <1>3
<1>5. call \in Due BY <1>1, <1>2, <1>4 DEF AskInv, ToSet
<1>6. Done(call)
  <2>1. CASE job.at = 0
    <3>1. suite = "retrieval" BY <2>1 DEF Inv, RunInv, JobAt, Looping, Preparing
    <3>2. Plan[suite] \in Seq(Units) /\ Plan[suite] # <<>> BY PlansHaveUnits DEF Inv, RunInv
    <3>3. Plan[suite][1] \in ToSet(Plan[suite]) BY <3>2 DEF ToSet
    <3>4. PICK r \in Records : Served(r) /\ r.lack = "none" BY <3>3, SettledUnit
    <3>5. call \in Wanted(<<r.unit, r.status>>) BY <1>5, <2>1, <3>1 DEF Due, Wanted
    <3> QED BY <3>4, <3>5 DEF Served
  <2>2. CASE job.at # 0
    <3>1. PICK r \in Records :
            /\ r.unit = Unit /\ Unit \in Units
            /\ \A c \in Wanted(<<Unit, r.status>>) : Done(c)
            /\ suite = "generation" =>
                 r.status \in {"answer", "empty"} /\ cache[<<"turn", Unit, 0>>] = r.status
      BY <2>2, SettledTurn
    <3>2. Asked(<<Unit, job.status>>) = Asked(<<Unit, r.status>>)
      <4>1. CASE suite = "retrieval"
        <5>1. \A st : Asked(<<Unit, st>>) = ToSet(<<>>) \cup ToSet(Retrieval(Unit))
          BY <4>1 DEF Asked, Assessment
        <5> QED BY <5>1
      <4>2. CASE suite = "generation" BY <1>1, <3>1, <4>2 DEF StatusInv
      <4> QED BY <4>1, <4>2 DEF Settled
    <3> QED BY <1>5, <2>2, <3>1, <3>2 DEF Due, Wanted
  <2> QED BY <2>1, <2>2
<1>7. ~Spared(call)
  <2>1. call[1] = "support" => cache[<<"decomp", call[2], 0>>] = "valid"
    BY <1>1, <1>2, <1>4 DEF AskInv, Paired
  <2> QED BY <2>1 DEF Spared
<1> QED BY <1>3, <1>6, <1>7 DEF Done

\* A file that stands whole was so before the step, or the run ends with it.
LEMMA WholeBefore ==
  ASSUME Inv, [Next]_vars, WholeResult', pc' # "idle"
  PROVE  suite' = suite /\ WholeResult
<1>1. suite' = suite BY CacheGrows
<1>2. UNCHANGED <<suite, files>> => WholeResult BY DEF WholeResult, UnitsOf
<1>3. CASE UNCHANGED files BY <1>1, <1>2, <1>3
<1>4. CASE OpenResult
  <2>1. PICK f \in {"result", "partial"} : f = Destination(job) BY DEF Destination
  <2>2. PICK torn : torn = [NoFile EXCEPT !.state = "torn"] OBVIOUS
  <2>3. files' = [files EXCEPT ![f] = torn] /\ DOMAIN files = {"result", "partial"}
    BY <1>4, <2>1, <2>2 DEF OpenResult, Inv, RunInv
  <2>4. torn.state = "torn" BY <2>2 DEF NoFile
  <2>5. f = "partial"
    <3>1. files'["result"].state = "whole" BY DEF WholeResult
    <3> QED BY <2>3, <2>4, <3>1
  <2>6. files'["result"] = files["result"] BY <2>3, <2>5
  <2> QED BY <1>1, <2>6 DEF WholeResult, UnitsOf
<1>5. CASE WriteResult BY <1>5 DEF WriteResult, Exit, Become, Goto
<1>6. CASE \E plan \in Plans[suite], keep, judged \in BOOLEAN : Start(plan, keep, judged)
  BY <1>3, <1>6 DEF Start
<1>7. CASE Generate \/ Screen \/ RunGraph \/ Retrieve
  BY <1>3, <1>7 DEF Generate, Screen, RunGraph, Retrieve
<1>8. CASE Read \/ Ask \/ Repair \/ Score \/ Die BY <1>3, <1>8 DEF Read, Ask, Repair, Score, Die
<1>9. CASE UNCHANGED vars BY <1>3, <1>9 DEF vars
<1> QED BY <1>4, <1>5, <1>6, <1>7, <1>8, <1>9 DEF Next, Advance

\* While a whole result of the generation suite stands, or of the retrieval suite, a run of
\* it has not sent a single request.
THEOREM ReRunIsFreeHolds == Spec => []ReRunIsFree
<1>1. Init => ReRunIsFree BY DEF Init, ReRunIsFree
<1>2. Inv /\ ReRunIsFree /\ [Next]_vars => ReRunIsFree'
  <2> SUFFICES ASSUME Inv, ReRunIsFree, [Next]_vars PROVE ReRunIsFree'
    OBVIOUS
  <2>0. sent \in BOOLEAN /\ sent' \in BOOLEAN
    <3>1. sent \in BOOLEAN BY DEF Inv, RunInv
    <3> QED BY <3>1, SentType
  <2> SUFFICES ASSUME suite' \in {"generation", "retrieval"}, WholeResult', pc' # "idle"
               PROVE  sent' = FALSE
    BY <2>0 DEF ReRunIsFree
  <2>1. Settled BY WholeBefore DEF Settled
  <2>2. suite \notin ThroughGraph BY <2>1 DEF Settled, ThroughGraph
  <2>3. pc # "idle" => sent = FALSE BY <2>0, <2>1 DEF ReRunIsFree, Settled
  <2>4. CASE \E plan \in Plans[suite], keep, judged \in BOOLEAN : Start(plan, keep, judged)
    BY <2>4 DEF Start
  <2>5. CASE Generate
    <3>1. cache[<<"turn", Unit, 0>>] # "none" BY <2>1, <2>5, SettledTurn DEF Generate
    <3>2. sent' = sent BY <2>5, <3>1 DEF Generate
    <3> QED BY <2>3, <2>5, <3>2 DEF Generate
  <2>6. CASE Screen BY <2>2, <2>6 DEF Screen
  <2>7. CASE Ask BY <2>1, <2>7, SettledAsk DEF Ask
  <2>8. CASE Repair
    <3>1. job.ask # <<>> /\ cache[Head(job.ask)] = "none" /\ pc = "repair"
      BY <2>8 DEF Inv, ServedInv, RepairInv, Repair
    <3> QED BY <2>1, <3>1, SettledAsk
  <2>9. CASE RunGraph \/ Retrieve \/ Read \/ Score BY <2>3, <2>9 DEF RunGraph, Retrieve, Read, Score
  <2>10. CASE OpenResult \/ WriteResult \/ Die
    BY <2>3, <2>10 DEF OpenResult, WriteResult, Die
  <2>11. CASE UNCHANGED vars BY <2>3, <2>11 DEF vars
  <2> QED
    BY <2>4, <2>5, <2>6, <2>7, <2>8, <2>9, <2>10, <2>11 DEF Next, Advance
<1> QED BY <1>1, <1>2, Invariant, PTL DEF Spec

=============================================================================
