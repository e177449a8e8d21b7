---------------------------- MODULE IngestionProofs ----------------------------
(***************************************************************************)
(* Theorems about ingestion, for every manual, every corpus and any number *)
(* of operators, jobs, edits and faults.  What the chunker computes is a   *)
(* fold over a manual; each fold is proved to be a run of its step         *)
(* (...Runs), and what holds along a run is proved by its least exception. *)
(***************************************************************************)
EXTENDS Ingestion, FiniteSetTheorems, SequenceTheorems, WellFoundedInduction, TLAPS

-----------------------------------------------------------------------------
(* Numbers and folds.                                                      *)

\* A set of numbers that is not empty has a least one.
LEMMA LeastNat ==
  ASSUME NEW S \in SUBSET Nat, S # {}
  PROVE  \E m \in S : \A n \in S : m <= n
<1> DEFINE T == {0..m : m \in S}
<1>1. IsWellFoundedOn(StrictSubsetOrdering(Nat), FiniteSubsetsOf(Nat))
  BY FS_StrictSubsetOrderingWellFounded
<1>2. T \subseteq FiniteSubsetsOf(Nat)
  <2>1. \A m \in S : IsFiniteSet(0..m) BY FS_Interval
  <2>2. \A m \in S : 0..m \subseteq Nat OBVIOUS
  <2> QED BY <2>1, <2>2 DEF FiniteSubsetsOf
<1>3. T # {} OBVIOUS
<1>4. PICK x \in T : \A y \in T : <<y, x>> \notin StrictSubsetOrdering(Nat)
  <2> HIDE DEF T
  <2> QED BY <1>1, <1>2, <1>3, WFMin
<1>5. PICK m \in S : x = 0..m BY <1>4
<1>6. ASSUME NEW n \in S, n < m PROVE FALSE
  <2>1. 0..n \subseteq 0..m /\ 0..n # 0..m /\ 0..n \subseteq Nat /\ 0..m \subseteq Nat BY <1>6
  <2>2. <<0..n, 0..m>> \in StrictSubsetOrdering(Nat) BY <2>1 DEF StrictSubsetOrdering
  <2> QED BY <2>2, <1>4, <1>5
<1> QED BY <1>5, <1>6

\* What holds at 0 and is handed on from one number to the next holds up to n.
LEMMA UpTo ==
  ASSUME NEW n \in Nat, NEW S, 0 \in S, \A k \in 1..n : k - 1 \in S => k \in S
  PROVE  \A k \in 0..n : k \in S
<1> DEFINE bad == {k \in 0..n : k \notin S}
<1>1. CASE bad = {} BY <1>1
<1>2. CASE bad # {}
  <2>1. bad \in SUBSET Nat OBVIOUS
  <2>2. PICK k \in bad : \A j \in bad : k <= j
    <3> HIDE DEF bad
    <3> QED BY <1>2, <2>1, LeastNat
  <2>3. k \in 1..n /\ k \notin S OBVIOUS
  <2>4. k - 1 \in S BY <2>2, <2>3
  <2> QED BY <2>3, <2>4
<1> QED BY <1>1, <1>2

\* The greatest number of an interval, and of a set that reaches up to it.
LEMMA Greatest ==
  ASSUME NEW k \in Nat
  PROVE  /\ Max(1..k + 1) = k + 1 /\ (1..k + 1) \ {k + 1} = 1..k
         /\ \A s \in SUBSET (1..k + 1) :
              /\ k + 1 \in s => Max(s) = k + 1 /\ s \ {k + 1} \in SUBSET (1..k)
              /\ k + 1 \notin s => s \in SUBSET (1..k)
<1>1. ASSUME NEW s \in SUBSET (1..k + 1), k + 1 \in s PROVE Max(s) = k + 1
  <2>1. \A y \in s : k + 1 >= y BY <1>1
  <2>2. \A x \in s : (\A y \in s : x >= y) => x = k + 1 BY <1>1
  <2> QED BY <1>1, <2>1, <2>2 DEF Max
<1>2. 1..k + 1 \in SUBSET (1..k + 1) /\ k + 1 \in 1..k + 1 OBVIOUS
<1>3. Max(1..k + 1) = k + 1 BY <1>1, <1>2
<1>4. (1..k + 1) \ {k + 1} = 1..k OBVIOUS
<1>5. \A s \in SUBSET (1..k + 1) : s \ {k + 1} \in SUBSET (1..k) OBVIOUS
<1>6. \A s \in SUBSET (1..k + 1) : k + 1 \notin s => s \in SUBSET (1..k) OBVIOUS
<1> QED BY <1>1, <1>3, <1>4, <1>5, <1>6

\* A set of numbers up to n has a greatest one.
LEMMA HasTop ==
  ASSUME NEW n \in Nat, NEW s \in SUBSET (1..n), s # {}
  PROVE  \E k \in s : \A y \in s : y <= k
<1> DEFINE bounds == {k \in Nat : \A x \in s : x <= k}
<1>1. bounds \in SUBSET Nat /\ n \in bounds OBVIOUS
<1>2. PICK k \in bounds : \A j \in bounds : k <= j
  <2> HIDE DEF bounds
  <2> QED BY <1>1, LeastNat
<1>3. k \in s
  <2>1. ASSUME k \notin s PROVE FALSE
    <3>1. PICK x \in s : TRUE OBVIOUS
    <3>2. k - 1 \in Nat /\ \A y \in s : y <= k - 1 BY <1>2, <2>1, <3>1
    <3>3. k - 1 \in bounds BY <3>2
    <3>4. k <= k - 1 BY <1>2, <3>3
    <3> QED BY <1>2, <3>4
  <2> QED BY <2>1
<1> QED BY <1>2, <1>3

\* It is the maximum.
LEMMA TopOf ==
  ASSUME NEW n \in Nat, NEW s \in SUBSET (1..n), s # {}
  PROVE  Max(s) \in s /\ Max(s) \in 1..n
<1>1. PICK k \in s : \A y \in s : y <= k BY HasTop
<1>2. \A y \in s : k >= y BY <1>1
<1> QED BY <1>2 DEF Max

\* A set without its maximum is one up to n again.
LEMMA Peels ==
  ASSUME NEW n \in Nat
  PROVE  \A s \in SUBSET (1..n) : s \ {Max(s)} \in SUBSET (1..n) /\ (s # {} => Max(s) \in 1..n)
BY TopOf

\* The recursion of a fold over n elements, where step k is the function step[k].
IsFold(g, n, V, base, step) ==
  /\ g \in [SUBSET (1..n) -> V]
  /\ \A s \in SUBSET (1..n) :
       g[s] = IF s = {} THEN base ELSE step[Max(s)][g[s \ {Max(s)}]]

\* It has a solution.
LEMMA FoldExists ==
  ASSUME NEW n \in Nat, NEW V, NEW base \in V, NEW step \in [1..n -> [V -> V]]
  PROVE  \E g : IsFold(g, n, V, base, step)
<1> DEFINE Solves(g, k) == /\ g \in [SUBSET (1..k) -> V]
                           /\ \A s \in SUBSET (1..k) :
                                g[s] = IF s = {} THEN base ELSE step[Max(s)][g[s \ {Max(s)}]]
           S == {k \in 0..n : \E g : Solves(g, k)}
<1>1. 0 \in S
  <2>1. 1..0 = {} OBVIOUS
  <2> DEFINE g == [s \in SUBSET (1..0) |-> base]
  <2>2. g \in [SUBSET (1..0) -> V] OBVIOUS
  <2>3. \A s \in SUBSET (1..0) : s = {} /\ g[s] = base BY <2>1
  <2>4. Solves(g, 0)
    <3> HIDE DEF g
    <3> QED BY <2>2, <2>3
  <2> HIDE DEF Solves
  <2> QED BY <2>4
<1>2. ASSUME NEW k \in 1..n, k - 1 \in S PROVE k \in S
  <2>1. PICK j \in Nat : k = j + 1
    <3>1. k - 1 \in Nat /\ k = (k - 1) + 1 BY <1>2
    <3> QED BY <3>1
  <2>2. PICK h : Solves(h, j)
    <3> HIDE DEF Solves
    <3>1. j \in S BY <1>2, <2>1
    <3> QED BY <3>1
  <2> DEFINE g == [s \in SUBSET (1..j + 1) |->
                     IF j + 1 \in s THEN step[j + 1][h[s \ {j + 1}]] ELSE h[s]]
  <2>3. g \in [SUBSET (1..j + 1) -> V]
    <3>1. ASSUME NEW s \in SUBSET (1..j + 1) PROVE g[s] \in V
      <4>1. CASE j + 1 \in s
        <5>1. h[s \ {j + 1}] \in V BY <2>2, <4>1, Greatest
        <5>2. step[j + 1] \in [V -> V] BY <2>1
        <5> QED BY <4>1, <5>1, <5>2
      <4>2. CASE j + 1 \notin s BY <2>2, <4>2, Greatest
      <4> QED BY <4>1, <4>2
    <3> QED BY <3>1
  <2>4. ASSUME NEW s \in SUBSET (1..j + 1)
        PROVE  g[s] = IF s = {} THEN base ELSE step[Max(s)][g[s \ {Max(s)}]]
    <3>1. CASE j + 1 \in s
      <4>1. Max(s) = j + 1 /\ s \ {j + 1} \in SUBSET (1..j) BY <3>1, Greatest
      <4>2. s \ {j + 1} \in SUBSET (1..j + 1) /\ j + 1 \notin s \ {j + 1} OBVIOUS
      <4>3. g[s \ {j + 1}] = h[s \ {j + 1}] BY <4>2
      <4>4. g[s] = step[j + 1][h[s \ {j + 1}]] BY <3>1
      <4> HIDE DEF g
      <4> QED BY <3>1, <4>1, <4>3, <4>4
    <3>2. CASE j + 1 \notin s
      <4>1. s \in SUBSET (1..j) BY <3>2, Greatest
      <4>2. s \ {Max(s)} \in SUBSET (1..j) BY <4>1
      <4>3. g[s] = h[s] BY <3>2
      <4>4. g[s \ {Max(s)}] = h[s \ {Max(s)}] BY <3>2
      <4> HIDE DEF g
      <4> QED BY <2>2, <4>1, <4>3, <4>4
    <3> QED BY <3>1, <3>2
  <2>5. Solves(g, k)
    <3> HIDE DEF g
    <3> QED BY <2>1, <2>3, <2>4
  <2> HIDE DEF Solves
  <2> QED BY <1>2, <2>5
<1>3. \A k \in 0..n : k \in S
  <2> HIDE DEF S
  <2> QED BY <1>1, <1>2, UpTo
<1>4. \E g : Solves(g, n)
  <2> HIDE DEF Solves
  <2> QED BY <1>3
<1> QED BY <1>4 DEF IsFold

\* A run: what the steps make of the base, one after the other.
IsRun(r, n, V, base, step) ==
  r \in [0..n -> V] /\ r[0] = base /\ \A k \in 1..n : r[k] = step[k][r[k - 1]]

\* A function that satisfies the recursion as far as it stays in V.
Recurs(iter, n, V, base, step) ==
  /\ iter[{}] = base
  /\ \A s \in SUBSET (1..n) : s # {} /\ iter[s \ {Max(s)}] \in V =>
       iter[s] = step[Max(s)][iter[s \ {Max(s)}]]

\* x is what the run ends with.
RunEnds(x, n, V, base, step) == \E r : IsRun(r, n, V, base, step) /\ x = r[n]

\* Such a function is, on the intervals, the run.
LEMMA FoldRuns ==
  ASSUME NEW n \in Nat, NEW V, NEW base \in V, NEW step \in [1..n -> [V -> V]],
         NEW iter, Recurs(iter, n, V, base, step)
  PROVE  RunEnds(iter[1..n], n, V, base, step)
<1> DEFINE r == [k \in 0..n |-> iter[1..k]]
           S == {k \in 0..n : iter[1..k] \in V}
<1>1. r[0] = base
  <2>1. 1..0 = {} OBVIOUS
  <2> QED BY <2>1 DEF Recurs
<1>2. ASSUME NEW k \in 1..n, iter[1..(k - 1)] \in V
      PROVE  iter[1..k] = step[k][iter[1..(k - 1)]] /\ iter[1..k] \in V
  <2>1. PICK j \in Nat : k = j + 1 /\ k - 1 = j
    <3>1. k - 1 \in Nat /\ k = (k - 1) + 1 BY <1>2
    <3> QED BY <3>1
  <2>2. Max(1..k) = k /\ (1..k) \ {k} = 1..(k - 1) BY <2>1, Greatest
  <2>3. 1..k \in SUBSET (1..n) /\ 1..k # {}
    <3>1. k \in 1..k /\ 1..k \subseteq 1..n BY <1>2
    <3> QED BY <3>1
  <2>4. iter[1..k] = step[k][iter[1..(k - 1)]] BY <1>2, <2>2, <2>3 DEF Recurs
  <2>5. step[k] \in [V -> V] OBVIOUS
  <2> QED BY <1>2, <2>4, <2>5
<1>3. \A k \in 0..n : k \in S
  <2>1. 0 \in S BY <1>1
  <2>2. \A k \in 1..n : k - 1 \in S => k \in S BY <1>2
  <2> HIDE DEF S
  <2> QED BY <2>1, <2>2, UpTo
<1>4. r \in [0..n -> V] BY <1>3
<1>5. \A k \in 1..n : r[k] = step[k][r[k - 1]]
  <2>1. ASSUME NEW k \in 1..n PROVE r[k] = step[k][r[k - 1]]
    <3>1. k - 1 \in 0..n /\ k \in 0..n OBVIOUS
    <3>2. iter[1..(k - 1)] \in V BY <1>3, <3>1
    <3>3. iter[1..k] = step[k][iter[1..(k - 1)]] BY <1>2, <3>2
    <3> QED BY <3>1, <3>3
  <2> QED BY <2>1
<1>6. iter[1..n] = r[n] OBVIOUS
<1> HIDE DEF r
<1> QED BY <1>1, <1>4, <1>5, <1>6 DEF IsRun, RunEnds

\* A run ends where its values are.
LEMMA RunStays ==
  ASSUME NEW x, NEW n \in Nat, NEW V, NEW base, NEW step, RunEnds(x, n, V, base, step)
  PROVE  x \in V
BY DEF RunEnds, IsRun

\* The tokens of lines are added up.
LEMMA TokensRuns ==
  ASSUME NEW lines \in Seq(Line), NEW n \in Nat, n = Len(lines)
  PROVE  \E r \in [0..n -> Nat] :
           /\ r[0] = 0 /\ \A k \in 1..n : r[k] = r[k - 1] + lines[k].size
           /\ Tokens(lines) = r[n]
<1> DEFINE step == [i \in 1..n |-> [v \in Nat |-> v + lines[i].size]]
           F(g) == [s \in SUBSET (1..n) |->
                      IF s = {} THEN 0 ELSE g[s \ {Max(s)}] + lines[Max(s)].size]
           iter == CHOOSE g : g = F(g)
<1>1. DOMAIN lines = 1..n /\ 0 \in Nat OBVIOUS
<1>2. step \in [1..n -> [Nat -> Nat]]
  <2>1. \A i \in 1..n : lines[i] \in Line BY <1>1
  <2> QED BY <2>1 DEF Line
<1>3. Tokens(lines) = iter[1..n] BY <1>1 DEF Tokens, FoldLeft, MapThenFoldSet
<1>4. \A i \in 1..n : \A v \in Nat : step[i][v] = v + lines[i].size OBVIOUS
<1>5. \A s \in SUBSET (1..n) : s # {} => Max(s) \in 1..n BY TopOf
<1> HIDE DEF step
<1>6. \A g : IsFold(g, n, Nat, 0, step) => g = F(g)
  <2> SUFFICES ASSUME NEW g, IsFold(g, n, Nat, 0, step) PROVE g = F(g) OBVIOUS
  <2>1. \A s \in SUBSET (1..n) : s \ {Max(s)} \in SUBSET (1..n) OBVIOUS
  <2>2. \A s \in SUBSET (1..n) : g[s] = F(g)[s] BY <1>4, <1>5, <2>1 DEF IsFold
  <2>3. DOMAIN g = SUBSET (1..n) /\ g = [s \in SUBSET (1..n) |-> g[s]] BY DEF IsFold
  <2> QED BY <2>2, <2>3
<1>7. iter = F(iter)
  <2>1. \E g : g = F(g) BY <1>1, <1>2, <1>6, FoldExists
  <2> QED BY <2>1
<1>8. Recurs(iter, n, Nat, 0, step)
  <2> HIDE DEF iter
  <2>1. iter[{}] = 0 BY <1>7
  <2>2. \A s \in SUBSET (1..n) : s # {} => iter[s] = iter[s \ {Max(s)}] + lines[Max(s)].size BY <1>7
  <2> QED BY <1>4, <1>5, <2>1, <2>2 DEF Recurs
<1>9. RunEnds(iter[1..n], n, Nat, 0, step)
  <2> HIDE DEF iter
  <2> QED BY <1>1, <1>2, <1>8, FoldRuns
<1> HIDE DEF iter
<1>10. PICK r : IsRun(r, n, Nat, 0, step) /\ iter[1..n] = r[n] BY <1>9 DEF RunEnds
<1>11. \A k \in 1..n : k - 1 \in 0..n /\ r[k - 1] \in Nat
  <2>1. r \in [0..n -> Nat] BY <1>10 DEF IsRun
  <2>2. n \in Nat BY <1>1
  <2>3. \A k \in 1..n : k - 1 \in 0..n BY <2>2
  <2> QED BY <2>1, <2>3
<1> QED BY <1>3, <1>4, <1>10, <1>11 DEF IsRun

\* A text has a number of tokens, and no line has none.
LEMMA TokensNat ==
  ASSUME NEW lines \in Seq(Line)
  PROVE  Tokens(lines) \in Nat /\ (lines = <<>> => Tokens(lines) = 0)
<1>1. Len(lines) \in Nat OBVIOUS
<1>2. PICK r \in [0..Len(lines) -> Nat] : r[0] = 0 /\ Tokens(lines) = r[Len(lines)]
  BY <1>1, TokensRuns
<1> QED BY <1>1, <1>2

\* One more line counts as much more.
LEMMA TokensAppend ==
  ASSUME NEW lines \in Seq(Line), NEW line \in Line
  PROVE  Tokens(Append(lines, line)) = Tokens(lines) + line.size
<1> DEFINE n == Len(lines)
           more == Append(lines, line)
<1>1. n \in Nat /\ more \in Seq(Line) /\ Len(more) = n + 1 /\ more[n + 1] = line
      /\ \A k \in 1..n : more[k] = lines[k]
  OBVIOUS
<1> HIDE DEF n, more
<1>2. PICK r \in [0..n -> Nat] : /\ r[0] = 0 /\ \A k \in 1..n : r[k] = r[k - 1] + lines[k].size
                                 /\ Tokens(lines) = r[n]
  BY <1>1, TokensRuns DEF n
<1>3. PICK q \in [0..n + 1 -> Nat] :
        /\ q[0] = 0 /\ \A k \in 1..n + 1 : q[k] = q[k - 1] + more[k].size
        /\ Tokens(more) = q[n + 1]
  <2>1. n + 1 \in Nat BY <1>1
  <2> QED BY <1>1, <2>1, TokensRuns
<1> DEFINE S == {k \in 0..n : q[k] = r[k]}
<1>4. 0 \in S BY <1>1, <1>2, <1>3
<1>5. \A k \in 1..n : k - 1 \in S => k \in S
  <2>1. ASSUME NEW k \in 1..n, k - 1 \in S PROVE k \in S
    <3>1. k \in 0..n /\ k \in 1..n + 1 /\ q[k - 1] = r[k - 1] BY <1>1, <2>1
    <3> QED BY <1>1, <1>2, <1>3, <3>1
  <2> QED BY <2>1
<1>6. n \in S
  <2> HIDE DEF S
  <2>1. \A k \in 0..n : k \in S BY <1>1, <1>4, <1>5, UpTo
  <2> QED BY <1>1, <2>1
<1>7. q[n + 1] = q[n] + more[n + 1].size
  <2>1. n + 1 \in 1..n + 1 /\ (n + 1) - 1 = n BY <1>1
  <2> QED BY <1>3, <2>1
<1> QED BY <1>1, <1>2, <1>3, <1>6, <1>7 DEF more

-----------------------------------------------------------------------------
(* Splitting: what a piece may be.                                         *)

\* What PiecesFit says of a piece whose prefix has a size of its own.
FitsWith(prefix, lines) ==
  LET atom == prefix + (IF lines = <<>> THEN 0 ELSE Last(lines).size)
  IN prefix + Tokens(lines) <= OverlapTokens + (IF atom > MaxTokens THEN atom ELSE MaxTokens)

\* Lines behind a prefix that stay within the limit and the overlap.
Fitting(prefix) == {lines \in Seq(Line) : FitsWith(prefix, lines)}

\* What is within the limit as a whole is one piece that fits.
LEMMA ShortFits ==
  ASSUME NEW prefix \in Nat, NEW lines \in Seq(Line), prefix + Tokens(lines) <= MaxTokens
  PROVE  lines \in Fitting(prefix)
<1>1. MaxTokens \in Nat /\ OverlapTokens \in Nat BY ChunkerBounds
<1> DEFINE atom == prefix + (IF lines = <<>> THEN 0 ELSE Last(lines).size)
           most == IF atom > MaxTokens THEN atom ELSE MaxTokens
<1>2. MaxTokens <= most
  <2>1. lines # <<>> => lines[Len(lines)] \in Line OBVIOUS
  <2>2. atom \in Nat BY <2>1 DEF Last, Line
  <2> HIDE DEF atom
  <2> QED BY <1>1, <2>2
<1>3. most \in Nat
  <2>1. lines # <<>> => lines[Len(lines)] \in Line OBVIOUS
  <2>2. atom \in Nat BY <2>1 DEF Last, Line
  <2> HIDE DEF atom
  <2> QED BY <1>1, <2>2
<1>4. Tokens(lines) \in Nat BY TokensNat
<1>5. prefix + Tokens(lines) <= OverlapTokens + most
  <2> HIDE DEF most
  <2> QED BY <1>1, <1>2, <1>3, <1>4
<1> QED BY <1>5 DEF Fitting, FitsWith

\* Nothing at all fits.
LEMMA NoLinesFit ==
  /\ <<>> \in Seq(Line) /\ Tokens(<<>>) = 0 /\ <<>> \in Fitting(0)
  /\ MaxTokens \in Nat /\ OverlapTokens \in Nat
<1>1. <<>> \in Seq(Line) /\ 0 \in Nat /\ MaxTokens \in Nat /\ OverlapTokens \in Nat
  BY ChunkerBounds
<1>2. Tokens(<<>>) = 0 BY <1>1, TokensNat
<1>3. 0 + Tokens(<<>>) <= MaxTokens BY <1>1, <1>2
<1> QED BY <1>1, <1>2, <1>3, ShortFits

\* A line behind no more than the overlap fits.
LEMMA CarriedFits ==
  ASSUME NEW prefix \in Nat, NEW lines \in Seq(Line), NEW line \in Line,
         Tokens(lines) <= OverlapTokens
  PROVE  Append(lines, line) \in Fitting(prefix)
<1>1. MaxTokens \in Nat /\ OverlapTokens \in Nat /\ line.size \in Nat BY ChunkerBounds DEF Line
<1>2. Tokens(lines) \in Nat BY TokensNat
<1>3. Append(lines, line) \in Seq(Line) /\ Append(lines, line) # <<>>
      /\ Last(Append(lines, line)) = line
  BY DEF Last
<1>4. Tokens(Append(lines, line)) = Tokens(lines) + line.size BY TokensAppend
<1> QED BY <1>1, <1>2, <1>3, <1>4 DEF Fitting, FitsWith

\* What is carried is the end of the piece, as much as the overlap allows.
LEMMA CarryEnds ==
  ASSUME NEW cur \in Seq(Line)
  PROVE  \E first \in 1..Len(cur) + 1 : /\ Carry(cur) = SubSeq(cur, first, Len(cur))
                                        /\ Tokens(Carry(cur)) <= OverlapTokens
<1> DEFINE n == Len(cur)
           small == {i \in 1..n + 1 : Tokens(SubSeq(cur, i, n)) <= OverlapTokens}
<1>1. n \in Nat /\ OverlapTokens \in Nat BY ChunkerBounds
<1>2. \A i \in 1..n + 1 : SubSeq(cur, i, n) \in Seq(Line) OBVIOUS
<1>3. SubSeq(cur, n + 1, n) = <<>> BY <1>1
<1>4. n + 1 \in small /\ small \in SUBSET Nat
  <2>1. <<>> \in Seq(Line) OBVIOUS
  <2>2. Tokens(<<>>) = 0 BY <2>1, TokensNat
  <2>3. Tokens(SubSeq(cur, n + 1, n)) = 0 BY <1>3, <2>2
  <2>4. n + 1 \in 1..n + 1 /\ Tokens(SubSeq(cur, n + 1, n)) <= OverlapTokens BY <1>1, <2>3
  <2>5. small \in SUBSET Nat OBVIOUS
  <2> QED BY <2>4, <2>5
<1>5. PICK m \in small : \A i \in small : m <= i
  <2> HIDE DEF small
  <2> QED BY <1>4, LeastNat
<1>6. \A i \in 1..n + 1 : Tokens(SubSeq(cur, i, n)) \in Nat BY <1>2, TokensNat
<1>7. \A j \in 1..m - 1 : Tokens(SubSeq(cur, j, n)) > OverlapTokens
  <2>1. ASSUME NEW j \in 1..m - 1 PROVE Tokens(SubSeq(cur, j, n)) > OverlapTokens
    <3>1. j \in 1..n + 1 /\ j < m /\ j \notin small BY <1>1, <1>5
    <3> QED BY <1>1, <1>6, <3>1
  <2> QED BY <2>1
<1> QED BY <1>5, <1>7 DEF Carry

\* So it is short.
LEMMA CarrySmall ==
  ASSUME NEW cur \in Seq(Line)
  PROVE  Carry(cur) \in Seq(Line) /\ Tokens(Carry(cur)) <= OverlapTokens
<1>1. PICK first \in 1..Len(cur) + 1 : /\ Carry(cur) = SubSeq(cur, first, Len(cur))
                                      /\ Tokens(Carry(cur)) <= OverlapTokens
  BY CarryEnds
<1>2. SubSeq(cur, first, Len(cur)) \in Seq(Line) OBVIOUS
<1> QED BY <1>1, <1>2

\* Sentences are put into pieces one by one.
LEMMA AddSentenceRuns ==
  ASSUME NEW V, NEW base \in V, NEW seq, NEW n \in Nat, DOMAIN seq = 1..n,
         \A i \in 1..n : \A v \in V : AddSentence(v, seq[i]) \in V
  PROVE  RunEnds(FoldLeft(AddSentence, base, seq), n, V, base,
                 [i \in 1..n |-> [v \in V |-> AddSentence(v, seq[i])]])
<1> DEFINE step == [i \in 1..n |-> [v \in V |-> AddSentence(v, seq[i])]]
           F(g) == [s \in SUBSET (1..n) |->
                      IF s = {} THEN base ELSE AddSentence(g[s \ {Max(s)}], seq[Max(s)])]
           iter == CHOOSE g : g = F(g)
<1>1. FoldLeft(AddSentence, base, seq) = iter[1..n] BY DEF FoldLeft, MapThenFoldSet
<1>2. step \in [1..n -> [V -> V]]
      /\ \A i \in 1..n : \A v \in V : step[i][v] = AddSentence(v, seq[i])
  OBVIOUS
<1> HIDE DEF step
<1>3. \A g : IsFold(g, n, V, base, step) => g = F(g)
  <2> SUFFICES ASSUME NEW g, IsFold(g, n, V, base, step) PROVE g = F(g) OBVIOUS
  <2>1. \A s \in SUBSET (1..n) : g[s] = F(g)[s] BY <1>2, Peels DEF IsFold
  <2>2. g = [s \in SUBSET (1..n) |-> g[s]] BY DEF IsFold
  <2> QED BY <2>1, <2>2
<1>4. iter = F(iter)
  <2>1. \E g : g = F(g) BY <1>2, <1>3, FoldExists
  <2> QED BY <2>1
<1> HIDE DEF iter
<1>5. Recurs(iter, n, V, base, step)
  <2>1. iter[{}] = base BY <1>4
  <2>2. \A s \in SUBSET (1..n) : s # {} => iter[s] = AddSentence(iter[s \ {Max(s)}], seq[Max(s)])
    BY <1>4
  <2> QED BY <1>2, <2>1, <2>2, Peels DEF Recurs
<1>6. RunEnds(iter[1..n], n, V, base, step) BY <1>2, <1>5, FoldRuns
<1> QED BY <1>1, <1>6 DEF step

\* A table's rows, put into pieces.
Rows(prefix, base, seq) == FoldLeft(LAMBDA acc, row : AddRow(acc, row, prefix), base, seq)

\* Rows are put into pieces one by one.
LEMMA AddRowRuns ==
  ASSUME NEW prefix, NEW V, NEW base \in V, NEW seq, NEW n \in Nat, DOMAIN seq = 1..n,
         \A i \in 1..n : \A v \in V : AddRow(v, seq[i], prefix) \in V
  PROVE  RunEnds(Rows(prefix, base, seq), n, V, base,
                 [i \in 1..n |-> [v \in V |-> AddRow(v, seq[i], prefix)]])
<1> DEFINE step == [i \in 1..n |-> [v \in V |-> AddRow(v, seq[i], prefix)]]
           F(g) == [s \in SUBSET (1..n) |->
                      IF s = {} THEN base ELSE AddRow(g[s \ {Max(s)}], seq[Max(s)], prefix)]
           iter == CHOOSE g : g = F(g)
<1>1. Rows(prefix, base, seq) = iter[1..n] BY DEF Rows, FoldLeft, MapThenFoldSet
<1>2. step \in [1..n -> [V -> V]]
      /\ \A i \in 1..n : \A v \in V : step[i][v] = AddRow(v, seq[i], prefix)
  OBVIOUS
<1> HIDE DEF step
<1>3. \A g : IsFold(g, n, V, base, step) => g = F(g)
  <2> SUFFICES ASSUME NEW g, IsFold(g, n, V, base, step) PROVE g = F(g) OBVIOUS
  <2>1. \A s \in SUBSET (1..n) : g[s] = F(g)[s] BY <1>2, Peels DEF IsFold
  <2>2. g = [s \in SUBSET (1..n) |-> g[s]] BY DEF IsFold
  <2> QED BY <2>1, <2>2
<1>4. iter = F(iter)
  <2>1. \E g : g = F(g) BY <1>2, <1>3, FoldExists
  <2> QED BY <2>1
<1> HIDE DEF iter
<1>5. Recurs(iter, n, V, base, step)
  <2>1. iter[{}] = base BY <1>4
  <2>2. \A s \in SUBSET (1..n) : s # {} => iter[s] = AddRow(iter[s \ {Max(s)}], seq[Max(s)], prefix)
    BY <1>4
  <2> QED BY <1>2, <2>1, <2>2, Peels DEF Recurs
<1>6. RunEnds(iter[1..n], n, V, base, step) BY <1>2, <1>5, FoldRuns
<1> QED BY <1>1, <1>6 DEF step

\* The pieces of prose, and the one being filled, fit.
LEMMA SplitProseFits ==
  ASSUME NEW lines \in Seq(Line)
  PROVE  SplitProse(lines) \in Seq(Fitting(0))
<1> DEFINE V == [out : Seq(Fitting(0)), cur : Fitting(0)]
           base == [out |-> <<>>, cur |-> <<>>]
<1>1. CASE Tokens(lines) <= MaxTokens
  <2>1. 0 + Tokens(lines) <= MaxTokens BY <1>1, TokensNat
  <2>2. lines \in Fitting(0) BY <2>1, ShortFits
  <2> QED BY <1>1, <2>2 DEF SplitProse
<1>2. CASE ~(Tokens(lines) <= MaxTokens)
  <2>1. base \in V BY NoLinesFit
  <2>2. ASSUME NEW v \in V, NEW line \in Line PROVE AddSentence(v, line) \in V
    <3>1. v.cur \in Seq(Line) /\ line.size \in Nat /\ v = [out |-> v.out, cur |-> v.cur]
      BY DEF Fitting, Line
    <3>2. CASE v.cur # <<>> /\ Tokens(v.cur) + line.size > MaxTokens
      <4>1. Append(Carry(v.cur), line) \in Fitting(0) BY <3>1, CarrySmall, CarriedFits
      <4>2. Append(v.out, v.cur) \in Seq(Fitting(0)) OBVIOUS
      <4> QED BY <3>2, <4>1, <4>2 DEF AddSentence
    <3>3. CASE ~(v.cur # <<>> /\ Tokens(v.cur) + line.size > MaxTokens)
      <4>1. Append(v.cur, line) \in Fitting(0)
        <5>1. CASE v.cur = <<>>
          <6>1. Tokens(v.cur) = 0 BY <3>1, <5>1, TokensNat
          <6>2. Tokens(v.cur) <= OverlapTokens BY <6>1, NoLinesFit
          <6>3. 0 \in Nat OBVIOUS
          <6> QED BY <3>1, <6>2, <6>3, CarriedFits
        <5>2. CASE v.cur # <<>>
          <6>1. Tokens(v.cur) + line.size <= MaxTokens
            BY <3>1, <3>3, <5>2, TokensNat, ChunkerBounds
          <6>2. 0 + Tokens(Append(v.cur, line)) <= MaxTokens BY <3>1, <6>1, TokensAppend, TokensNat
          <6>3. 0 \in Nat /\ Append(v.cur, line) \in Seq(Line) BY <3>1
          <6> QED BY <6>2, <6>3, ShortFits
        <5> QED BY <5>1, <5>2
      <4> HIDE DEF V
      <4>2. AddSentence(v, line) = [v EXCEPT !.cur = Append(v.cur, line)] BY <3>3 DEF AddSentence
      <4> QED BY <3>1, <4>1, <4>2 DEF V
    <3> QED BY <3>2, <3>3
  <2> HIDE DEF V
  <2>3. DOMAIN lines = 1..Len(lines) /\ Len(lines) \in Nat
        /\ \A i \in 1..Len(lines) : \A v \in V : AddSentence(v, lines[i]) \in V
    BY <2>2
  <2>4. FoldLeft(AddSentence, base, lines) \in V
    <3> HIDE DEF base
    <3> QED BY <2>1, <2>3, AddSentenceRuns, RunStays
  <2> QED BY <1>2, <2>4 DEF SplitProse, V
<1> QED BY <1>1, <1>2

\* The pieces of a table fit, with what each of them repeats.
LEMMA SplitTableFits ==
  ASSUME NEW block, NEW prefix \in Nat, prefix = Prefix(block), block.lines \in Seq(Line)
  PROVE  SplitTable(block) \in Seq(Fitting(prefix))
<1> DEFINE lines == block.lines
           V == [out : Seq(Fitting(prefix)), cur : {<<>>} \cup Fitting(prefix)]
           base == [out |-> <<>>, cur |-> <<>>]
           end == Rows(prefix, base, lines)
<1>1. CASE prefix + Tokens(lines) <= MaxTokens
  <2>1. lines \in Fitting(prefix) BY <1>1, ShortFits
  <2> QED BY <1>1, <2>1 DEF SplitTable
<1>2. CASE ~(prefix + Tokens(lines) <= MaxTokens)
  <2>1. base \in V OBVIOUS
  <2>2. ASSUME NEW v \in V, NEW row \in Line PROVE AddRow(v, row, prefix) \in V
    <3>1. v.cur \in Seq(Line) /\ row.size \in Nat /\ v = [out |-> v.out, cur |-> v.cur]
      BY NoLinesFit DEF Fitting, Line
    <3>2. <<>> \in Seq(Line) /\ Tokens(<<>>) <= OverlapTokens /\ Append(<<>>, row) = <<row>>
      <4>1. Tokens(<<>>) <= OverlapTokens BY NoLinesFit
      <4> QED BY <4>1, NoLinesFit
    <3>3. <<row>> \in Fitting(prefix) BY <3>2, CarriedFits
    <3>4. CASE v.cur # <<>> /\ prefix + Tokens(v.cur) + row.size > MaxTokens
      <4>1. Append(v.out, v.cur) \in Seq(Fitting(prefix)) BY <3>4
      <4> QED BY <3>3, <3>4, <4>1 DEF AddRow
    <3>5. CASE ~(v.cur # <<>> /\ prefix + Tokens(v.cur) + row.size > MaxTokens)
      <4>1. Append(v.cur, row) \in Fitting(prefix)
        <5>1. CASE v.cur = <<>> BY <3>2, <3>3, <5>1
        <5>2. CASE v.cur # <<>>
          <6>1. prefix + Tokens(v.cur) + row.size <= MaxTokens
            BY <3>1, <3>5, <5>2, TokensNat, ChunkerBounds
          <6>2. prefix + Tokens(Append(v.cur, row)) <= MaxTokens BY <3>1, <6>1, TokensAppend, TokensNat
          <6>3. Append(v.cur, row) \in Seq(Line) BY <3>1
          <6> QED BY <6>2, <6>3, ShortFits
        <5> QED BY <5>1, <5>2
      <4> HIDE DEF V
      <4>2. AddRow(v, row, prefix) = [v EXCEPT !.cur = Append(v.cur, row)] BY <3>5 DEF AddRow
      <4> QED BY <3>1, <4>1, <4>2 DEF V
    <3> QED BY <3>4, <3>5
  <2> HIDE DEF V
  <2>3. DOMAIN lines = 1..Len(lines) /\ Len(lines) \in Nat
        /\ \A i \in 1..Len(lines) : \A v \in V : AddRow(v, lines[i], prefix) \in V
    BY <2>2
  <2>4. end \in V
    <3> HIDE DEF base
    <3> QED BY <2>1, <2>3, AddRowRuns, RunStays
  <2>5. SplitTable(block) = IF end.cur = <<>> THEN end.out ELSE Append(end.out, end.cur)
    BY <1>2 DEF SplitTable, Rows
  <2> HIDE DEF end
  <2> QED BY <2>4, <2>5 DEF V
<1> QED BY <1>1, <1>2

-----------------------------------------------------------------------------
(* Blocks and what becomes of them.                                        *)

Titles == Names \cup {NoName}

Heading == [kind : {"heading"}, level : Nat, name : Names]
Prose   == [kind : {"prose"}, page : Nat, lines : Seq(Line)]
Table   == [kind : {"table"}, page : Nat, header : Line, caption : Titles, cont : BOOLEAN,
            lines : Seq(Line)]
Flow    == {b \in [kind : {"flowchart"}, page : Nat, lines : Seq(Line), marked : Nat] :
              b.lines # <<>> /\ b.marked \in 0..Len(b.lines)}

Body == Prose \cup Table \cup Flow

\* The pieces of every block fit.
LEMMA SplitFits ==
  ASSUME NEW b \in Body
  PROVE  Prefix(b) \in Nat /\ Split(b) \in Seq(Fitting(Prefix(b)))
<1>1. Prefix(b) \in Nat BY DEF Prefix, Body, Prose, Table, Flow, Line
<1>2. CASE b \in Prose
  <2>1. b.lines \in Seq(Line) /\ b.kind = "prose" BY <1>2 DEF Prose
  <2>2. Split(b) = SplitProse(b.lines) /\ Prefix(b) = 0 BY <2>1 DEF Split, Prefix
  <2> QED BY <1>1, <2>1, <2>2, SplitProseFits
<1>3. CASE b \in Table
  <2>1. b.lines \in Seq(Line) /\ b.kind = "table" BY <1>3 DEF Table
  <2>2. Split(b) = SplitTable(b) BY <2>1 DEF Split
  <2> QED BY <1>1, <2>1, <2>2, SplitTableFits
<1>4. CASE b \in Flow
  <2>1. b.lines \in Seq(Line) /\ b.lines # <<>> /\ b.kind = "flowchart" /\ b.marked \in 0..Len(b.lines)
    BY <1>4 DEF Flow
  <2>2. Split(b) = SplitFlowchart(b) /\ Prefix(b) = 0 BY <2>1 DEF Split, Prefix
  <2>3. SplitFlowchart(b) \in Seq(Fitting(0))
    <3>1. CASE Tokens(b.lines) <= MaxTokens
      <4>1. 0 \in Nat /\ 0 + Tokens(b.lines) <= MaxTokens BY <2>1, <3>1, TokensNat
      <4>2. b.lines \in Fitting(0) BY <2>1, <4>1, ShortFits
      <4> QED BY <3>1, <4>2 DEF SplitFlowchart
    <3>2. CASE ~(Tokens(b.lines) <= MaxTokens) /\ b.marked = 0
      BY <2>1, <3>2, SplitProseFits DEF SplitFlowchart
    <3>3. CASE ~(Tokens(b.lines) <= MaxTokens) /\ b.marked # 0
      <4> DEFINE one == SubSeq(b.lines, 1, b.marked)
                 two == <<Head(b.lines)>> \o SubSeq(b.lines, b.marked + 1, Len(b.lines))
      <4>1. one \in Seq(Line) /\ two \in Seq(Line) BY <2>1
      <4>2. SplitFlowchart(b) = SplitProse(one) \o SplitProse(two) BY <3>3 DEF SplitFlowchart
      <4> HIDE DEF one, two
      <4> QED BY <4>1, <4>2, SplitProseFits
    <3> QED BY <3>1, <3>2, <3>3
  <2> QED BY <1>1, <2>2, <2>3
<1> QED BY <1>2, <1>3, <1>4 DEF Body

\* A state of the parser.
Parsing ==
  [blocks : Seq(Heading \cup Body), pending : Titles,
   last : {NoTable} \cup [header : Line, caption : Titles], page : Nat, tables : Nat]

\* An item leaves the parser in a state of its own.
LEMMA ParseItemTyped ==
  ASSUME NEW st \in Parsing, NEW item \in Item
  PROVE  ParseItem(st, item) \in Parsing
<1>1. CASE item.kind = "heading"
  <2>1. item \in Heading BY <1>1 DEF Item, Heading
  <2>2. Append(st.blocks, item) \in Seq(Heading \cup Body) BY <2>1 DEF Parsing
  <2>3. ParseItem(st, item) = [st EXCEPT !.blocks = Append(@, item), !.pending = NoName]
    BY <1>1 DEF ParseItem
  <2> QED BY <2>2, <2>3 DEF Parsing, Titles
<1>2. CASE item.kind = "caption"
  <2>1. item.name \in Names BY <1>2 DEF Item
  <2>2. ParseItem(st, item) = [st EXCEPT !.pending = item.name] BY <1>2 DEF ParseItem
  <2> QED BY <2>1, <2>2 DEF Parsing, Titles
<1>3. CASE item.kind = "prose"
  <2> DEFINE block == [kind |-> "prose", page |-> st.page, lines |-> <<item.line>>]
  <2>1. item.line \in Line BY <1>3 DEF Item
  <2>2. block \in Prose BY <2>1 DEF Prose, Parsing
  <2>3. Append(st.blocks, block) \in Seq(Heading \cup Body) BY <2>2 DEF Parsing, Body
  <2> QED BY <1>3, <2>3 DEF ParseItem, Parsing
<1>4. CASE item.kind = "table"
  <2> DEFINE cont    == Continues(st, item)
             caption == IF cont THEN st.last.caption ELSE st.pending
             block   == [kind |-> "table", page |-> st.page, header |-> item.header,
                         caption |-> caption, cont |-> cont, lines |-> item.rows]
  <2>1. item.header \in Line /\ item.rows \in Seq(Line) BY <1>4 DEF Item
  <2>2. cont \in BOOLEAN /\ caption \in Titles BY DEF Continues, Parsing, NoTable, Titles
  <2>3. block \in Table
    <3> HIDE DEF cont, caption
    <3> QED BY <2>1, <2>2 DEF Table, Parsing
  <2>4. Append(st.blocks, block) \in Seq(Heading \cup Body)
    <3> HIDE DEF block
    <3> QED BY <2>3 DEF Parsing, Body
  <2>5. ParseItem(st, item)
          = [st EXCEPT !.blocks = Append(@, block),
                       !.tables = @ + 1,
                       !.last = IF cont THEN @ ELSE [header |-> item.header, caption |-> caption],
                       !.pending = IF cont THEN @ ELSE NoName]
    BY <1>4 DEF ParseItem, ParseTable
  <2> HIDE DEF block, cont, caption
  <2> DEFINE last == IF cont THEN st.last ELSE [header |-> item.header, caption |-> caption]
             pending == IF cont THEN st.pending ELSE NoName
  <2>6. last \in {NoTable} \cup [header : Line, caption : Titles] /\ pending \in Titles
    BY <2>1, <2>2 DEF Parsing, Titles
  <2>7. ParseItem(st, item) = [blocks |-> Append(st.blocks, block), pending |-> pending,
                               last |-> last, page |-> st.page, tables |-> st.tables + 1]
    <3> HIDE DEF last, pending
    <3>1. ParseItem(st, item) = [st EXCEPT !.blocks = Append(st.blocks, block),
                       !.tables = st.tables + 1, !.last = last, !.pending = pending]
      BY <2>5 DEF last, pending
    <3> QED BY <3>1 DEF Parsing
  <2>8. st.page \in Nat /\ st.tables + 1 \in Nat BY DEF Parsing
  <2> HIDE DEF last, pending
  <2> QED BY <2>4, <2>6, <2>7, <2>8 DEF Parsing
<1> QED BY <1>1, <1>2, <1>3, <1>4 DEF Item

\* Items are parsed one by one.
LEMMA ParseItemRuns ==
  ASSUME NEW V, NEW base \in V, NEW seq, NEW n \in Nat, DOMAIN seq = 1..n,
         \A i \in 1..n : \A v \in V : ParseItem(v, seq[i]) \in V
  PROVE  RunEnds(FoldLeft(ParseItem, base, seq), n, V, base,
                 [i \in 1..n |-> [v \in V |-> ParseItem(v, seq[i])]])
<1> DEFINE step == [i \in 1..n |-> [v \in V |-> ParseItem(v, seq[i])]]
           F(g) == [s \in SUBSET (1..n) |->
                      IF s = {} THEN base ELSE ParseItem(g[s \ {Max(s)}], seq[Max(s)])]
           iter == CHOOSE g : g = F(g)
<1>1. FoldLeft(ParseItem, base, seq) = iter[1..n] BY DEF FoldLeft, MapThenFoldSet
<1>2. step \in [1..n -> [V -> V]]
      /\ \A i \in 1..n : \A v \in V : step[i][v] = ParseItem(v, seq[i])
  OBVIOUS
<1> HIDE DEF step
<1>3. \A g : IsFold(g, n, V, base, step) => g = F(g)
  <2> SUFFICES ASSUME NEW g, IsFold(g, n, V, base, step) PROVE g = F(g) OBVIOUS
  <2>1. \A s \in SUBSET (1..n) : g[s] = F(g)[s] BY <1>2, Peels DEF IsFold
  <2>2. g = [s \in SUBSET (1..n) |-> g[s]] BY DEF IsFold
  <2> QED BY <2>1, <2>2
<1>4. iter = F(iter)
  <2>1. \E g : g = F(g) BY <1>2, <1>3, FoldExists
  <2> QED BY <2>1
<1> HIDE DEF iter
<1>5. Recurs(iter, n, V, base, step)
  <2>1. iter[{}] = base BY <1>4
  <2>2. \A s \in SUBSET (1..n) : s # {} => iter[s] = ParseItem(iter[s \ {Max(s)}], seq[Max(s)])
    BY <1>4
  <2> QED BY <1>2, <2>1, <2>2, Peels DEF Recurs
<1>6. RunEnds(iter[1..n], n, V, base, step) BY <1>2, <1>5, FoldRuns
<1> QED BY <1>1, <1>6 DEF step

\* Pages are parsed one by one.
LEMMA ParsePageRuns ==
  ASSUME NEW V, NEW base \in V, NEW seq, NEW n \in Nat, DOMAIN seq = 1..n,
         \A i \in 1..n : \A v \in V : ParsePage(v, seq[i]) \in V
  PROVE  RunEnds(FoldLeft(ParsePage, base, seq), n, V, base,
                 [i \in 1..n |-> [v \in V |-> ParsePage(v, seq[i])]])
<1> DEFINE step == [i \in 1..n |-> [v \in V |-> ParsePage(v, seq[i])]]
           F(g) == [s \in SUBSET (1..n) |->
                      IF s = {} THEN base ELSE ParsePage(g[s \ {Max(s)}], seq[Max(s)])]
           iter == CHOOSE g : g = F(g)
<1>1. FoldLeft(ParsePage, base, seq) = iter[1..n] BY DEF FoldLeft, MapThenFoldSet
<1>2. step \in [1..n -> [V -> V]]
      /\ \A i \in 1..n : \A v \in V : step[i][v] = ParsePage(v, seq[i])
  OBVIOUS
<1> HIDE DEF step
<1>3. \A g : IsFold(g, n, V, base, step) => g = F(g)
  <2> SUFFICES ASSUME NEW g, IsFold(g, n, V, base, step) PROVE g = F(g) OBVIOUS
  <2>1. \A s \in SUBSET (1..n) : g[s] = F(g)[s] BY <1>2, Peels DEF IsFold
  <2>2. g = [s \in SUBSET (1..n) |-> g[s]] BY DEF IsFold
  <2> QED BY <2>1, <2>2
<1>4. iter = F(iter)
  <2>1. \E g : g = F(g) BY <1>2, <1>3, FoldExists
  <2> QED BY <2>1
<1> HIDE DEF iter
<1>5. Recurs(iter, n, V, base, step)
  <2>1. iter[{}] = base BY <1>4
  <2>2. \A s \in SUBSET (1..n) : s # {} => iter[s] = ParsePage(iter[s \ {Max(s)}], seq[Max(s)])
    BY <1>4
  <2> QED BY <1>2, <2>1, <2>2, Peels DEF Recurs
<1>6. RunEnds(iter[1..n], n, V, base, step) BY <1>2, <1>5, FoldRuns
<1> QED BY <1>1, <1>6 DEF step

\* Pages with the diagram that parse is given for each.
Readable ==
  {p \in [items : Seq(Item), diagram : Seq(Line), marked : Nat] : p.marked \in 0..Len(p.diagram)}

\* So does a page with its diagram.
LEMMA ParsePageTyped ==
  ASSUME NEW st \in Parsing, NEW page \in Readable
  PROVE  ParsePage(st, page) \in Parsing
<1> DEFINE n == Len(page.items)
           base == [st EXCEPT !.page = @ + 1, !.tables = 0]
           read == FoldLeft(ParseItem, base, page.items)
           block == [kind |-> "flowchart", page |-> read.page, lines |-> page.diagram,
                     marked |-> page.marked]
<1>1. page.items \in Seq(Item) /\ page.diagram \in Seq(Line) /\ page.marked \in 0..Len(page.diagram)
  BY DEF Readable
<1>2. base \in Parsing
  <2>1. st.page + 1 \in Nat /\ 0 \in Nat BY DEF Parsing
  <2> DEFINE next == st.page + 1
  <2>2. base = [blocks |-> st.blocks, pending |-> st.pending, last |-> st.last,
                page |-> next, tables |-> 0]
    <3>1. base = [st EXCEPT !.page = next, !.tables = 0] OBVIOUS
    <3> HIDE DEF next, base
    <3> QED BY <3>1 DEF Parsing
  <2> QED BY <2>1, <2>2 DEF Parsing
<1>3. n \in Nat /\ DOMAIN page.items = 1..n /\ \A i \in 1..n : page.items[i] \in Item BY <1>1
<1>4. \A i \in 1..n : \A v \in Parsing : ParseItem(v, page.items[i]) \in Parsing
  BY <1>3, ParseItemTyped
<1>5. read \in Parsing
  <2> HIDE DEF base, n
  <2> QED BY <1>2, <1>3, <1>4, ParseItemRuns, RunStays
<1>6. ParsePage(st, page) = IF page.diagram = <<>> THEN read
                            ELSE [read EXCEPT !.blocks = Append(@, block)]
  BY DEF ParsePage
<1>7. page.diagram # <<>> => block \in Flow
  <2> HIDE DEF read
  <2> QED BY <1>1, <1>5 DEF Flow, Parsing
<1> HIDE DEF read, block
<1>8. page.diagram # <<>> => Append(read.blocks, block) \in Seq(Heading \cup Body)
  BY <1>5, <1>7 DEF Parsing, Body
<1> QED BY <1>5, <1>6, <1>8 DEF Parsing

\* A block that joins the one before it.
LEMMA JoinTyped ==
  ASSUME NEW out \in Seq(Body), out # <<>>, NEW b \in Body, Last(out).kind = b.kind,
         b.kind # "flowchart"
  PROVE  JoinLast(out, b) \in Seq(Body)
<1>1. Len(out) \in 1..Len(out) /\ out[Len(out)] \in Body /\ out[Len(out)].kind = b.kind
  BY DEF Last
<1> DEFINE last == out[Len(out)]
           joined == [last EXCEPT !.lines = @ \o b.lines]
<1>2. b.lines \in Seq(Line) /\ last.lines \in Seq(Line) BY <1>1 DEF Body, Prose, Table, Flow
<1> DEFINE lines == last.lines \o b.lines
<1>6. lines \in Seq(Line) /\ joined = [last EXCEPT !.lines = lines] BY <1>2
<1>3. joined \in Body
  <2> HIDE DEF lines, joined
  <2>1. CASE last \in Prose BY <1>6, <2>1 DEF Prose, Body
  <2>2. CASE last \in Table BY <1>6, <2>2 DEF Table, Body
  <2>3. last \notin Flow BY <1>1 DEF Flow
  <2> QED BY <1>1, <2>1, <2>2, <2>3 DEF Body
<1>4. JoinLast(out, b) = [out EXCEPT ![Len(out)] = joined] BY <1>1 DEF JoinLast
<1> HIDE DEF joined
<1> QED BY <1>1, <1>3, <1>4

\* The same where headings stand between the blocks.
LEMMA JoinProseTyped ==
  ASSUME NEW out \in Seq(Heading \cup Body), out # <<>>, NEW b \in Prose, Last(out).kind = "prose"
  PROVE  JoinLast(out, b) \in Seq(Heading \cup Body)
<1>1. Len(out) \in 1..Len(out) /\ out[Len(out)] \in Heading \cup Body /\ out[Len(out)].kind = "prose"
  BY DEF Last
<1> DEFINE last == out[Len(out)]
           joined == [last EXCEPT !.lines = @ \o b.lines]
<1>2. last \in Prose BY <1>1 DEF Heading, Body, Table, Flow, Prose
<1>3. joined \in Body
  <2>1. last.lines \o b.lines \in Seq(Line) BY <1>2 DEF Prose
  <2> DEFINE lines == last.lines \o b.lines
  <2>2. joined = [last EXCEPT !.lines = lines] OBVIOUS
  <2> HIDE DEF lines, joined
  <2>3. lines \in Seq(Line) BY <2>1 DEF lines
  <2> QED BY <1>2, <2>2, <2>3 DEF Prose, Body
<1>4. JoinLast(out, b) = [out EXCEPT ![Len(out)] = joined] BY <1>1 DEF JoinLast
<1> HIDE DEF joined
<1> QED BY <1>1, <1>3, <1>4

\* Blocks are merged one by one.
LEMMA MergeBlockRuns ==
  ASSUME NEW V, NEW base \in V, NEW seq, NEW n \in Nat, DOMAIN seq = 1..n,
         \A i \in 1..n : \A v \in V : MergeBlock(v, seq[i]) \in V
  PROVE  RunEnds(FoldLeft(MergeBlock, base, seq), n, V, base,
                 [i \in 1..n |-> [v \in V |-> MergeBlock(v, seq[i])]])
<1> DEFINE step == [i \in 1..n |-> [v \in V |-> MergeBlock(v, seq[i])]]
           F(g) == [s \in SUBSET (1..n) |->
                      IF s = {} THEN base ELSE MergeBlock(g[s \ {Max(s)}], seq[Max(s)])]
           iter == CHOOSE g : g = F(g)
<1>1. FoldLeft(MergeBlock, base, seq) = iter[1..n] BY DEF FoldLeft, MapThenFoldSet
<1>2. step \in [1..n -> [V -> V]]
      /\ \A i \in 1..n : \A v \in V : step[i][v] = MergeBlock(v, seq[i])
  OBVIOUS
<1> HIDE DEF step
<1>3. \A g : IsFold(g, n, V, base, step) => g = F(g)
  <2> SUFFICES ASSUME NEW g, IsFold(g, n, V, base, step) PROVE g = F(g) OBVIOUS
  <2>1. \A s \in SUBSET (1..n) : g[s] = F(g)[s] BY <1>2, Peels DEF IsFold
  <2>2. g = [s \in SUBSET (1..n) |-> g[s]] BY DEF IsFold
  <2> QED BY <2>1, <2>2
<1>4. iter = F(iter)
  <2>1. \E g : g = F(g) BY <1>2, <1>3, FoldExists
  <2> QED BY <2>1
<1> HIDE DEF iter
<1>5. Recurs(iter, n, V, base, step)
  <2>1. iter[{}] = base BY <1>4
  <2>2. \A s \in SUBSET (1..n) : s # {} => iter[s] = MergeBlock(iter[s \ {Max(s)}], seq[Max(s)])
    BY <1>4
  <2> QED BY <1>2, <2>1, <2>2, Peels DEF Recurs
<1>6. RunEnds(iter[1..n], n, V, base, step) BY <1>2, <1>5, FoldRuns
<1> QED BY <1>1, <1>6 DEF step

\* Blocks are grouped one by one.
LEMMA GroupBlockRuns ==
  ASSUME NEW V, NEW base \in V, NEW seq, NEW n \in Nat, DOMAIN seq = 1..n,
         \A i \in 1..n : \A v \in V : GroupBlock(v, seq[i]) \in V
  PROVE  RunEnds(FoldLeft(GroupBlock, base, seq), n, V, base,
                 [i \in 1..n |-> [v \in V |-> GroupBlock(v, seq[i])]])
<1> DEFINE step == [i \in 1..n |-> [v \in V |-> GroupBlock(v, seq[i])]]
           F(g) == [s \in SUBSET (1..n) |->
                      IF s = {} THEN base ELSE GroupBlock(g[s \ {Max(s)}], seq[Max(s)])]
           iter == CHOOSE g : g = F(g)
<1>1. FoldLeft(GroupBlock, base, seq) = iter[1..n] BY DEF FoldLeft, MapThenFoldSet
<1>2. step \in [1..n -> [V -> V]]
      /\ \A i \in 1..n : \A v \in V : step[i][v] = GroupBlock(v, seq[i])
  OBVIOUS
<1> HIDE DEF step
<1>3. \A g : IsFold(g, n, V, base, step) => g = F(g)
  <2> SUFFICES ASSUME NEW g, IsFold(g, n, V, base, step) PROVE g = F(g) OBVIOUS
  <2>1. \A s \in SUBSET (1..n) : g[s] = F(g)[s] BY <1>2, Peels DEF IsFold
  <2>2. g = [s \in SUBSET (1..n) |-> g[s]] BY DEF IsFold
  <2> QED BY <2>1, <2>2
<1>4. iter = F(iter)
  <2>1. \E g : g = F(g) BY <1>2, <1>3, FoldExists
  <2> QED BY <2>1
<1> HIDE DEF iter
<1>5. Recurs(iter, n, V, base, step)
  <2>1. iter[{}] = base BY <1>4
  <2>2. \A s \in SUBSET (1..n) : s # {} => iter[s] = GroupBlock(iter[s \ {Max(s)}], seq[Max(s)])
    BY <1>4
  <2> QED BY <1>2, <2>1, <2>2, Peels DEF Recurs
<1>6. RunEnds(iter[1..n], n, V, base, step) BY <1>2, <1>5, FoldRuns
<1> QED BY <1>1, <1>6 DEF step

\* Blocks are stitched one by one.
LEMMA StitchBlockRuns ==
  ASSUME NEW V, NEW base \in V, NEW seq, NEW n \in Nat, DOMAIN seq = 1..n,
         \A i \in 1..n : \A v \in V : StitchBlock(v, seq[i]) \in V
  PROVE  RunEnds(FoldLeft(StitchBlock, base, seq), n, V, base,
                 [i \in 1..n |-> [v \in V |-> StitchBlock(v, seq[i])]])
<1> DEFINE step == [i \in 1..n |-> [v \in V |-> StitchBlock(v, seq[i])]]
           F(g) == [s \in SUBSET (1..n) |->
                      IF s = {} THEN base ELSE StitchBlock(g[s \ {Max(s)}], seq[Max(s)])]
           iter == CHOOSE g : g = F(g)
<1>1. FoldLeft(StitchBlock, base, seq) = iter[1..n] BY DEF FoldLeft, MapThenFoldSet
<1>2. step \in [1..n -> [V -> V]]
      /\ \A i \in 1..n : \A v \in V : step[i][v] = StitchBlock(v, seq[i])
  OBVIOUS
<1> HIDE DEF step
<1>3. \A g : IsFold(g, n, V, base, step) => g = F(g)
  <2> SUFFICES ASSUME NEW g, IsFold(g, n, V, base, step) PROVE g = F(g) OBVIOUS
  <2>1. \A s \in SUBSET (1..n) : g[s] = F(g)[s] BY <1>2, Peels DEF IsFold
  <2>2. g = [s \in SUBSET (1..n) |-> g[s]] BY DEF IsFold
  <2> QED BY <2>1, <2>2
<1>4. iter = F(iter)
  <2>1. \E g : g = F(g) BY <1>2, <1>3, FoldExists
  <2> QED BY <2>1
<1> HIDE DEF iter
<1>5. Recurs(iter, n, V, base, step)
  <2>1. iter[{}] = base BY <1>4
  <2>2. \A s \in SUBSET (1..n) : s # {} => iter[s] = StitchBlock(iter[s \ {Max(s)}], seq[Max(s)])
    BY <1>4
  <2> QED BY <1>2, <2>1, <2>2, Peels DEF Recurs
<1>6. RunEnds(iter[1..n], n, V, base, step) BY <1>2, <1>5, FoldRuns
<1> QED BY <1>1, <1>6 DEF step

\* A manual is parsed into headings and blocks with a text.
LEMMA ParseTyped ==
  ASSUME NEW pages \in Seq(Readable)
  PROVE  Parse(pages) \in Seq(Heading \cup Body)
<1> DEFINE base == [blocks |-> <<>>, pending |-> NoName, last |-> NoTable, page |-> 0, tables |-> 0]
           read == FoldLeft(ParsePage, base, pages)
<1>1. base \in Parsing BY DEF Parsing, Titles
<1>2. Len(pages) \in Nat /\ DOMAIN pages = 1..Len(pages)
      /\ \A i \in 1..Len(pages) : \A v \in Parsing : ParsePage(v, pages[i]) \in Parsing
  BY ParsePageTyped
<1>3. read \in Parsing
  <2> HIDE DEF base
  <2> QED BY <1>1, <1>2, ParsePageRuns, RunStays
<1> DEFINE blocks == read.blocks
           V == Seq(Heading \cup Body)
<1>4. blocks \in V BY <1>3 DEF Parsing
<1>5. Parse(pages) = FoldLeft(MergeBlock, <<>>, blocks) BY DEF Parse, MergeProse
<1> HIDE DEF read, blocks
<1>6. ASSUME NEW i \in 1..Len(blocks), NEW v \in V PROVE MergeBlock(v, blocks[i]) \in V
  <2>1. blocks[i] \in Heading \cup Body BY <1>4, <1>6
  <2>2. CASE blocks[i].kind = "prose" /\ v # <<>> /\ Last(v).kind = "prose"
    <3>1. blocks[i] \in Prose BY <2>1, <2>2 DEF Heading, Body, Table, Flow, Prose
    <3> QED BY <2>2, <3>1, JoinProseTyped DEF MergeBlock
  <2>3. CASE ~(blocks[i].kind = "prose" /\ v # <<>> /\ Last(v).kind = "prose")
    BY <2>1, <2>3 DEF MergeBlock
  <2> QED BY <2>2, <2>3
<1>7. <<>> \in V /\ Len(blocks) \in Nat /\ DOMAIN blocks = 1..Len(blocks) BY <1>4
<1> HIDE DEF V
<1>8. FoldLeft(MergeBlock, <<>>, blocks) \in V BY <1>6, <1>7, MergeBlockRuns, RunStays
<1> QED BY <1>5, <1>8 DEF V

\* A group of blocks under their headings.
Grouped == [section : Titles, sub : Titles, blocks : Seq(Body)]

\* The groups so far, and the section they have come to.
Grouping == [section : Titles, groups : Seq(Grouped)]

\* Every block leaves them so.
LEMMA GroupBlockTyped ==
  ASSUME NEW v \in Grouping, NEW b \in Heading \cup Body
  PROVE  GroupBlock(v, b) \in Grouping
<1>0. v \in [section : Titles, groups : Seq(Grouped)]
      /\ v.section \in Titles /\ v.groups \in Seq(Grouped)
  BY DEF Grouping
<1>1. CASE b.kind = "heading"
  <2> DEFINE top == b.level \in {1, 2}
             section == IF top THEN b.name ELSE v.section
             group == [section |-> section, sub |-> IF top THEN NoName ELSE b.name, blocks |-> <<>>]
  <2>1. b.name \in Names BY <1>1 DEF Heading, Body, Prose, Table, Flow
  <2>2. section \in Titles /\ group \in Grouped BY <1>0, <2>1 DEF Titles, Grouped
  <2>3. GroupBlock(v, b) = [section |-> section, groups |-> Append(v.groups, group)]
    BY <1>1 DEF GroupBlock, NewGroup
  <2> HIDE DEF section, group
  <2> QED BY <1>0, <2>2, <2>3 DEF Grouping
<1>2. CASE b.kind # "heading"
  <2> DEFINE groups == IF v.groups = <<>> THEN <<NewGroup(v.section, NoName)>> ELSE v.groups
             last == groups[Len(groups)]
             filled == [last EXCEPT !.blocks = Append(@, b)]
  <2>1. b \in Body BY <1>2 DEF Heading
  <2>2. NewGroup(v.section, NoName) \in Grouped BY <1>0 DEF NewGroup, Grouped, Titles
  <2>3. groups \in Seq(Grouped) /\ groups # <<>> BY <1>0, <2>2
  <2>4. GroupBlock(v, b) = [v EXCEPT !.groups = [groups EXCEPT ![Len(groups)].blocks = Append(@, b)]]
    BY <1>2 DEF GroupBlock
  <2> HIDE DEF groups
  <2>5. Len(groups) \in 1..Len(groups) /\ last \in Grouped BY <2>3
  <2> DEFINE more == Append(last.blocks, b)
  <2>9. more \in Seq(Body) /\ filled = [last EXCEPT !.blocks = more] BY <2>1, <2>5 DEF Grouped
  <2>6. filled \in Grouped
    <3> HIDE DEF more, filled
    <3> QED BY <2>5, <2>9 DEF Grouped
  <2>7. [groups EXCEPT ![Len(groups)].blocks = Append(@, b)] = [groups EXCEPT ![Len(groups)] = filled]
    BY <2>5
  <2> HIDE DEF filled
  <2>8. [groups EXCEPT ![Len(groups)] = filled] \in Seq(Grouped) BY <2>3, <2>5, <2>6
  <2> QED BY <1>0, <2>4, <2>7, <2>8 DEF Grouping
<1> QED BY <1>1, <1>2 DEF Grouping

\* Blocks come to stand in groups, under headings.
LEMMA GroupTyped ==
  ASSUME NEW blocks \in Seq(Heading \cup Body)
  PROVE  Group(blocks) \in Seq(Grouped)
<1> DEFINE V == Grouping
           base == [section |-> NoName, groups |-> <<>>]
<1>2. base \in V BY DEF Grouping, Titles
<1>3. Len(blocks) \in Nat /\ DOMAIN blocks = 1..Len(blocks)
      /\ \A i \in 1..Len(blocks) : \A v \in V : GroupBlock(v, blocks[i]) \in V
  BY GroupBlockTyped
<1>4. FoldLeft(GroupBlock, base, blocks) \in V
  <2> HIDE DEF V, base
  <2> QED BY <1>2, <1>3, GroupBlockRuns, RunStays
<1> QED BY <1>4 DEF Group, Grouping

\* Stitched blocks are blocks.
LEMMA StitchTyped ==
  ASSUME NEW blocks \in Seq(Body)
  PROVE  Stitch(blocks) \in Seq(Body)
<1> DEFINE V == Seq(Body)
<1>1. ASSUME NEW i \in 1..Len(blocks), NEW v \in V PROVE StitchBlock(v, blocks[i]) \in V
  <2>1. CASE blocks[i].kind = "table" /\ blocks[i].cont /\ v # <<>> /\ Last(v).kind = "table"
    BY <2>1, JoinTyped DEF StitchBlock
  <2>2. CASE ~(blocks[i].kind = "table" /\ blocks[i].cont /\ v # <<>> /\ Last(v).kind = "table")
    BY <2>2 DEF StitchBlock
  <2> QED BY <2>1, <2>2
<1>2. <<>> \in V /\ Len(blocks) \in Nat /\ DOMAIN blocks = 1..Len(blocks) OBVIOUS
<1> HIDE DEF V
<1>3. FoldLeft(StitchBlock, <<>>, blocks) \in V BY <1>1, <1>2, StitchBlockRuns, RunStays
<1> QED BY <1>3 DEF Stitch, V

\* The pieces of blocks and of groups, put one behind the other.
CutOn(g, out, b) == out \o Cut(g, b, Split(b))

PiecesOn(out, g) == out \o GroupPieces(g)

CutAll(g, base, seq) == FoldLeft(LAMBDA out, b : out \o Cut(g, b, Split(b)), base, seq)

PiecesOf(base, seq) == FoldLeft(LAMBDA out, g : out \o GroupPieces(g), base, seq)

\* Blocks are cut one by one.
LEMMA CutAllRuns ==
  ASSUME NEW g, NEW V, NEW base \in V, NEW seq, NEW n \in Nat, DOMAIN seq = 1..n,
         \A i \in 1..n : \A v \in V : CutOn(g, v, seq[i]) \in V
  PROVE  RunEnds(CutAll(g, base, seq), n, V, base,
                 [i \in 1..n |-> [v \in V |-> CutOn(g, v, seq[i])]])
<1> DEFINE step == [i \in 1..n |-> [v \in V |-> CutOn(g, v, seq[i])]]
           F(f) == [s \in SUBSET (1..n) |->
                      IF s = {} THEN base ELSE CutOn(g, f[s \ {Max(s)}], seq[Max(s)])]
           iter == CHOOSE f : f = F(f)
<1>1. CutAll(g, base, seq) = iter[1..n] BY DEF CutAll, CutOn, FoldLeft, MapThenFoldSet
<1>2. step \in [1..n -> [V -> V]]
      /\ \A i \in 1..n : \A v \in V : step[i][v] = CutOn(g, v, seq[i])
  OBVIOUS
<1> HIDE DEF step
<1>3. \A f : IsFold(f, n, V, base, step) => f = F(f)
  <2> SUFFICES ASSUME NEW f, IsFold(f, n, V, base, step) PROVE f = F(f) OBVIOUS
  <2>1. \A s \in SUBSET (1..n) : f[s] = F(f)[s] BY <1>2, Peels DEF IsFold
  <2>2. f = [s \in SUBSET (1..n) |-> f[s]] BY DEF IsFold
  <2> QED BY <2>1, <2>2
<1>4. iter = F(iter)
  <2>1. \E f : f = F(f) BY <1>2, <1>3, FoldExists
  <2> QED BY <2>1
<1> HIDE DEF iter
<1>5. Recurs(iter, n, V, base, step)
  <2>1. iter[{}] = base BY <1>4
  <2>2. \A s \in SUBSET (1..n) : s # {} => iter[s] = CutOn(g, iter[s \ {Max(s)}], seq[Max(s)])
    BY <1>4
  <2> QED BY <1>2, <2>1, <2>2, Peels DEF Recurs
<1>6. RunEnds(iter[1..n], n, V, base, step) BY <1>2, <1>5, FoldRuns
<1> QED BY <1>1, <1>6 DEF step

\* Groups are cut one by one.
LEMMA PiecesOfRuns ==
  ASSUME NEW V, NEW base \in V, NEW seq, NEW n \in Nat, DOMAIN seq = 1..n,
         \A i \in 1..n : \A v \in V : PiecesOn(v, seq[i]) \in V
  PROVE  RunEnds(PiecesOf(base, seq), n, V, base,
                 [i \in 1..n |-> [v \in V |-> PiecesOn(v, seq[i])]])
<1> DEFINE step == [i \in 1..n |-> [v \in V |-> PiecesOn(v, seq[i])]]
           F(g) == [s \in SUBSET (1..n) |->
                      IF s = {} THEN base ELSE PiecesOn(g[s \ {Max(s)}], seq[Max(s)])]
           iter == CHOOSE g : g = F(g)
<1>1. PiecesOf(base, seq) = iter[1..n] BY DEF PiecesOf, PiecesOn, FoldLeft, MapThenFoldSet
<1>2. step \in [1..n -> [V -> V]]
      /\ \A i \in 1..n : \A v \in V : step[i][v] = PiecesOn(v, seq[i])
  OBVIOUS
<1> HIDE DEF step
<1>3. \A g : IsFold(g, n, V, base, step) => g = F(g)
  <2> SUFFICES ASSUME NEW g, IsFold(g, n, V, base, step) PROVE g = F(g) OBVIOUS
  <2>1. \A s \in SUBSET (1..n) : g[s] = F(g)[s] BY <1>2, Peels DEF IsFold
  <2>2. g = [s \in SUBSET (1..n) |-> g[s]] BY DEF IsFold
  <2> QED BY <2>1, <2>2
<1>4. iter = F(iter)
  <2>1. \E g : g = F(g) BY <1>2, <1>3, FoldExists
  <2> QED BY <2>1
<1> HIDE DEF iter
<1>5. Recurs(iter, n, V, base, step)
  <2>1. iter[{}] = base BY <1>4
  <2>2. \A s \in SUBSET (1..n) : s # {} => iter[s] = PiecesOn(iter[s \ {Max(s)}], seq[Max(s)])
    BY <1>4
  <2> QED BY <1>2, <2>1, <2>2, Peels DEF Recurs
<1>6. RunEnds(iter[1..n], n, V, base, step) BY <1>2, <1>5, FoldRuns
<1> QED BY <1>1, <1>6 DEF step

\* A piece of a block.
Piece ==
  {p \in [group : Grouped, block : Body, lines : Seq(Line)] : p.lines \in Fitting(Prefix(p.block))}

\* The pieces of a block fit.
LEMMA CutTyped ==
  ASSUME NEW g \in Grouped, NEW b \in Body
  PROVE  Cut(g, b, Split(b)) \in Seq(Piece)
<1> DEFINE parts == Split(b)
<1>1. parts \in Seq(Fitting(Prefix(b))) BY SplitFits
<1> HIDE DEF parts
<1>2. \A k \in 1..Len(parts) : [group |-> g, block |-> b, lines |-> parts[k]] \in Piece
  BY <1>1 DEF Piece, Fitting
<1>3. Len(parts) \in Nat /\ DOMAIN parts = 1..Len(parts) BY <1>1
<1>4. Cut(g, b, parts) = [k \in 1..Len(parts) |-> [group |-> g, block |-> b, lines |-> parts[k]]]
  BY <1>3 DEF Cut
<1>5. Cut(g, b, parts) \in Seq(Piece) BY <1>2, <1>3, <1>4
<1> QED BY <1>5 DEF parts

\* So do the pieces of a group.
LEMMA GroupPiecesTyped ==
  ASSUME NEW g \in Grouped
  PROVE  GroupPieces(g) \in Seq(Piece)
<1> DEFINE V == Seq(Piece)
           blocks == Stitch(g.blocks)
<1>1. blocks \in Seq(Body) BY StitchTyped DEF Grouped
<1>2. GroupPieces(g) = CutAll(g, <<>>, blocks) BY DEF GroupPieces, CutAll
<1> HIDE DEF blocks
<1>3. <<>> \in V /\ Len(blocks) \in Nat /\ DOMAIN blocks = 1..Len(blocks) BY <1>1
<1>4. \A i \in 1..Len(blocks) : \A v \in V : CutOn(g, v, blocks[i]) \in V
  <2>1. \A i \in 1..Len(blocks) : Cut(g, blocks[i], Split(blocks[i])) \in V BY <1>1, CutTyped
  <2> QED BY <2>1 DEF CutOn
<1> HIDE DEF V
<1>5. CutAll(g, <<>>, blocks) \in V BY <1>3, <1>4, CutAllRuns, RunStays
<1> QED BY <1>2, <1>5 DEF V

\* What a manual is cut into.
LEMMA PiecesTyped ==
  ASSUME NEW pages \in Seq(Readable)
  PROVE  Pieces(pages) \in Seq(Piece)
<1> DEFINE V == Seq(Piece)
           groups == Group(Parse(pages))
<1>1. groups \in Seq(Grouped) BY ParseTyped, GroupTyped
<1>2. Pieces(pages) = PiecesOf(<<>>, groups) BY DEF Pieces, PiecesOf
<1> HIDE DEF groups
<1>3. <<>> \in V /\ Len(groups) \in Nat /\ DOMAIN groups = 1..Len(groups) BY <1>1
<1>4. \A i \in 1..Len(groups) : \A v \in V : PiecesOn(v, groups[i]) \in V
  <2>1. \A i \in 1..Len(groups) : GroupPieces(groups[i]) \in V BY <1>1, GroupPiecesTyped
  <2> QED BY <2>1 DEF PiecesOn
<1> HIDE DEF V
<1>5. PiecesOf(<<>>, groups) \in V BY <1>3, <1>4, PiecesOfRuns, RunStays
<1> QED BY <1>2, <1>5 DEF V

-----------------------------------------------------------------------------
(* Chunks.                                                                 *)

\* No two pieces share a lineage.
LEMMA LineageUnique ==
  ASSUME NEW pieces, NEW i \in Nat, NEW j \in Nat, i < j, 0 < i
  PROVE  Lineage(pieces, i) # Lineage(pieces, j)
<1> SUFFICES ASSUME Lineage(pieces, i) = Lineage(pieces, j) PROVE FALSE OBVIOUS
<1> DEFINE key == LineageKey(pieces[i])
           S == {k \in 1..i : LineageKey(pieces[k]) = key}
           T == {k \in 1..j : LineageKey(pieces[k]) = key}
<1>1. key = LineageKey(pieces[j]) /\ Cardinality(S) = Cardinality(T) BY DEF Lineage
<1>2. S \in SUBSET T /\ j \in T /\ j \notin S BY <1>1
<1>3. IsFiniteSet(T)
  <2>1. IsFiniteSet(1..j) BY FS_Interval
  <2>2. T \in SUBSET (1..j) OBVIOUS
  <2> QED BY <2>1, <2>2, FS_Subset
<1> HIDE DEF S, T
<1>4. S = T BY <1>1, <1>2, <1>3, FS_Subset
<1> QED BY <1>2, <1>4

\* Sequences of no type in particular.
IsSeq(s) == s \in Seq(ToSet(s))

\* What is known of any sequence.
LEMMA SeqFacts ==
  ASSUME NEW s, IsSeq(s)
  PROVE  /\ Len(s) \in Nat /\ DOMAIN s = 1..Len(s) /\ ToSet(s) = {s[i] : i \in 1..Len(s)}
         /\ \A i \in 1..Len(s) : s[i] \in ToSet(s)
         /\ \A x \in ToSet(s) : \E i \in 1..Len(s) : x = s[i]
<1>1. Len(s) \in Nat /\ DOMAIN s = 1..Len(s) BY DEF IsSeq
<1>2. ToSet(s) = {s[i] : i \in 1..Len(s)} BY <1>1 DEF ToSet
<1> QED BY <1>1, <1>2

\* A function on 1..n is a sequence.
LEMMA SeqMade ==
  ASSUME NEW s, NEW n \in Nat, DOMAIN s = 1..n, s = [i \in 1..n |-> s[i]]
  PROVE  IsSeq(s) /\ Len(s) = n
<1>1. \A i \in 1..n : s[i] \in ToSet(s) BY DEF ToSet
<1>2. s \in Seq(ToSet(s)) BY <1>1
<1>3. Len(s) = n BY <1>2
<1> QED BY <1>2, <1>3 DEF IsSeq

\* A concatenation, element by element.
LEMMA SeqJoined ==
  ASSUME NEW s, NEW t, IsSeq(s), IsSeq(t), NEW n, NEW m, n = Len(s), m = Len(t),
         NEW all, all = s \o t
  PROVE  /\ n \in Nat /\ m \in Nat /\ IsSeq(all) /\ Len(all) = n + m /\ DOMAIN all = 1..n + m
         /\ \A i \in 1..n : all[i] = s[i]
         /\ \A i \in n + 1..n + m : all[i] = t[i - n] /\ i - n \in 1..m
<1> DEFINE T == ToSet(s) \cup ToSet(t)
           u == s \o t
<1>1. n \in Nat /\ m \in Nat BY SeqFacts
<1>2. s \in Seq(T) /\ t \in Seq(T)
  <2>1. ToSet(s) \subseteq T /\ ToSet(t) \subseteq T OBVIOUS
  <2> HIDE DEF T
  <2> QED BY <2>1 DEF IsSeq
<1> HIDE DEF T
<1>3. Len(u) = n + m /\ DOMAIN u = 1..n + m /\ u = [i \in 1..n + m |-> u[i]]
  <2>1. Len(u) = n + m /\ u \in Seq(T) BY <1>2
  <2> HIDE DEF u
  <2> QED BY <1>1, <2>1
<1>4. \A i \in 1..n : u[i] = s[i] BY <1>1, <1>2
<1>5. \A i \in n + 1..n + m : i - n \in 1..m /\ u[i] = t[i - n]
  <2>1. ASSUME NEW i \in n + 1..n + m PROVE i - n \in 1..m /\ u[i] = t[i - n]
    <3>1. i - n \in 1..m /\ i \in 1..n + m /\ ~(i <= n) BY <1>1
    <3> QED BY <1>1, <1>2, <3>1
  <2> QED BY <2>1
<1> HIDE DEF u
<1>6. IsSeq(u) BY <1>1, <1>3, SeqMade
<1> QED BY <1>1, <1>3, <1>4, <1>5, <1>6 DEF u

\* A concatenation, as a set.
LEMMA SetJoined ==
  ASSUME NEW s, NEW t, IsSeq(s), IsSeq(t)
  PROVE  /\ IsSeq(s \o t) /\ Len(s \o t) = Len(s) + Len(t)
         /\ ToSet(s \o t) = ToSet(s) \cup ToSet(t)
<1> DEFINE n == Len(s)
           m == Len(t)
           u == s \o t
<1>1. n = Len(s) /\ m = Len(t) /\ u = s \o t OBVIOUS
<1> HIDE DEF n, m, u
<1>2. n \in Nat /\ m \in Nat /\ IsSeq(u) /\ Len(u) = n + m /\ DOMAIN u = 1..n + m
  <2>1. n \in Nat /\ m \in Nat BY <1>1, SeqFacts
  <2>2. DOMAIN u = 1..n + m BY <1>1, SeqJoined
  <2>3. IsSeq(u) BY <1>1, SeqJoined
  <2>4. Len(u) = n + m BY <1>1, SeqJoined
  <2> QED BY <2>1, <2>2, <2>3, <2>4
<1>3. \A i \in 1..n : u[i] = s[i] BY <1>1, SeqJoined
<1>4. \A i \in n + 1..n + m : u[i] = t[i - n] /\ i - n \in 1..m BY <1>1, SeqJoined
<1>5. ToSet(u) = ToSet(s) \cup ToSet(t)
  <2>1. ASSUME NEW i \in 1..n + m PROVE u[i] \in ToSet(s) \cup ToSet(t)
    <3>1. CASE i \in 1..n BY <1>1, <1>3, <3>1, SeqFacts
    <3>2. CASE i \in n + 1..n + m BY <1>1, <1>4, <3>2, SeqFacts
    <3> QED BY <1>2, <3>1, <3>2
  <2>2. ASSUME NEW i \in 1..n PROVE s[i] \in ToSet(u)
    <3>1. i \in 1..n + m BY <1>2
    <3> QED BY <1>2, <1>3, <3>1, SeqFacts
  <2>3. ASSUME NEW i \in 1..m PROVE t[i] \in ToSet(u)
    <3>1. n + i \in n + 1..n + m /\ n + i \in 1..n + m /\ (n + i) - n = i BY <1>2
    <3>2. u[n + i] = t[i] BY <1>4, <3>1
    <3> QED BY <1>2, <3>1, <3>2, SeqFacts
  <2>4. \A x \in ToSet(u) : x \in ToSet(s) \cup ToSet(t) BY <1>2, <2>1, SeqFacts
  <2>5. \A x \in ToSet(s) : x \in ToSet(u) BY <1>1, <2>2, SeqFacts
  <2>6. \A x \in ToSet(t) : x \in ToSet(u) BY <1>1, <2>3, SeqFacts
  <2> QED BY <2>4, <2>5, <2>6
<1> QED BY <1>1, <1>2, <1>5 DEF n, m, u

\* What is true of the chunks of every manual.
Fits(c) ==
  c.tokens <= OverlapTokens + (IF c.atom > MaxTokens THEN c.atom ELSE MaxTokens)

WellChunked(chunks) ==
  /\ IsSeq(chunks)
  /\ \A i \in 1..Len(chunks) :
       /\ DOMAIN chunks[i] = {"doc", "edition", "revision", "pos", "text", "tokens", "atom",
                              "kind", "page", "section", "sub", "table", "lineage"}
       /\ chunks[i].pos = i - 1 /\ chunks[i].tokens \in Nat /\ Fits(chunks[i])
  /\ \A i, j \in 1..Len(chunks) : chunks[i].lineage = chunks[j].lineage => i = j

\* What chunk returns for any manual: positions in order, lengths within the limit,
\* and no lineage twice.
LEMMA ChunkWell ==
  ASSUME NEW pages \in Seq(Readable)
  PROVE  WellChunked(Chunk(pages))
<1> DEFINE pieces == Pieces(pages)
           chunks == Chunk(pages)
           n == Len(pieces)
<1>1. pieces \in Seq(Piece) BY PiecesTyped
<1>2. n \in Nat /\ DOMAIN pieces = 1..n /\ \A i \in 1..n : pieces[i] \in Piece BY <1>1
<1>3. chunks = [i \in 1..n |-> ChunkOf(pieces[i], i - 1, Lineage(pieces, i))]
  BY <1>2 DEF Chunk, Chunked
<1> HIDE DEF pieces, chunks, n
<1>4. IsSeq(chunks) /\ Len(chunks) = n BY <1>2, <1>3, SeqMade
<1>5. ASSUME NEW i \in 1..n
      PROVE  chunks[i].tokens \in Nat /\ Fits(chunks[i])
  <2> DEFINE piece == pieces[i]
  <2>1. piece \in Piece BY <1>2
  <2>2. chunks[i] = ChunkOf(piece, i - 1, Lineage(pieces, i)) BY <1>3
  <2> HIDE DEF piece
  <2>3. piece.block \in Body /\ piece.lines \in Seq(Line) /\ FitsWith(Prefix(piece.block), piece.lines)
    BY <2>1 DEF Piece, Fitting
  <2>4. Prefix(piece.block) \in Nat /\ Tokens(piece.lines) \in Nat BY <2>3, SplitFits, TokensNat
  <2>5. chunks[i].tokens = Prefix(piece.block) + Tokens(piece.lines)
        /\ chunks[i].atom = Prefix(piece.block)
                            + (IF piece.lines = <<>> THEN 0 ELSE Last(piece.lines).size)
    BY <2>2 DEF ChunkOf
  <2>6. chunks[i].tokens \in Nat BY <2>4, <2>5
  <2>7. Fits(chunks[i]) BY <2>3, <2>5 DEF Fits, FitsWith
  <2> QED BY <2>6, <2>7
<1>6. ASSUME NEW i \in 1..n PROVE chunks[i].pos = i - 1 /\ chunks[i].lineage = Lineage(pieces, i)
        /\ DOMAIN chunks[i] = {"doc", "edition", "revision", "pos", "text", "tokens", "atom",
                              "kind", "page", "section", "sub", "table", "lineage"}
  BY <1>3 DEF ChunkOf
<1>7. ASSUME NEW i \in 1..n, NEW j \in 1..n, chunks[i].lineage = chunks[j].lineage PROVE i = j
  <2>1. Lineage(pieces, i) = Lineage(pieces, j) BY <1>6, <1>7
  <2>2. i \in Nat /\ j \in Nat /\ 0 < i /\ 0 < j BY <1>2
  <2>3. ~(i < j) /\ ~(j < i) BY <2>1, <2>2, LineageUnique
  <2> QED BY <2>2, <2>3
<1>8. WellChunked(chunks) BY <1>4, <1>5, <1>6, <1>7 DEF WellChunked
<1> QED BY <1>8 DEF chunks

-----------------------------------------------------------------------------
(* Manuals on disk.                                                        *)

OnDisk == (UNION {Editions[d] : d \in Documents}) \cup {shelf[d] : shelf \in Shelves, d \in Documents}

Caps == [Images -> {"none", "torn", "whole"}]

\* What an edition is chunked into.
Draft(e, cap) == Chunk(ShownPages(e, cap))

\* What is seen of an image has its marked lines in it.
LEMMA SeenReadable ==
  ASSUME NEW q \in Picture, q.text # <<>>, q.marked \in 0..Len(q.text), NEW cap
  PROVE  LET seen == Seen(q, cap)
         IN seen.text \in Seq(Line) /\ seen.marked \in 0..Len(seen.text)
<1>1. q.text \in Seq(Line) BY DEF Picture
<1>2. CASE q.image = NoName \/ cap[q.image] = "whole" BY <1>1, <1>2 DEF Seen
<1>3. CASE ~(q.image = NoName \/ cap[q.image] = "whole")
  <2> DEFINE text == IF cap[q.image] = "torn" THEN SubSeq(q.text, 1, 1) ELSE <<>>
             seen == [q EXCEPT !.text = text, !.marked = 0]
  <2>1. Seen(q, cap) = seen BY <1>3 DEF Seen
  <2>2. SubSeq(q.text, 1, 1) \in Seq(Line) BY <1>1
  <2>3. text \in Seq(Line) BY <2>2
  <2> HIDE DEF text
  <2>4. Len(text) \in Nat /\ 0 \in 0..Len(text) BY <2>3
  <2>5. seen.text = text /\ seen.marked = 0 BY DEF Picture
  <2> HIDE DEF seen
  <2> QED BY <2>1, <2>3, <2>4, <2>5
<1> QED BY <1>2, <1>3

\* A page is shown with the lines of one of its images, or with none.
LEMMA ShownPageReadable ==
  ASSUME NEW page \in Page, NEW cap,
         \A q \in ToSet(page.pictures) : q.text # <<>> /\ q.marked \in 0..Len(q.text)
  PROVE  Shown(page, cap) \in Readable
<1> DEFINE n == Len(page.pictures)
           seen == [i \in DOMAIN page.pictures |-> Seen(page.pictures[i], cap)]
           with == {i \in DOMAIN seen : seen[i].text # <<>>}
           last == CHOOSE i \in with : \A j \in with : j <= i
           shown == [items |-> page.items,
                     diagram |-> IF with = {} THEN <<>> ELSE seen[last].text,
                     marked |-> IF with = {} THEN 0 ELSE seen[last].marked]
<1>1. page.items \in Seq(Item) /\ page.pictures \in Seq(Picture) BY DEF Page
<1>2. n \in Nat /\ DOMAIN page.pictures = 1..n
      /\ \A i \in 1..n : page.pictures[i] \in Picture /\ page.pictures[i] \in ToSet(page.pictures)
  BY <1>1 DEF ToSet
<1>3. ASSUME NEW i \in 1..n
      PROVE  seen[i].text \in Seq(Line) /\ seen[i].marked \in 0..Len(seen[i].text)
  <2>1. seen[i] = Seen(page.pictures[i], cap) BY <1>2
  <2> HIDE DEF seen
  <2> QED BY <1>2, <2>1, SeenReadable
<1>4. with \in SUBSET (1..n) BY <1>2
<1>5. Shown(page, cap) = shown BY DEF Shown
<1> HIDE DEF seen, with
<1>6. CASE with = {}
  <2>1. shown = [items |-> page.items, diagram |-> <<>>, marked |-> 0] BY <1>6
  <2> HIDE DEF shown
  <2>2. <<>> \in Seq(Line) /\ Len(<<>>) = 0 OBVIOUS
  <2>3. [items |-> page.items, diagram |-> <<>>, marked |-> 0] \in Readable
    BY <1>1, <2>2 DEF Readable
  <2> QED BY <1>5, <2>1, <2>3
<1>7. CASE with # {}
  <2>1. PICK m \in with : \A j \in with : j <= m BY <1>2, <1>4, <1>7, HasTop
  <2>2. last \in with BY <2>1
  <2> HIDE DEF last
  <2>3. seen[last].text \in Seq(Line) /\ seen[last].marked \in 0..Len(seen[last].text)
    BY <1>3, <1>4, <2>2
  <2>4. shown = [items |-> page.items, diagram |-> seen[last].text, marked |-> seen[last].marked]
    BY <1>7
  <2>5. seen[last].marked \in Nat BY <2>3
  <2> QED BY <1>1, <1>5, <2>3, <2>4, <2>5 DEF Readable
<1> QED BY <1>6, <1>7

\* The pages of an edition on disk can be read, whatever captions they had.
LEMMA ShownReadable ==
  ASSUME NEW e \in OnDisk, NEW cap \in Caps
  PROVE  ShownPages(e, cap) \in Seq(Readable)
<1> DEFINE pages == Content(e)
<1>1. pages \in Seq(Page)
      /\ \A p \in ToSet(pages) : \A q \in ToSet(p.pictures) :
           q.text # <<>> /\ q.marked \in 0..Len(q.text)
  BY ManualsAreRead DEF OnDisk
<1>2. ShownPages(e, cap) = [i \in 1..Len(pages) |-> Shown(pages[i], cap)]
  BY <1>1 DEF ShownPages
<1> HIDE DEF pages
<1>3. Len(pages) \in Nat /\ \A i \in 1..Len(pages) : pages[i] \in ToSet(pages) /\ pages[i] \in Page
  BY <1>1 DEF ToSet
<1>4. ASSUME NEW i \in 1..Len(pages) PROVE Shown(pages[i], cap) \in Readable
  BY <1>1, <1>3, ShownPageReadable
<1> QED BY <1>2, <1>3, <1>4

\* An edition on disk is chunked well, whatever captions it had.
LEMMA DraftWell ==
  ASSUME NEW e \in OnDisk, NEW cap \in Caps
  PROVE  WellChunked(Draft(e, cap))
BY ShownReadable, ChunkWell DEF Draft

\* The fields of every chunk.
Fields == {"doc", "edition", "revision", "pos", "text", "tokens", "atom", "kind", "page",
           "section", "sub", "table", "lineage"}

\* Where each document of some chunks was read: an edition and its captions.
Sources == [Documents -> [edition : OnDisk, cap : Caps]]

DraftAt(s) == Draft(s.edition, s.cap)

\* A chunk of a draft, with its document and its revision.
Copy(c, d, e, r) == [c EXCEPT !.doc = d, !.edition = e, !.revision = r]

\* The chunks are those of the drafts, one after the other, but for their revision.
FromSource(chunks, src) ==
  /\ IsSeq(chunks)
  /\ \A i \in 1..Len(chunks) :
       /\ chunks[i].doc \in Documents /\ chunks[i].pos \in Nat
       /\ chunks[i].pos + 1 \in 1..Len(DraftAt(src[chunks[i].doc]))
       /\ chunks[i] = Copy(DraftAt(src[chunks[i].doc])[chunks[i].pos + 1], chunks[i].doc,
                           src[chunks[i].doc].edition, chunks[i].revision)
       /\ chunks[i].pos > 0 => /\ i > 1 /\ chunks[i - 1].doc = chunks[i].doc
                               /\ chunks[i - 1].pos = chunks[i].pos - 1
  /\ \A i, j \in 1..Len(chunks) :
       chunks[i].doc = chunks[j].doc /\ chunks[i].pos = chunks[j].pos => i = j

\* What is known of such a chunk.
LEMMA SourceChunk ==
  ASSUME NEW chunks, NEW src \in Sources, FromSource(chunks, src), NEW i \in 1..Len(chunks)
  PROVE  LET c == chunks[i]
             o == DraftAt(src[c.doc])[c.pos + 1]
         IN /\ DOMAIN c = Fields /\ src[c.doc].edition \in OnDisk /\ src[c.doc].cap \in Caps
            /\ c.edition = src[c.doc].edition /\ c.text = o.text /\ c.tokens = o.tokens
            /\ c.atom = o.atom /\ c.lineage = o.lineage /\ c.kind = o.kind
            /\ c.section = o.section /\ c.sub = o.sub /\ c.table = o.table
            /\ c.tokens \in Nat /\ Fits(c)
<1> DEFINE c == chunks[i]
           s == src[c.doc]
           o == DraftAt(s)[c.pos + 1]
<1>1. c.doc \in Documents /\ c.pos + 1 \in 1..Len(DraftAt(s))
      /\ c = Copy(o, c.doc, s.edition, c.revision)
  BY DEF FromSource
<1>2. s.edition \in OnDisk /\ s.cap \in Caps BY <1>1 DEF Sources
<1>3. WellChunked(DraftAt(s)) BY <1>2, DraftWell DEF DraftAt
<1> HIDE DEF c, s
<1>4. DOMAIN o = Fields /\ o.tokens \in Nat /\ Fits(o) BY <1>1, <1>3 DEF WellChunked, Fields
<1> HIDE DEF o
<1>5. /\ DOMAIN c = Fields /\ c.edition = s.edition /\ c.text = o.text /\ c.tokens = o.tokens
      /\ c.atom = o.atom /\ c.lineage = o.lineage /\ c.kind = o.kind
      /\ c.section = o.section /\ c.sub = o.sub /\ c.table = o.table
  BY <1>1, <1>4 DEF Fields, Copy
<1>6. Fits(c) BY <1>4, <1>5 DEF Fits
<1> QED BY <1>2, <1>4, <1>5, <1>6 DEF c, s, o

\* No chunks are those of any source.
LEMMA NoChunks == ASSUME NEW src PROVE FromSource(<<>>, src)
<1>1. Len(<<>>) = 0 /\ 1..0 = {} OBVIOUS
<1>2. IsSeq(<<>>) BY DEF IsSeq
<1> QED BY <1>1, <1>2 DEF FromSource

\* No two chunks of a document share a lineage.
Distinct(chunks) ==
  \A i, j \in DOMAIN chunks : i # j /\ LineageOf(chunks[i]) = LineageOf(chunks[j])
                                => chunks[i].doc # chunks[j].doc

\* The lineages of a document read once are its own.
LEMMA SourceDistinct ==
  ASSUME NEW chunks, NEW src \in Sources, FromSource(chunks, src)
  PROVE  Distinct(chunks)
<1>1. DOMAIN chunks = 1..Len(chunks) BY SeqFacts DEF FromSource
<1>2. ASSUME NEW i \in 1..Len(chunks), NEW j \in 1..Len(chunks),
             LineageOf(chunks[i]) = LineageOf(chunks[j]), chunks[i].doc = chunks[j].doc
      PROVE  i = j
  <2> DEFINE s == src[chunks[i].doc]
             draft == DraftAt(s)
  <2>1. s.edition \in OnDisk /\ s.cap \in Caps BY SourceChunk
  <2>2. WellChunked(draft) BY <2>1, DraftWell DEF DraftAt
  <2>3. chunks[i].lineage = draft[chunks[i].pos + 1].lineage BY SourceChunk
  <2>4. chunks[j].lineage = draft[chunks[j].pos + 1].lineage BY <1>2, SourceChunk
  <2>5. chunks[i].lineage = chunks[j].lineage BY <1>2 DEF LineageOf
  <2>6. chunks[i].pos + 1 \in 1..Len(draft) /\ chunks[j].pos + 1 \in 1..Len(draft)
        /\ chunks[i].pos \in Nat /\ chunks[j].pos \in Nat
    BY <1>2 DEF FromSource
  <2> HIDE DEF draft
  <2>7. chunks[i].pos + 1 = chunks[j].pos + 1 BY <2>2, <2>3, <2>4, <2>5, <2>6 DEF WellChunked
  <2>8. chunks[i].pos = chunks[j].pos BY <2>6, <2>7
  <2> QED BY <1>2, <2>8 DEF FromSource
<1> QED BY <1>1, <1>2 DEF Distinct

\* The chunks of an edition of a document.
Filed(chunks, d, e) == [i \in DOMAIN chunks |-> [chunks[i] EXCEPT !.doc = d, !.edition = e]]

\* A document that is read is put behind the others.
LEMMA SourceAppend ==
  ASSUME NEW out, NEW src \in Sources, FromSource(out, src), NEW d \in Documents,
         NEW e \in OnDisk, NEW cap \in Caps, \A c \in ToSet(out) : c.doc # d,
         NEW new, new = Filed(Draft(e, cap), d, e)
  PROVE  /\ FromSource(out \o new, [src EXCEPT ![d] = [edition |-> e, cap |-> cap]])
         /\ [src EXCEPT ![d] = [edition |-> e, cap |-> cap]] \in Sources
         /\ \A c \in ToSet(out \o new) : c \in ToSet(out) \/ (c.doc = d /\ c.edition = e)
<1> DEFINE s == [edition |-> e, cap |-> cap]
           src2 == [src EXCEPT ![d] = s]
           draft == Draft(e, cap)
           n == Len(out)
           m == Len(new)
           all == out \o new
<1>1. WellChunked(draft) BY DraftWell
<1> HIDE DEF draft
<1>2. Len(draft) \in Nat /\ DOMAIN draft = 1..Len(draft)
      /\ \A i \in 1..Len(draft) : DOMAIN draft[i] = Fields /\ draft[i].pos = i - 1
  <2>1. IsSeq(draft) BY <1>1 DEF WellChunked
  <2> QED BY <1>1, <2>1, SeqFacts DEF WellChunked, Fields
<1>3. new = [i \in 1..Len(draft) |-> [draft[i] EXCEPT !.doc = d, !.edition = e]]
  BY <1>2 DEF draft, Filed
<1>4. IsSeq(new) /\ m = Len(draft) BY <1>2, <1>3, SeqMade
<1>5. IsSeq(out) BY DEF FromSource
<1>6. \A i \in 1..m : /\ DOMAIN new[i] = Fields /\ new[i].doc = d /\ new[i].edition = e
                      /\ new[i].pos = i - 1
                      /\ new[i] = Copy(draft[i], d, e, new[i].revision)
  <2> SUFFICES ASSUME NEW i \in 1..m
               PROVE  /\ DOMAIN new[i] = Fields /\ new[i].doc = d /\ new[i].edition = e
                      /\ new[i].pos = i - 1
                      /\ new[i] = Copy(draft[i], d, e, new[i].revision)
    OBVIOUS
  <2> DEFINE x == draft[i]
  <2>1. new[i] = [x EXCEPT !.doc = d, !.edition = e] BY <1>3, <1>4
  <2>2. DOMAIN x = Fields /\ x.pos = i - 1 BY <1>2, <1>4
  <2> HIDE DEF x
  <2>3. DOMAIN new[i] = Fields /\ new[i].doc = d /\ new[i].edition = e /\ new[i].pos = i - 1
    BY <2>1, <2>2 DEF Fields
  <2>4. new[i] = Copy(x, d, e, new[i].revision)
    BY <2>1, <2>2 DEF Fields, Copy
  <2> QED BY <2>3, <2>4 DEF x
<1> HIDE DEF n, m, all
<1>7. n \in Nat /\ m \in Nat BY <1>4, <1>5, SeqFacts DEF n, m
<1>20. n = Len(out) /\ m = Len(new) /\ all = out \o new BY DEF n, m, all
<1>8. /\ IsSeq(all) /\ Len(all) = n + m /\ DOMAIN all = 1..n + m
      /\ ToSet(all) = ToSet(out) \cup ToSet(new)
  <2>1. IsSeq(new) /\ IsSeq(out) BY <1>4, <1>5
  <2>2. ToSet(all) = ToSet(out) \cup ToSet(new) BY <1>20, <2>1, SetJoined
  <2>3. DOMAIN all = 1..n + m BY <1>20, <2>1, SeqJoined
  <2>4. IsSeq(all) /\ Len(all) = n + m BY <1>20, <2>1, SetJoined
  <2> QED BY <2>2, <2>3, <2>4
<1>18. \A i \in 1..n : all[i] = out[i] BY <1>4, <1>5, <1>20, SeqJoined
<1>19. \A i \in n + 1..n + m : all[i] = new[i - n] /\ i - n \in 1..m
  BY <1>4, <1>5, <1>20, SeqJoined
<1>9. DOMAIN out = 1..n /\ \A i \in 1..n : out[i] \in ToSet(out) BY <1>5, SeqFacts DEF n
<1>10. src2 \in Sources /\ src2[d] = s /\ \A x \in Documents \ {d} : src2[x] = src[x]
  <2>1. s \in [edition : OnDisk, cap : Caps] OBVIOUS
  <2> HIDE DEF s
  <2> QED BY <2>1 DEF Sources
<1> HIDE DEF src2
<1>11. \A i \in 1..n : out[i].doc # d BY <1>9
<1>12. ASSUME NEW i \in 1..n
       PROVE  /\ all[i] = out[i] /\ all[i].doc \in Documents \ {d} /\ all[i].pos \in Nat
              /\ all[i].pos + 1 \in 1..Len(DraftAt(src2[all[i].doc]))
              /\ all[i] = Copy(DraftAt(src2[all[i].doc])[all[i].pos + 1], all[i].doc,
                             src2[all[i].doc].edition, all[i].revision)
              /\ all[i].pos > 0 => /\ i > 1 /\ all[i - 1].doc = all[i].doc
                                   /\ all[i - 1].pos = all[i].pos - 1
  <2>1. all[i] = out[i] /\ (i > 1 => all[i - 1] = out[i - 1])
    <3>1. i > 1 => i - 1 \in 1..n BY <1>7
    <3> QED BY <1>18, <3>1
  <2>2. out[i].doc \in Documents /\ out[i].doc # d BY <1>11 DEF FromSource, n
  <2>3. src2[out[i].doc] = src[out[i].doc] BY <1>10, <2>2
  <2>4. /\ out[i].pos \in Nat
        /\ out[i].pos + 1 \in 1..Len(DraftAt(src[out[i].doc]))
        /\ out[i] = Copy(DraftAt(src[out[i].doc])[out[i].pos + 1], out[i].doc,
                             src[out[i].doc].edition, out[i].revision)
        /\ out[i].pos > 0 => /\ i > 1 /\ out[i - 1].doc = out[i].doc
                             /\ out[i - 1].pos = out[i].pos - 1
    BY DEF FromSource, n
  <2> QED BY <2>1, <2>2, <2>3, <2>4
<1>13. ASSUME NEW i \in n + 1..n + m
       PROVE  /\ all[i] = new[i - n] /\ all[i].doc = d /\ all[i].pos = i - n - 1
              /\ all[i].pos \in Nat /\ all[i].edition = e
              /\ all[i].pos + 1 \in 1..Len(DraftAt(src2[all[i].doc]))
              /\ all[i] = Copy(DraftAt(src2[all[i].doc])[all[i].pos + 1], all[i].doc,
                             src2[all[i].doc].edition, all[i].revision)
              /\ all[i].pos > 0 => /\ i > 1 /\ all[i - 1].doc = all[i].doc
                                   /\ all[i - 1].pos = all[i].pos - 1
  <2>1. i - n \in 1..m /\ i \in Nat /\ i \in 1..n + m BY <1>7
  <2>2. all[i] = new[i - n] BY <1>19
  <2>3. all[i].doc = d /\ all[i].pos = i - n - 1 /\ all[i].edition = e BY <1>6, <2>1, <2>2
  <2>4. DraftAt(src2[all[i].doc]) = draft BY <1>10, <2>3 DEF DraftAt, draft, s
  <2>5. src2[all[i].doc].edition = e BY <1>10, <2>3
  <2>6. all[i].pos \in Nat /\ all[i].pos + 1 = i - n BY <1>7, <2>1, <2>3
  <2>7. all[i] = Copy(draft[i - n], d, e, all[i].revision)
    BY <1>6, <2>1, <2>2
  <2>8. ASSUME all[i].pos > 0
        PROVE  i > 1 /\ all[i - 1].doc = all[i].doc /\ all[i - 1].pos = all[i].pos - 1
    <3>1. i - 1 \in n + 1..n + m /\ i > 1 BY <1>7, <2>1, <2>3, <2>8
    <3>2. all[i - 1] = new[(i - 1) - n] /\ (i - 1) - n \in 1..m BY <1>19, <3>1
    <3>3. all[i - 1].doc = d /\ all[i - 1].pos = (i - 1) - n - 1 BY <1>6, <3>2
    <3> QED BY <1>7, <2>1, <2>3, <3>1, <3>3
  <2> HIDE DEF s
  <2>9. all[i].pos + 1 \in 1..Len(DraftAt(src2[all[i].doc])) BY <1>4, <2>1, <2>4, <2>6 DEF m
  <2>10. all[i] = Copy(DraftAt(src2[all[i].doc])[all[i].pos + 1], all[i].doc,
                             src2[all[i].doc].edition, all[i].revision)
    BY <2>3, <2>4, <2>5, <2>6, <2>7
  <2> QED BY <2>2, <2>3, <2>6, <2>8, <2>9, <2>10
<1>14. \A i \in 1..n + m : i \in 1..n \/ i \in n + 1..n + m BY <1>7
<1>15. ASSUME NEW i \in 1..n + m, NEW j \in 1..n + m,
              all[i].doc = all[j].doc, all[i].pos = all[j].pos
       PROVE  i = j
  <2>1. CASE i \in 1..n /\ j \in 1..n
    <3>1. all[i] = out[i] /\ all[j] = out[j] BY <1>12, <2>1
    <3> QED BY <1>15, <2>1, <3>1 DEF FromSource, n
  <2>2. CASE i \in n + 1..n + m /\ j \in n + 1..n + m
    <3>1. i - n - 1 = j - n - 1 BY <1>13, <1>15, <2>2
    <3> QED BY <1>7, <2>2, <3>1
  <2>3. CASE i \in 1..n /\ j \in n + 1..n + m BY <1>12, <1>13, <1>15, <2>3
  <2>4. CASE j \in 1..n /\ i \in n + 1..n + m BY <1>12, <1>13, <1>15, <2>4
  <2> QED BY <1>14, <2>1, <2>2, <2>3, <2>4
<1>16. FromSource(all, src2)
  <2>1. Len(all) = n + m BY <1>8
  <2>2. \A i \in 1..n + m :
          /\ all[i].doc \in Documents /\ all[i].pos \in Nat
          /\ all[i].pos + 1 \in 1..Len(DraftAt(src2[all[i].doc]))
          /\ all[i] = Copy(DraftAt(src2[all[i].doc])[all[i].pos + 1], all[i].doc,
                             src2[all[i].doc].edition, all[i].revision)
          /\ all[i].pos > 0 => /\ i > 1 /\ all[i - 1].doc = all[i].doc
                               /\ all[i - 1].pos = all[i].pos - 1
    BY <1>12, <1>13, <1>14
  <2> QED BY <1>8, <1>15, <2>1, <2>2 DEF FromSource
<1>17. \A c \in ToSet(all) : c \in ToSet(out) \/ (c.doc = d /\ c.edition = e)
  <2>1. \A c \in ToSet(new) : c.doc = d /\ c.edition = e BY <1>4, <1>6, SeqFacts DEF m
  <2> QED BY <1>8, <2>1
<1> QED BY <1>10, <1>16, <1>17 DEF src2, all

\* Numbering the revisions changes nothing else.
LEMMA RevisedSource ==
  ASSUME NEW chunks, NEW src \in Sources, FromSource(chunks, src)
  PROVE  /\ FromSource(Revised(chunks), src) /\ Len(Revised(chunks)) = Len(chunks)
         /\ \A i \in 1..Len(chunks) :
              LET r == Revised(chunks)[i] IN
                r = [chunks[i] EXCEPT !.revision = r.revision] /\ DOMAIN chunks[i] = Fields
<1> DEFINE rev == Revised(chunks)
           n == Len(chunks)
<1>1. IsSeq(chunks) /\ n \in Nat /\ DOMAIN chunks = 1..n BY SeqFacts DEF FromSource
<1>2. \A i \in 1..n : DOMAIN chunks[i] = Fields BY SourceChunk
<1>3. PICK R : rev = [i \in 1..n |-> [chunks[i] EXCEPT !.revision = R[i]]]
  <2> DEFINE Before(c) == {e \in ToSet(chunks) : LineageOf(e) = LineageOf(c) /\ e.doc.order < c.doc.order}
             Previous(c) == {e \in Before(c) : \A f \in Before(c) : f.doc.order <= e.doc.order}
             Changed(c) == \A e \in Previous(c) : e.text # c.text
             Revision(c) == Cardinality({e \in Before(c) \cup {c} : Changed(e)})
             R == [i \in 1..n |-> Revision(chunks[i])]
  <2>1. rev = [i \in 1..n |-> [chunks[i] EXCEPT !.revision = Revision(chunks[i])]]
    BY <1>1 DEF Revised
  <2>2. \A i \in 1..n : R[i] = Revision(chunks[i]) OBVIOUS
  <2> HIDE DEF rev, R, Revision
  <2>3. rev = [i \in 1..n |-> [chunks[i] EXCEPT !.revision = R[i]]] BY <2>1, <2>2
  <2> QED BY <2>3
<1> HIDE DEF rev, n
<1>4. IsSeq(rev) /\ Len(rev) = n /\ DOMAIN rev = 1..n BY <1>1, <1>3, SeqMade
<1>5. ASSUME NEW i \in 1..n
      PROVE  /\ rev[i] = [chunks[i] EXCEPT !.revision = rev[i].revision]
             /\ rev[i].doc = chunks[i].doc /\ rev[i].pos = chunks[i].pos
  <2>1. rev[i] = [chunks[i] EXCEPT !.revision = R[i]] BY <1>3
  <2>2. DOMAIN chunks[i] = Fields BY <1>2
  <2> QED BY <2>1, <2>2 DEF Fields
<1>7. ASSUME NEW i \in 1..n
      PROVE  rev[i] = Copy(DraftAt(src[rev[i].doc])[rev[i].pos + 1], rev[i].doc,
                             src[rev[i].doc].edition, rev[i].revision)
  <2> DEFINE s == src[chunks[i].doc]
             o == DraftAt(s)[chunks[i].pos + 1]
  <2>1. chunks[i] = Copy(o, chunks[i].doc, s.edition, chunks[i].revision)
    BY DEF FromSource, n
  <2>2. DOMAIN o = Fields BY <1>2, <2>1 DEF Copy
  <2> HIDE DEF o, s
  <2>3. rev[i] = Copy(o, rev[i].doc, s.edition, rev[i].revision)
    BY <1>2, <1>5, <2>1, <2>2 DEF Fields, Copy
  <2> QED BY <1>5, <2>3 DEF o, s
<1>8. FromSource(rev, src)
  <2>1. \A i \in 1..n :
          /\ rev[i].doc \in Documents /\ rev[i].pos \in Nat
          /\ rev[i].pos + 1 \in 1..Len(DraftAt(src[rev[i].doc]))
          /\ rev[i].pos > 0 => /\ i > 1 /\ rev[i - 1].doc = rev[i].doc
                               /\ rev[i - 1].pos = rev[i].pos - 1
    <3>1. ASSUME NEW i \in 1..n, rev[i].pos > 0
          PROVE  i > 1 /\ rev[i - 1].doc = rev[i].doc /\ rev[i - 1].pos = rev[i].pos - 1
      <4>1. chunks[i].pos > 0 BY <1>5, <3>1
      <4>2. i > 1 /\ chunks[i - 1].doc = chunks[i].doc /\ chunks[i - 1].pos = chunks[i].pos - 1
        BY <4>1 DEF FromSource, n
      <4>3. i - 1 \in 1..n BY <1>1, <4>2
      <4> QED BY <1>5, <4>2, <4>3
    <3>2. \A i \in 1..n : chunks[i].doc \in Documents /\ chunks[i].pos \in Nat
                          /\ chunks[i].pos + 1 \in 1..Len(DraftAt(src[chunks[i].doc]))
      BY DEF FromSource, n
    <3> QED BY <1>5, <3>1, <3>2
  <2>2. \A i, j \in 1..n : rev[i].doc = rev[j].doc /\ rev[i].pos = rev[j].pos => i = j
    BY <1>5 DEF FromSource, n
  <2> QED BY <1>4, <1>7, <2>1, <2>2 DEF FromSource
<1> QED BY <1>2, <1>4, <1>5, <1>8 DEF rev, n

\* A revision number means one text.
Named(chunks) ==
  \A c, e \in ToSet(chunks) :
    LineageOf(c) = LineageOf(e) /\ c.revision = e.revision => c.text = e.text

\* The chunks of S before c in its lineage, those just before it, whether it is a
\* change, and the changes up to c, which its revision counts.
Earlier(S, c) == {e \in S : LineageOf(e) = LineageOf(c) /\ e.doc.order < c.doc.order}

JustBefore(S, c) == {e \in Earlier(S, c) : \A f \in Earlier(S, c) : f.doc.order <= e.doc.order}

Differs(S, c) == \A e \in JustBefore(S, c) : e.text # c.text

Changes(S, c) == {e \in Earlier(S, c) \cup {c} : Differs(S, e)}

\* A revision is the number of changes up to it.
LEMMA RevisionCounts ==
  ASSUME NEW chunks, IsSeq(chunks), NEW i \in 1..Len(chunks)
  PROVE  Revised(chunks)[i]
           = [chunks[i] EXCEPT !.revision = Cardinality(Changes(ToSet(chunks), chunks[i]))]
<1>1. i \in DOMAIN chunks BY SeqFacts
<1> QED BY <1>1 DEF Revised, Changes, Differs, JustBefore, Earlier

\* Between two versions with as many changes nothing changes.
LEMMA SameRevision ==
  ASSUME NEW S, IsFiniteSet(S), \A x \in S : x.doc.order \in Nat,
         \A x, y \in S : LineageOf(x) = LineageOf(y) /\ x.doc.order = y.doc.order => x = y,
         NEW c \in S, NEW e \in S, LineageOf(c) = LineageOf(e), c.doc.order <= e.doc.order,
         Cardinality(Changes(S, c)) = Cardinality(Changes(S, e))
  PROVE  c.text = e.text
<1> DEFINE Bad == {g \in Earlier(S, e) \cup {e} : c.doc.order <= g.doc.order /\ g.text # c.text}
           Orders == {g.doc.order : g \in Bad}
<1>1. Changes(S, c) \in SUBSET Changes(S, e)
  <2>1. \A x \in Earlier(S, c) : x \in Earlier(S, e) BY DEF Earlier
  <2>2. c \in Earlier(S, e) \/ c = e BY DEF Earlier
  <2> QED BY <2>1, <2>2 DEF Changes
<1>2. IsFiniteSet(Changes(S, e))
  <2>1. Changes(S, e) \in SUBSET S BY DEF Changes, Earlier
  <2> QED BY <2>1, FS_Subset
<1>3. Changes(S, c) = Changes(S, e) BY <1>1, <1>2, FS_Subset
<1>4. ASSUME c.text # e.text PROVE FALSE
  <2>1. e \in Bad BY <1>4
  <2>2. \A g \in Bad : g \in S /\ LineageOf(g) = LineageOf(c) /\ g.doc.order <= e.doc.order
    BY DEF Earlier
  <2>3. Orders \in SUBSET Nat /\ Orders # {}
    <3> HIDE DEF Bad
    <3> QED BY <2>1, <2>2
  <2>4. PICK m \in Orders : \A n \in Orders : m <= n
    <3> HIDE DEF Orders
    <3> QED BY <2>3, LeastNat
  <2>5. PICK g \in Bad : g.doc.order = m BY <2>4
  <2>6. \A h \in Bad : g.doc.order <= h.doc.order
    <3> HIDE DEF Bad
    <3> QED BY <2>4, <2>5
  <2>7. g \in S /\ g.text # c.text /\ c.doc.order <= g.doc.order BY <2>2
  <2>8. c.doc.order < g.doc.order BY <2>2, <2>7
  <2>9. c \in Earlier(S, g) BY <2>2, <2>8 DEF Earlier
  <2>10. ~Differs(S, g)
    <3>1. SUFFICES ASSUME Differs(S, g) PROVE FALSE OBVIOUS
    <3>2. g \in Changes(S, e) BY <3>1 DEF Changes
    <3>3. g \in Earlier(S, c) \cup {c} BY <1>3, <3>2 DEF Changes
    <3>4. g.doc.order <= c.doc.order BY <2>7, <3>3 DEF Earlier
    <3> QED BY <2>7, <2>8, <3>4
  <2>11. PICK p \in JustBefore(S, g) : p.text = g.text BY <2>10 DEF Differs
  <2>12. p \in S /\ LineageOf(p) = LineageOf(g) /\ p.doc.order < g.doc.order
         /\ c.doc.order <= p.doc.order
    BY <2>9, <2>11 DEF JustBefore, Earlier
  <2>13. p \in Earlier(S, e)
    <3>1. LineageOf(p) = LineageOf(e) BY <2>2, <2>12
    <3>2. p.doc.order < e.doc.order BY <2>2, <2>7, <2>12
    <3> QED BY <2>12, <3>1, <3>2 DEF Earlier
  <2>14. p \in Bad BY <2>7, <2>11, <2>12, <2>13
  <2> HIDE DEF Bad
  <2> QED BY <2>6, <2>7, <2>12, <2>14
<1> QED BY <1>4

\* After assign_chunk_revisions a revision number means one text.
LEMMA RevisedNamed ==
  ASSUME NEW chunks, NEW src \in Sources, FromSource(chunks, src)
  PROVE  Named(Revised(chunks))
<1> DEFINE rev == Revised(chunks)
           S == ToSet(chunks)
           n == Len(chunks)
<1>1. IsSeq(chunks) BY DEF FromSource
<1>2. IsSeq(rev) /\ Len(rev) = n BY RevisedSource DEF FromSource
<1>3. IsFiniteSet(S)
  <2>1. IsFiniteSet(1..n) BY <1>1, SeqFacts, FS_Interval
  <2>2. S = {chunks[i] : i \in 1..n} BY <1>1, SeqFacts
  <2> HIDE DEF S, n
  <2>3. chunks \in Surjection(1..n, S)
    <3>1. chunks \in [1..n -> S] BY <1>1, <2>2 DEF IsSeq, n
    <3> QED BY <2>2, <3>1 DEF Surjection
  <2> QED BY <2>1, <2>3, FS_Surjection
<1>4. \A x \in S : x.doc \in Documents
  <2>1. \A i \in 1..n : chunks[i].doc \in Documents BY DEF FromSource
  <2> QED BY <1>1, <2>1, SeqFacts
<1>5. \A x \in S : x.doc.order \in Nat BY <1>4, ManifestIsListed
<1>6. ASSUME NEW x \in S, NEW y \in S, LineageOf(x) = LineageOf(y), x.doc.order = y.doc.order
      PROVE  x = y
  <2>1. x.doc.id = y.doc.id BY <1>6 DEF LineageOf
  <2>2. x.doc = y.doc
    <3>1. x.doc = [id |-> x.doc.id, order |-> x.doc.order] BY <1>4, ManifestIsListed
    <3>2. y.doc = [id |-> y.doc.id, order |-> y.doc.order] BY <1>4, ManifestIsListed
    <3> QED BY <1>6, <2>1, <3>1, <3>2
  <2>3. PICK i \in 1..n : x = chunks[i] BY <1>1, SeqFacts
  <2>4. PICK j \in 1..n : y = chunks[j] BY <1>1, SeqFacts
  <2>5. DOMAIN chunks = 1..n BY <1>1, SeqFacts
  <2> HIDE DEF n
  <2>6. Distinct(chunks) BY SourceDistinct
  <2> QED BY <1>6, <2>2, <2>3, <2>4, <2>5, <2>6 DEF Distinct
<1>7. ASSUME NEW i \in 1..n
      PROVE  /\ LineageOf(rev[i]) = LineageOf(chunks[i]) /\ rev[i].text = chunks[i].text
             /\ rev[i].revision = Cardinality(Changes(S, chunks[i]))
  <2> DEFINE k == Cardinality(Changes(S, chunks[i]))
  <2>1. rev[i] = [chunks[i] EXCEPT !.revision = k] BY <1>1, RevisionCounts
  <2>2. DOMAIN chunks[i] = Fields BY SourceChunk
  <2> HIDE DEF k
  <2> QED BY <2>1, <2>2 DEF LineageOf, Fields, k
<1>8. ASSUME NEW i \in 1..n, NEW j \in 1..n, LineageOf(rev[i]) = LineageOf(rev[j]),
             rev[i].revision = rev[j].revision
      PROVE  rev[i].text = rev[j].text
  <2> DEFINE c == chunks[i]
             e == chunks[j]
  <2>1. c \in S /\ e \in S BY <1>1, SeqFacts
  <2>2. LineageOf(c) = LineageOf(e) BY <1>7, <1>8
  <2>3. Cardinality(Changes(S, c)) = Cardinality(Changes(S, e)) BY <1>7, <1>8
  <2>4. rev[i].text = c.text /\ rev[j].text = e.text BY <1>7
  <2> HIDE DEF c, e, S
  <2>5. c.doc.order <= e.doc.order \/ e.doc.order <= c.doc.order BY <1>5, <2>1
  <2>6. CASE c.doc.order <= e.doc.order
    <3>1. c.text = e.text BY <1>3, <1>5, <1>6, <2>1, <2>2, <2>3, <2>6, SameRevision
    <3> QED BY <2>4, <3>1
  <2>7. CASE e.doc.order <= c.doc.order
    <3>1. e.text = c.text BY <1>3, <1>5, <1>6, <2>1, <2>2, <2>3, <2>7, SameRevision
    <3> QED BY <2>4, <3>1
  <2> QED BY <2>5, <2>6, <2>7
<1>9. Named(rev)
  <2>1. \A x \in ToSet(rev) : \E i \in 1..n : x = rev[i] BY <1>2, SeqFacts
  <2> HIDE DEF rev, n
  <2> QED BY <1>8, <2>1 DEF Named
<1> QED BY <1>9

-----------------------------------------------------------------------------
(* Groups of chunks.                                                       *)

\* The chunks of a document, and the groups that are planned.
PickChunk(d, out, c) == IF c.doc = d THEN Append(out, c) ELSE out

Picked(d, base, seq) == FoldLeft(LAMBDA out, c : PickChunk(d, out, c), base, seq)

Planned(groups, total, base, seq) ==
  FoldLeft(LAMBDA acc, c : PlaceChunk(acc, c, groups, total), base, seq)

\* Chunks are picked one by one.
LEMMA PickedRuns ==
  ASSUME NEW d, NEW V, NEW base \in V, NEW seq, NEW n \in Nat, DOMAIN seq = 1..n,
         \A i \in 1..n : \A v \in V : PickChunk(d, v, seq[i]) \in V
  PROVE  RunEnds(Picked(d, base, seq), n, V, base,
                 [i \in 1..n |-> [v \in V |-> PickChunk(d, v, seq[i])]])
<1> DEFINE step == [i \in 1..n |-> [v \in V |-> PickChunk(d, v, seq[i])]]
           F(g) == [s \in SUBSET (1..n) |->
                      IF s = {} THEN base ELSE PickChunk(d, g[s \ {Max(s)}], seq[Max(s)])]
           iter == CHOOSE g : g = F(g)
<1>1. Picked(d, base, seq) = iter[1..n] BY DEF Picked, FoldLeft, MapThenFoldSet
<1>2. step \in [1..n -> [V -> V]]
      /\ \A i \in 1..n : \A v \in V : step[i][v] = PickChunk(d, v, seq[i])
  OBVIOUS
<1> HIDE DEF step
<1>3. \A g : IsFold(g, n, V, base, step) => g = F(g)
  <2> SUFFICES ASSUME NEW g, IsFold(g, n, V, base, step) PROVE g = F(g) OBVIOUS
  <2>1. \A s \in SUBSET (1..n) : g[s] = F(g)[s] BY <1>2, Peels DEF IsFold
  <2>2. g = [s \in SUBSET (1..n) |-> g[s]] BY DEF IsFold
  <2> QED BY <2>1, <2>2
<1>4. iter = F(iter)
  <2>1. \E g : g = F(g) BY <1>2, <1>3, FoldExists
  <2> QED BY <2>1
<1> HIDE DEF iter
<1>5. Recurs(iter, n, V, base, step)
  <2>1. iter[{}] = base BY <1>4
  <2>2. \A s \in SUBSET (1..n) : s # {} => iter[s] = PickChunk(d, iter[s \ {Max(s)}], seq[Max(s)])
    BY <1>4
  <2> QED BY <1>2, <2>1, <2>2, Peels DEF Recurs
<1>6. RunEnds(iter[1..n], n, V, base, step) BY <1>2, <1>5, FoldRuns
<1> QED BY <1>1, <1>6 DEF step

\* Chunks are placed one by one.
LEMMA PlannedRuns ==
  ASSUME NEW groups, NEW total, NEW V, NEW base \in V, NEW seq, NEW n \in Nat, DOMAIN seq = 1..n,
         \A i \in 1..n : \A v \in V : PlaceChunk(v, seq[i], groups, total) \in V
  PROVE  RunEnds(Planned(groups, total, base, seq), n, V, base,
                 [i \in 1..n |-> [v \in V |-> PlaceChunk(v, seq[i], groups, total)]])
<1> DEFINE step == [i \in 1..n |-> [v \in V |-> PlaceChunk(v, seq[i], groups, total)]]
           F(g) == [s \in SUBSET (1..n) |->
                      IF s = {} THEN base ELSE PlaceChunk(g[s \ {Max(s)}], seq[Max(s)], groups, total)]
           iter == CHOOSE g : g = F(g)
<1>1. Planned(groups, total, base, seq) = iter[1..n] BY DEF Planned, FoldLeft, MapThenFoldSet
<1>2. step \in [1..n -> [V -> V]]
      /\ \A i \in 1..n : \A v \in V : step[i][v] = PlaceChunk(v, seq[i], groups, total)
  OBVIOUS
<1> HIDE DEF step
<1>3. \A g : IsFold(g, n, V, base, step) => g = F(g)
  <2> SUFFICES ASSUME NEW g, IsFold(g, n, V, base, step) PROVE g = F(g) OBVIOUS
  <2>1. \A s \in SUBSET (1..n) : g[s] = F(g)[s] BY <1>2, Peels DEF IsFold
  <2>2. g = [s \in SUBSET (1..n) |-> g[s]] BY DEF IsFold
  <2> QED BY <2>1, <2>2
<1>4. iter = F(iter)
  <2>1. \E g : g = F(g) BY <1>2, <1>3, FoldExists
  <2> QED BY <2>1
<1> HIDE DEF iter
<1>5. Recurs(iter, n, V, base, step)
  <2>1. iter[{}] = base BY <1>4
  <2>2. \A s \in SUBSET (1..n) : s # {} => iter[s] = PlaceChunk(iter[s \ {Max(s)}], seq[Max(s)], groups, total)
    BY <1>4
  <2> QED BY <1>2, <2>1, <2>2, Peels DEF Recurs
<1>6. RunEnds(iter[1..n], n, V, base, step) BY <1>2, <1>5, FoldRuns
<1> QED BY <1>1, <1>6 DEF step

\* The chunks of a document in the order of their positions.
InOrder(s, d, chunks) ==
  /\ IsSeq(s)
  /\ \A j \in 1..Len(s) : s[j].pos = j - 1 /\ s[j].doc = d /\ s[j] \in ToSet(chunks)

\* The chunks of a document are found in the order of their positions.
LEMMA ChunksInOrder ==
  ASSUME NEW chunks, NEW src \in Sources, FromSource(chunks, src), NEW d
  PROVE  InOrder(ChunksIn(chunks, d), d, chunks)
<1> DEFINE n == Len(chunks)
           V == Seq(ToSet(chunks))
           step == [i \in 1..n |-> [v \in V |-> PickChunk(d, v, chunks[i])]]
<1>1. IsSeq(chunks) BY DEF FromSource
<1>2. n \in Nat /\ DOMAIN chunks = 1..n /\ \A i \in 1..n : chunks[i] \in ToSet(chunks)
  BY <1>1, SeqFacts
<1>3. \A i \in 1..n : \A v \in V : PickChunk(d, v, chunks[i]) \in V
  BY <1>2 DEF PickChunk
<1>4. <<>> \in V OBVIOUS
<1>5. \A i \in 1..n : \A v \in V : step[i][v] = PickChunk(d, v, chunks[i]) OBVIOUS
<1>6. RunEnds(Picked(d, <<>>, chunks), n, V, <<>>, step)
  <2> HIDE DEF n, V
  <2> QED BY <1>2, <1>3, <1>4, PickedRuns
<1> HIDE DEF step, n
<1>7. ChunksIn(chunks, d) = Picked(d, <<>>, chunks) BY DEF ChunksIn, Picked, PickChunk
<1>8. PICK r : IsRun(r, n, V, <<>>, step) /\ ChunksIn(chunks, d) = r[n] BY <1>6, <1>7 DEF RunEnds
<1>9. \A k \in 0..n : r[k] \in V /\ Len(r[k]) \in Nat BY <1>8 DEF IsRun
<1>10. ASSUME NEW k \in 1..n
       PROVE  /\ k - 1 \in 0..n /\ k \in 0..n
              /\ r[k] = IF chunks[k].doc = d THEN Append(r[k - 1], chunks[k]) ELSE r[k - 1]
  <2>1. k - 1 \in 0..n /\ k \in 0..n BY <1>2
  <2>2. r[k] = step[k][r[k - 1]] BY <1>8 DEF IsRun
  <2>3. r[k - 1] \in V BY <1>9, <2>1
  <2> HIDE DEF V
  <2> QED BY <1>5, <2>1, <2>2, <2>3 DEF PickChunk
<1> DEFINE Good(k) == \A j \in 1..Len(r[k]) :
                        /\ r[k][j].pos = j - 1 /\ r[k][j].doc = d
                        /\ \E i \in 1..k : r[k][j] = chunks[i]
           S == {k \in 0..n : Good(k)}
<1>11. 0 \in S
  <2>1. r[0] = <<>> BY <1>8 DEF IsRun
  <2> QED BY <1>2, <2>1
<1>12. ASSUME NEW k \in 1..n, k - 1 \in S PROVE k \in S
  <2> DEFINE c == chunks[k]
             L == Len(r[k - 1])
  <2>1. k - 1 \in 0..n /\ k \in 0..n /\ r[k - 1] \in V /\ L \in Nat BY <1>9, <1>10
  <2>2. Good(k - 1) BY <1>12
  <2>3. \A i \in 1..k - 1 : i \in 1..k BY <1>2
  <2>4. CASE c.doc # d
    <3>1. r[k] = r[k - 1] BY <1>10, <2>4
    <3> HIDE DEF V
    <3>2. Good(k) BY <2>2, <2>3, <3>1
    <3> QED BY <3>2
  <2>5. CASE c.doc = d
    <3>1. r[k] = Append(r[k - 1], c) BY <1>10, <2>5
    <3>2. Len(r[k]) = L + 1 /\ r[k][L + 1] = c /\ \A j \in 1..L : r[k][j] = r[k - 1][j]
      BY <2>1, <3>1
    <3>3. c.pos \in Nat BY DEF FromSource, n
    <3>4. c.pos = L
      <4>1. CASE c.pos = 0
        <5>1. SUFFICES ASSUME L # 0 PROVE FALSE BY <4>1
        <5>2. 1 \in 1..L BY <2>1, <5>1
        <5>3. PICK i \in 1..k - 1 : r[k - 1][1] = chunks[i] BY <2>2, <5>2
        <5>4. chunks[i].pos = 0 /\ chunks[i].doc = d BY <2>2, <5>2, <5>3
        <5>5. i \in 1..n /\ i # k BY <1>2, <5>3
        <5> QED BY <2>5, <4>1, <5>4, <5>5 DEF FromSource, n
      <4>2. CASE c.pos > 0
        <5>1. k > 1 /\ chunks[k - 1].doc = d /\ chunks[k - 1].pos = c.pos - 1
          BY <2>5, <4>2 DEF FromSource, n
        <5>2. k - 1 \in 1..n BY <1>2, <5>1
        <5>3. r[k - 1] = Append(r[(k - 1) - 1], chunks[k - 1]) /\ r[(k - 1) - 1] \in V
          BY <1>9, <1>10, <5>1, <5>2
        <5>4. L \in 1..L /\ r[k - 1][L] = chunks[k - 1] BY <5>3
        <5>5. chunks[k - 1].pos = L - 1 BY <2>2, <5>4
        <5> QED BY <2>1, <3>3, <5>1, <5>5
      <4> QED BY <3>3, <4>1, <4>2
    <3>5. ASSUME NEW j \in 1..Len(r[k])
          PROVE  r[k][j].pos = j - 1 /\ r[k][j].doc = d /\ \E i \in 1..k : r[k][j] = chunks[i]
      <4>1. CASE j = L + 1
        <5>1. r[k][j].pos = j - 1 BY <2>1, <3>2, <3>4, <4>1
        <5>2. k \in 1..k BY <1>2
        <5> QED BY <2>5, <3>2, <4>1, <5>1, <5>2
      <4>2. CASE j # L + 1
        <5>1. j \in 1..L BY <2>1, <3>2, <4>2
        <5>2. r[k][j] = r[k - 1][j] BY <3>2, <5>1
        <5> HIDE DEF c, L
        <5> QED BY <2>2, <2>3, <5>1, <5>2 DEF L
      <4> QED BY <4>1, <4>2
    <3>6. Good(k) BY <3>5
    <3> QED BY <2>1, <3>6
  <2> QED BY <2>4, <2>5
<1>13. n \in S
  <2> HIDE DEF S
  <2>1. \A k \in 0..n : k \in S BY <1>2, <1>11, <1>12, UpTo
  <2> QED BY <1>2, <2>1
<1>14. Good(n) BY <1>13
<1>15. IsSeq(r[n])
  <2>1. n \in 0..n BY <1>2
  <2>2. r[n] \in V BY <1>9, <2>1
  <2>3. Len(r[n]) \in Nat /\ DOMAIN r[n] = 1..Len(r[n]) /\ r[n] = [j \in 1..Len(r[n]) |-> r[n][j]] BY <2>2
  <2> QED BY <2>3, SeqMade
<1>16. \A j \in 1..Len(r[n]) : r[n][j].pos = j - 1 /\ r[n][j].doc = d /\ r[n][j] \in ToSet(chunks)
  BY <1>2, <1>14
<1> QED BY <1>8, <1>15, <1>16 DEF InOrder

\* Neighbours in a document.
Neighbours(g) == \A i \in 1..Len(g) : g[i].pos = g[1].pos + i - 1

Runs(E) == {g \in Seq(E) : g # <<>> /\ Neighbours(g)}

\* A run of planning: each chunk goes to the open group, or into a new one when the
\* open one is closed.
PlanRun(r, s, n, V) ==
  /\ r \in [0..n -> V] /\ r[0].out = <<>> /\ r[0].cur = <<>>
  /\ \A k \in 1..n :
       \/ r[k].out = r[k - 1].out /\ r[k].cur = Append(r[k - 1].cur, s[k])
       \/ /\ r[k - 1].cur # <<>> /\ r[k].out = Append(r[k - 1].out, r[k - 1].cur)
          /\ r[k].cur = <<s[k]>>

Plans(E) == [out : Seq(Seq(E)), cur : Seq(E), running : Nat]

\* Planning is such a run, at the end of which the open group is closed.
LEMMA PlanGroupsRuns ==
  ASSUME NEW s, NEW d, NEW chunks, InOrder(s, d, chunks), \A c \in ToSet(chunks) : c.tokens \in Nat
  PROVE  \E r : /\ PlanRun(r, s, Len(s), Plans(ToSet(s)))
                /\ PlanGroups(s) = LET end == r[Len(s)] IN
                                     IF end.cur = <<>> THEN end.out ELSE Append(end.out, end.cur)
<1> DEFINE n == Len(s)
           E == ToSet(s)
           V == Plans(E)
           base == [out |-> <<>>, cur |-> <<>>, running |-> 0]
           total == FoldLeft(LAMBDA k, c : k + c.tokens, 0, s)
           groups == IF total <= GroupBudget THEN 1 ELSE (total + GroupBudget - 1) \div GroupBudget
           end == Planned(groups, total, base, s)
           step == [i \in 1..n |-> [v \in V |-> PlaceChunk(v, s[i], groups, total)]]
<1>1. PlanGroups(s) = IF end.cur = <<>> THEN end.out ELSE Append(end.out, end.cur)
  BY DEF PlanGroups, Planned
<1> HIDE DEF groups, total
<1> USE DEF Plans
<1>2. n \in Nat /\ DOMAIN s = 1..n /\ \A i \in 1..n : s[i] \in E BY SeqFacts DEF InOrder
<1>3. \A i \in 1..n : s[i].pos = i - 1 /\ s[i].tokens \in Nat BY DEF InOrder
<1>4. ASSUME NEW i \in 1..n, NEW v \in V
      PROVE  /\ PlaceChunk(v, s[i], groups, total) \in V
             /\ \/ PlaceChunk(v, s[i], groups, total).out = v.out
                   /\ PlaceChunk(v, s[i], groups, total).cur = Append(v.cur, s[i])
                \/ v.cur # <<>>
                   /\ PlaceChunk(v, s[i], groups, total).out = Append(v.out, v.cur)
                   /\ PlaceChunk(v, s[i], groups, total).cur = <<s[i]>>
  <2> DEFINE c == s[i]
             full == /\ v.cur # <<>> /\ (v.running + c.tokens) * groups > total
                     /\ Len(v.out) < groups - 1
  <2>1. c \in E /\ c.tokens \in Nat BY <1>2, <1>3
  <2> HIDE DEF c
  <2>2. CASE full
    <3>1. PlaceChunk(v, c, groups, total)
            = [out |-> Append(v.out, v.cur), cur |-> <<c>>, running |-> c.tokens]
      BY <2>2 DEF PlaceChunk
    <3>2. Append(v.out, v.cur) \in Seq(Seq(E)) /\ <<c>> \in Seq(E) BY <2>1
    <3> QED BY <2>1, <2>2, <3>1, <3>2 DEF c
  <2>3. CASE ~full
    <3> DEFINE running == v.running + c.tokens
               cur == Append(v.cur, c)
    <3>1. PlaceChunk(v, c, groups, total) = [v EXCEPT !.cur = cur, !.running = running]
      BY <2>3 DEF PlaceChunk
    <3>2. running \in Nat /\ cur \in Seq(E) BY <2>1
    <3> HIDE DEF running, cur
    <3>3. PlaceChunk(v, c, groups, total) = [out |-> v.out, cur |-> cur, running |-> running]
      BY <3>1
    <3> QED BY <3>2, <3>3 DEF c, cur
  <2> HIDE DEF full
  <2> QED BY <2>2, <2>3
<1>5. base \in V OBVIOUS
<1>6. RunEnds(end, n, V, base, step)
  <2>1. \A i \in 1..n : \A v \in V : PlaceChunk(v, s[i], groups, total) \in V BY <1>4
  <2> HIDE DEF n, V, base
  <2> QED BY <1>2, <1>5, <2>1, PlannedRuns
<1>7. \A i \in 1..n : \A v \in V : step[i][v] = PlaceChunk(v, s[i], groups, total) OBVIOUS
<1> HIDE DEF step, n, end
<1>8. PICK r : IsRun(r, n, V, base, step) /\ end = r[n] BY <1>6 DEF RunEnds
<1>9. r \in [0..n -> V] /\ r[0] = base /\ \A k \in 0..n : r[k] \in V BY <1>8 DEF IsRun
<1>10. ASSUME NEW k \in 1..n
       PROVE  \/ r[k].out = r[k - 1].out /\ r[k].cur = Append(r[k - 1].cur, s[k])
              \/ /\ r[k - 1].cur # <<>> /\ r[k].out = Append(r[k - 1].out, r[k - 1].cur)
                 /\ r[k].cur = <<s[k]>>
  <2>1. k - 1 \in 0..n /\ k \in 0..n BY <1>2
  <2>2. r[k - 1] \in V BY <1>9, <2>1
  <2>3. r[k] = PlaceChunk(r[k - 1], s[k], groups, total)
    <3>1. r[k] = step[k][r[k - 1]] BY <1>8 DEF IsRun
    <3> HIDE DEF V
    <3> QED BY <1>7, <2>2, <3>1
  <2> HIDE DEF V
  <2> QED BY <1>4, <2>1, <2>2, <2>3
<1>11. r[0].out = <<>> /\ r[0].cur = <<>> BY <1>9
<1>12. PlanRun(r, s, n, V)
  <2> HIDE DEF V, Plans
  <2> QED BY <1>9, <1>10, <1>11 DEF PlanRun
<1> QED BY <1>1, <1>8, <1>12 DEF n

\* A group is a run of neighbours.
LEMMA PlanGroupsRun ==
  ASSUME NEW s, NEW d, NEW chunks, InOrder(s, d, chunks), \A c \in ToSet(chunks) : c.tokens \in Nat
  PROVE  PlanGroups(s) \in Seq(Runs(ToSet(s)))
<1> DEFINE n == Len(s)
           E == ToSet(s)
<1>2. n \in Nat /\ DOMAIN s = 1..n /\ \A i \in 1..n : s[i] \in E BY SeqFacts DEF InOrder
<1>3. \A i \in 1..n : s[i].pos = i - 1 BY DEF InOrder
<1> HIDE DEF n
<1>8. PICK r : /\ PlanRun(r, s, n, Plans(E))
               /\ PlanGroups(s) = IF r[n].cur = <<>> THEN r[n].out ELSE Append(r[n].out, r[n].cur)
  BY PlanGroupsRuns DEF n
<1>9. \A k \in 0..n : r[k].out \in Seq(Seq(E)) /\ r[k].cur \in Seq(E) BY <1>8 DEF PlanRun, Plans
<1>10. ASSUME NEW k \in 1..n
       PROVE  /\ k - 1 \in 0..n /\ k \in 0..n
              /\ \/ r[k].out = r[k - 1].out /\ r[k].cur = Append(r[k - 1].cur, s[k])
                 \/ /\ r[k - 1].cur # <<>> /\ r[k].out = Append(r[k - 1].out, r[k - 1].cur)
                    /\ r[k].cur = <<s[k]>>
  BY <1>2, <1>8 DEF PlanRun
<1> DEFINE Good(k) == /\ r[k].out \in Seq(Runs(E)) /\ Neighbours(r[k].cur)
                      /\ r[k].cur # <<>> => r[k].cur[Len(r[k].cur)].pos = k - 1
           S == {k \in 0..n : Good(k)}
<1>11. 0 \in S
  <2>2. r[0].out = <<>> /\ r[0].cur = <<>> BY <1>8 DEF PlanRun
  <2>3. Good(0) BY <2>2 DEF Neighbours
  <2> QED BY <1>2, <2>3
<1>12. ASSUME NEW k \in 1..n, k - 1 \in S PROVE k \in S
  <2> DEFINE cur == r[k - 1].cur
             c == s[k]
             L == Len(cur)
  <2>1. k - 1 \in 0..n /\ k \in 0..n /\ cur \in Seq(E) /\ L \in Nat /\ c.pos = k - 1 /\ c \in E
    BY <1>2, <1>3, <1>9, <1>10
  <2>2. Good(k - 1) BY <1>12
  <2> HIDE DEF cur, c, L
  <2>3. CASE r[k].out = r[k - 1].out /\ r[k].cur = Append(cur, c)
    <3>1. Len(r[k].cur) = L + 1 /\ r[k].cur[L + 1] = c /\ \A i \in 1..L : r[k].cur[i] = cur[i]
      BY <2>1, <2>3 DEF L
    <3>2. Neighbours(r[k].cur)
      <4>1. CASE cur = <<>>
        <5>1. L = 0 BY <4>1 DEF L
        <5>2. Len(r[k].cur) = 1 BY <3>1, <5>1
        <5>3. r[k].cur[1].pos \in Nat
          <6>1. r[k].cur[1] = c BY <3>1, <5>1
          <6> QED BY <1>2, <2>1, <6>1
        <5> QED BY <5>2, <5>3 DEF Neighbours
      <4>2. CASE cur # <<>>
        <5>1. L \in 1..L /\ 1 \in 1..L BY <2>1, <4>2 DEF L
        <5>2. cur[L].pos = (k - 1) - 1 BY <2>2, <4>2 DEF cur, L
        <5>3. \A i \in 1..L : cur[i].pos = cur[1].pos + i - 1 BY <2>2 DEF Neighbours, cur, L
        <5>4. \E i \in 1..n : cur[1] = s[i]
          <6>1. cur[1] \in E BY <2>1, <5>1 DEF L
          <6> QED BY <6>1, SeqFacts DEF InOrder, n
        <5>5. cur[1].pos \in Int BY <1>2, <1>3, <5>4
        <5>6. c.pos = cur[1].pos + L BY <1>2, <2>1, <5>1, <5>2, <5>3, <5>5
        <5>7. r[k].cur[1] = cur[1] BY <3>1, <5>1
        <5>8. ASSUME NEW i \in 1..L + 1 PROVE r[k].cur[i].pos = cur[1].pos + i - 1
          <6>1. CASE i = L + 1 BY <2>1, <3>1, <5>5, <5>6, <6>1
          <6>2. CASE i # L + 1
            <7>1. i \in 1..L BY <2>1, <6>2
            <7> QED BY <3>1, <5>3, <7>1
          <6> QED BY <6>1, <6>2
        <5> QED BY <3>1, <5>7, <5>8 DEF Neighbours
      <4> QED BY <4>1, <4>2
    <3>3. r[k].cur[Len(r[k].cur)].pos = k - 1 BY <2>1, <3>1
    <3>4. Good(k) BY <2>2, <2>3, <3>2, <3>3
    <3> QED BY <2>1, <3>4
  <2>4. CASE /\ cur # <<>> /\ r[k].out = Append(r[k - 1].out, cur)
             /\ r[k].cur = <<c>>
    <3>1. cur \in Runs(E)
      <4>1. Neighbours(cur) BY <2>2 DEF cur
      <4> QED BY <2>1, <2>4, <4>1 DEF Runs
    <3>2. r[k].out \in Seq(Runs(E)) BY <2>2, <2>4, <3>1
    <3>3. Len(r[k].cur) = 1 /\ r[k].cur[1] = c BY <2>4
    <3>4. Neighbours(r[k].cur) BY <1>2, <2>1, <3>3 DEF Neighbours
    <3>5. Good(k) BY <2>1, <3>2, <3>3, <3>4
    <3> QED BY <2>1, <3>5
  <2> QED BY <1>10, <2>3, <2>4 DEF cur, c
<1>13. n \in S
  <2> HIDE DEF S
  <2>1. \A k \in 0..n : k \in S BY <1>2, <1>11, <1>12, UpTo
  <2> QED BY <1>2, <2>1
<1>14. r[n].out \in Seq(Runs(E)) /\ Neighbours(r[n].cur) /\ r[n].cur \in Seq(E)
  <2>1. n \in 0..n BY <1>2
  <2> QED BY <1>9, <1>13, <2>1
<1>15. r[n].cur # <<>> => r[n].cur \in Runs(E) BY <1>14 DEF Runs
<1> QED BY <1>8, <1>14, <1>15

\* The runs of a concatenation: r[k] is what the first k parts make.
JoinRun(r, seqs, T) ==
  /\ r \in [0..Len(seqs) -> Seq(T)] /\ r[0] = <<>>
  /\ \A k \in 1..Len(seqs) : r[k] = r[k - 1] \o seqs[k]

\* To flatten is to put one part after the other.
LEMMA FlattenRuns ==
  ASSUME NEW T, NEW seqs \in Seq(Seq(T))
  PROVE  \E r : JoinRun(r, seqs, T) /\ FlattenSeq(seqs) = r[Len(seqs)]
<1> DEFINE n == Len(seqs)
           V == Seq(T)
           step == [i \in 1..n |-> [v \in V |-> v \o seqs[i]]]
           F(g) == [i \in 1..n |-> IF i = 1 THEN seqs[i] ELSE g[i - 1] \o seqs[i]]
           flatten == CHOOSE g : g = F(g)
<1>1. CASE n = 0
  <2>1. seqs = <<>> BY <1>1
  <2>2. FlattenSeq(seqs) = <<>> BY <1>1, <2>1 DEF FlattenSeq
  <2> DEFINE r == [k \in 0..n |-> <<>>]
  <2>3. r \in [0..n -> Seq(T)] /\ r[0] = <<>> /\ 1..n = {} /\ r[n] = <<>> BY <1>1
  <2> HIDE DEF r
  <2>4. JoinRun(r, seqs, T) BY <2>3 DEF JoinRun
  <2> QED BY <2>2, <2>3, <2>4
<1>2. CASE n # 0
  <2>1. n \in Nat /\ n \in 1..n /\ \A i \in 1..n : seqs[i] \in V BY <1>2
  <2>2. FlattenSeq(seqs) = flatten[n] BY <1>2 DEF FlattenSeq
  <2>3. step \in [1..n -> [V -> V]] /\ \A i \in 1..n : \A v \in V : step[i][v] = v \o seqs[i]
    BY <2>1
  <2>4. <<>> \in V OBVIOUS
  <2> HIDE DEF step, n
  <2>5. PICK g : IsFold(g, n, V, <<>>, step)
    <3> HIDE DEF V
    <3> QED BY <2>1, <2>3, <2>4, FoldExists
  <2> DEFINE h == [i \in 1..n |-> g[1..i]]
  <2>6. ASSUME NEW i \in 1..n PROVE g[1..i] = g[1..(i - 1)] \o seqs[i] /\ g[1..(i - 1)] \in V
    <3>1. PICK j \in Nat : i = j + 1 /\ i - 1 = j
      <4>1. i - 1 \in Nat /\ i = (i - 1) + 1 BY <2>1
      <4> QED BY <4>1
    <3>2. Max(1..i) = i /\ (1..i) \ {i} = 1..(i - 1) BY <3>1, Greatest
    <3>3. 1..i \in SUBSET (1..n) /\ 1..i # {} /\ 1..(i - 1) \in SUBSET (1..n)
      <4>1. i \in 1..i /\ 1..i \subseteq 1..n /\ 1..(i - 1) \subseteq 1..n BY <2>1
      <4> QED BY <4>1
    <3>4. g[1..i] = step[i][g[1..(i - 1)]] /\ g[1..(i - 1)] \in V BY <2>5, <3>2, <3>3 DEF IsFold
    <3> HIDE DEF V
    <3> QED BY <2>3, <3>4
  <2>7. h = F(h)
    <3>1. ASSUME NEW i \in 1..n
          PROVE  g[1..i] = IF i = 1 THEN seqs[i] ELSE h[i - 1] \o seqs[i]
      <4>1. CASE i = 1
        <5>1. 1..(i - 1) = {} BY <4>1
        <5>2. g[{}] = <<>> BY <2>5 DEF IsFold
        <5>3. g[1..i] = <<>> \o seqs[i] BY <2>6, <5>1, <5>2
        <5>4. <<>> \o seqs[i] = seqs[i] BY <2>1
        <5> QED BY <4>1, <5>3, <5>4
      <4>2. CASE i # 1
        <5>1. i - 1 \in 1..n BY <2>1, <4>2
        <5>2. h[i - 1] = g[1..(i - 1)] BY <5>1
        <5> HIDE DEF h
        <5> QED BY <2>6, <4>2, <5>2
      <4> QED BY <4>1, <4>2
    <3> QED BY <3>1
  <2>8. flatten = F(flatten)
    <3>1. \E f : f = F(f) BY <2>7
    <3> QED BY <3>1
  <2> HIDE DEF flatten
  <2> DEFINE S == {k \in 0..n : k > 0 => flatten[k] \in V}
  <2>9. 0 \in S BY <2>1
  <2>10. ASSUME NEW k \in 1..n, k - 1 \in S PROVE k \in S
    <3>1. flatten[k] = IF k = 1 THEN seqs[k] ELSE flatten[k - 1] \o seqs[k] BY <2>8
    <3>2. k # 1 => flatten[k - 1] \in V BY <2>1, <2>10
    <3>3. flatten[k] \in V BY <2>1, <3>1, <3>2
    <3>4. k \in 0..n BY <2>1
    <3> HIDE DEF V
    <3> QED BY <3>3, <3>4
  <2>11. \A k \in 0..n : k \in S
    <3> HIDE DEF S
    <3> QED BY <2>1, <2>9, <2>10, UpTo
  <2> DEFINE r == [k \in 0..n |-> IF k = 0 THEN <<>> ELSE flatten[k]]
  <2>12. \A k \in 1..n : flatten[k] \in V
    <3> HIDE DEF V
    <3> QED BY <2>1, <2>11
  <2>13. r \in [0..n -> V] /\ r[0] = <<>> /\ r[n] = flatten[n] BY <2>1, <2>12
  <2>14. ASSUME NEW k \in 1..n PROVE r[k] = r[k - 1] \o seqs[k]
    <3>1. r[k] = flatten[k] BY <2>1
    <3>2. flatten[k] = IF k = 1 THEN seqs[k] ELSE flatten[k - 1] \o seqs[k] BY <2>8
    <3>3. k - 1 \in 0..n /\ r[k - 1] = IF k = 1 THEN <<>> ELSE flatten[k - 1] BY <2>1
    <3>4. <<>> \o seqs[k] = seqs[k] BY <2>1
    <3> HIDE DEF r
    <3> QED BY <3>1, <3>2, <3>3, <3>4
  <2> HIDE DEF r
  <2>15. JoinRun(r, seqs, T) BY <2>13, <2>14 DEF JoinRun, n
  <2> QED BY <2>2, <2>13, <2>15 DEF n
<1> QED BY <1>1, <1>2

\* What is flattened has the elements of its parts.
LEMMA FlattenTyped ==
  ASSUME NEW T, NEW seqs \in Seq(Seq(T))
  PROVE  FlattenSeq(seqs) \in Seq(T)
<1>1. Len(seqs) \in Nat OBVIOUS
<1>2. PICK r : JoinRun(r, seqs, T) /\ FlattenSeq(seqs) = r[Len(seqs)] BY FlattenRuns
<1> QED BY <1>1, <1>2 DEF JoinRun


\* A group is a run of neighbouring chunks of one edition of a manual.
InContext(g, d, e, draft) ==
  \A i \in 1..Len(g) :
    /\ g[i].doc = d /\ g[i].edition = e
    /\ g[i].pos = g[1].pos + i - 1 /\ g[i].pos \in Nat /\ g[i].pos + 1 \in 1..Len(draft)
    /\ draft[g[i].pos + 1].text = g[i].text

WellGroup(g) ==
  /\ IsSeq(g)
  /\ \E d \in Documents : \E e \in Editions[d] : \E cap \in Caps : InContext(g, d, e, Draft(e, cap))

\* The chunks were read from editions that an author may put on disk.
Shelved(chunks) == \A c \in ToSet(chunks) : c.edition \in Editions[c.doc]

\* The groups that are embedded are runs of neighbours in one manual.
LEMMA GroupsWell ==
  ASSUME NEW chunks, NEW src \in Sources, FromSource(chunks, src), Shelved(chunks)
  PROVE  /\ IsSeq(GroupsByDocument(chunks))
         /\ \A g \in ToSet(GroupsByDocument(chunks)) : WellGroup(g)
<1> DEFINE C == ToSet(chunks)
           OneDocument(g) == \E d \in Documents : \A i \in 1..Len(g) : g[i].doc = d
           T == {g \in Runs(C) : OneDocument(g)}
           groups == GroupsByDocument(chunks)
           seqs == [i \in DOMAIN Manifest |-> PlanGroups(ChunksIn(chunks, Manifest[i]))]
           n == Len(Manifest)
<1>1. IsSeq(chunks) BY DEF FromSource
<1>2. \A c \in C : \E k \in 1..Len(chunks) : c = chunks[k] BY <1>1, SeqFacts
<1>3. \A c \in C : c.tokens \in Nat BY <1>2, SourceChunk
<1>4. n \in Nat /\ DOMAIN Manifest = 1..n BY ManifestIsListed
<1>5. \A i \in 1..n : Manifest[i] \in Documents BY <1>4 DEF Documents, ToSet
<1> HIDE DEF C, n
<1>6. ASSUME NEW i \in 1..n PROVE PlanGroups(ChunksIn(chunks, Manifest[i])) \in Seq(T)
  <2> DEFINE d == Manifest[i]
             s == ChunksIn(chunks, d)
             E == ToSet(s)
  <2>1. InOrder(s, d, chunks) BY ChunksInOrder
  <2> HIDE DEF s, d
  <2>2. \A c \in E : c \in C /\ c.doc = d
    <3>1. \A c \in E : \E j \in 1..Len(s) : c = s[j] BY <2>1, SeqFacts DEF InOrder
    <3>2. \A j \in 1..Len(s) : s[j] \in C /\ s[j].doc = d BY <2>1 DEF InOrder, C
    <3> QED BY <3>1, <3>2
  <2>3. \A c \in ToSet(chunks) : c.tokens \in Nat BY <1>3 DEF C
  <2>4. PlanGroups(s) \in Seq(Runs(E)) BY <2>1, <2>3, PlanGroupsRun
  <2> HIDE DEF E
  <2>5. d \in Documents BY <1>5 DEF d
  <2>6. ASSUME NEW g \in Runs(E) PROVE g \in T
    <3>1. g \in Seq(E) /\ g # <<>> /\ Neighbours(g) BY DEF Runs
    <3>2. E \subseteq C BY <2>2
    <3>3. g \in Seq(C) BY <3>1, <3>2
    <3>4. \A j \in 1..Len(g) : g[j] \in E BY <3>1
    <3>5. \A j \in 1..Len(g) : g[j].doc = d BY <2>2, <3>4
    <3>6. g \in Runs(C) BY <3>1, <3>3 DEF Runs
    <3> QED BY <2>5, <3>5, <3>6
  <2>7. Runs(E) \subseteq T BY <2>6
  <2> HIDE DEF T
  <2>8. PlanGroups(s) \in Seq(T) BY <2>4, <2>7
  <2> QED BY <2>8 DEF s, d
<1>7. groups \in Seq(T)
  <2>1. groups = FlattenSeq(seqs) BY DEF GroupsByDocument
  <2>2. seqs = [i \in 1..n |-> PlanGroups(ChunksIn(chunks, Manifest[i]))] BY <1>4
  <2> HIDE DEF T, groups, seqs
  <2>3. seqs \in Seq(Seq(T)) BY <1>4, <1>6, <2>2
  <2> QED BY <2>1, <2>3, FlattenTyped
<1> HIDE DEF groups
<1>8. ASSUME NEW g \in T PROVE WellGroup(g)
  <2>1. g \in Seq(C) /\ g # <<>> /\ Neighbours(g) BY DEF Runs
  <2>2. PICK d \in Documents : \A i \in 1..Len(g) : g[i].doc = d OBVIOUS
  <2> DEFINE e == src[d].edition
             cap == src[d].cap
             draft == Draft(e, cap)
  <2>3. Len(g) \in Nat /\ 1 \in 1..Len(g) /\ DOMAIN g = 1..Len(g)
        /\ g = [i \in 1..Len(g) |-> g[i]] /\ \A i \in 1..Len(g) : g[i] \in C
    BY <2>1
  <2>4. IsSeq(g) BY <2>3, SeqMade
  <2> HIDE DEF T
  <2>5. ASSUME NEW i \in 1..Len(g)
        PROVE  /\ g[i].edition = e /\ g[i].pos = g[1].pos + i - 1 /\ g[i].pos \in Nat
               /\ g[i].pos + 1 \in 1..Len(draft) /\ draft[g[i].pos + 1].text = g[i].text
               /\ g[i].edition \in Editions[d] /\ cap \in Caps
    <3>1. g[i] \in C /\ g[i].doc = d BY <2>2, <2>3
    <3>2. PICK k \in 1..Len(chunks) : g[i] = chunks[k] BY <1>2, <3>1
    <3>3. g[i].edition = src[g[i].doc].edition BY <3>2, SourceChunk
    <3>4. g[i].text = DraftAt(src[g[i].doc])[g[i].pos + 1].text BY <3>2, SourceChunk
    <3>5. src[g[i].doc].cap \in Caps BY <3>2, SourceChunk
    <3>6. g[i].pos \in Nat /\ g[i].pos + 1 \in 1..Len(DraftAt(src[g[i].doc]))
      BY <3>2 DEF FromSource
    <3>7. DraftAt(src[g[i].doc]) = draft BY <3>1 DEF DraftAt
    <3>8. g[i].pos = g[1].pos + i - 1 BY <2>1 DEF Neighbours
    <3>9. g[i].edition \in Editions[d] BY <3>1 DEF Shelved, C
    <3> HIDE DEF draft
    <3> QED BY <3>1, <3>3, <3>4, <3>5, <3>6, <3>7, <3>8, <3>9
  <2>6. e \in Editions[d] /\ cap \in Caps BY <2>3, <2>5
  <2>7. InContext(g, d, e, draft)
    <3> HIDE DEF e, draft
    <3> QED BY <2>2, <2>5 DEF InContext
  <2> HIDE DEF e, cap
  <2> QED BY <2>4, <2>6, <2>7 DEF WellGroup
<1>9. IsSeq(groups) /\ \A g \in ToSet(groups) : g \in T
  <2> HIDE DEF T
  <2>1. Len(groups) \in Nat /\ DOMAIN groups = 1..Len(groups)
        /\ groups = [i \in 1..Len(groups) |-> groups[i]]
        /\ \A i \in 1..Len(groups) : groups[i] \in T
    BY <1>7
  <2>2. IsSeq(groups) BY <2>1, SeqMade
  <2>3. \A g \in ToSet(groups) : \E i \in 1..Len(groups) : g = groups[i] BY <2>2, SeqFacts
  <2> QED BY <2>1, <2>2, <2>3
<1> QED BY <1>8, <1>9 DEF groups

\* What is left of a sequence behind its head.
LEMMA SeqTail ==
  ASSUME NEW s, IsSeq(s), s # <<>>
  PROVE  /\ Head(s) \in ToSet(s) /\ IsSeq(Tail(s)) /\ Len(Tail(s)) = Len(s) - 1
         /\ Head(s) = s[1] /\ \A i \in 1..Len(Tail(s)) : Tail(s)[i] = s[i + 1]
         /\ \A x \in ToSet(Tail(s)) : x \in ToSet(s)
<1> DEFINE T == ToSet(s)
           t == Tail(s)
<1>1. s \in Seq(T) BY DEF IsSeq
<1>2. \A i \in 1..Len(s) : s[i] \in T BY SeqFacts
<1> HIDE DEF T
<1>3. Len(s) \in Nat /\ Len(s) # 0 /\ Head(s) = s[1] BY <1>1
<1>4. t \in Seq(T) /\ Len(t) = Len(s) - 1 BY <1>1
<1>5. \A i \in 1..Len(t) : t[i] = s[i + 1] BY <1>1, <1>4
<1>6. Len(t) \in Nat /\ DOMAIN t = 1..Len(t) /\ t = [i \in 1..Len(t) |-> t[i]]
  <2> HIDE DEF t
  <2> QED BY <1>4
<1> HIDE DEF t
<1>7. IsSeq(t) BY <1>6, SeqMade
<1>8. \A x \in ToSet(t) : x \in T
  <2>1. \A x \in ToSet(t) : \E i \in 1..Len(t) : x = t[i] BY <1>7, SeqFacts
  <2>2. \A i \in 1..Len(t) : t[i] \in T BY <1>4
  <2> QED BY <2>1, <2>2
<1>9. Head(s) \in T BY <1>2, <1>3
<1> QED BY <1>3, <1>4, <1>5, <1>7, <1>8, <1>9 DEF T, t
-----------------------------------------------------------------------------
(* Every chunk is in one group.                                            *)

\* None of a document's chunks is overlooked.
LEMMA ChunksInAll ==
  ASSUME NEW chunks, IsSeq(chunks), NEW d
  PROVE  \A c \in ToSet(chunks) : c.doc = d => c \in ToSet(ChunksIn(chunks, d))
<1> DEFINE n == Len(chunks)
           V == Seq(ToSet(chunks))
           step == [i \in 1..n |-> [v \in V |-> PickChunk(d, v, chunks[i])]]
<1>1. n \in Nat /\ DOMAIN chunks = 1..n /\ \A i \in 1..n : chunks[i] \in ToSet(chunks)
  BY SeqFacts
<1>2. \A i \in 1..n : \A v \in V : PickChunk(d, v, chunks[i]) \in V
  BY <1>1 DEF PickChunk
<1>3. <<>> \in V OBVIOUS
<1>4. \A i \in 1..n : \A v \in V : step[i][v] = PickChunk(d, v, chunks[i]) OBVIOUS
<1>5. RunEnds(Picked(d, <<>>, chunks), n, V, <<>>, step)
  <2> HIDE DEF n, V
  <2> QED BY <1>1, <1>2, <1>3, PickedRuns
<1> HIDE DEF step, n
<1>6. ChunksIn(chunks, d) = Picked(d, <<>>, chunks) BY DEF ChunksIn, Picked, PickChunk
<1>7. PICK r : IsRun(r, n, V, <<>>, step) /\ ChunksIn(chunks, d) = r[n] BY <1>5, <1>6 DEF RunEnds
<1>8. \A k \in 0..n : r[k] \in V BY <1>7 DEF IsRun
<1>9. ASSUME NEW k \in 1..n
      PROVE  /\ k - 1 \in 0..n /\ k \in 0..n /\ r[k - 1] \in V
             /\ r[k] = IF chunks[k].doc = d THEN Append(r[k - 1], chunks[k]) ELSE r[k - 1]
  <2>1. k - 1 \in 0..n /\ k \in 0..n BY <1>1
  <2>2. r[k] = step[k][r[k - 1]] BY <1>7 DEF IsRun
  <2>3. r[k - 1] \in V BY <1>8, <2>1
  <2> HIDE DEF V
  <2> QED BY <1>4, <2>1, <2>2, <2>3 DEF PickChunk
<1> DEFINE Has(s, c) == \E j \in 1..Len(s) : s[j] = c
           Good(k) == \A i \in 1..k : chunks[i].doc = d => Has(r[k], chunks[i])
           S == {k \in 0..n : Good(k)}
<1>10. 0 \in S BY <1>1
<1>11. ASSUME NEW k \in 1..n, k - 1 \in S PROVE k \in S
  <2>1. Good(k - 1) /\ k \in 0..n BY <1>9, <1>11
  <2>2. ASSUME NEW i \in 1..k, chunks[i].doc = d PROVE Has(r[k], chunks[i])
    <3>1. CASE i = k
      <4>1. r[k] = Append(r[k - 1], chunks[k]) BY <1>9, <2>2, <3>1
      <4>2. Len(r[k - 1]) \in Nat BY <1>9
      <4>3. Len(r[k]) = Len(r[k - 1]) + 1 /\ r[k][Len(r[k - 1]) + 1] = chunks[k] BY <1>9, <4>1
      <4>4. Len(r[k - 1]) + 1 \in 1..Len(r[k]) BY <4>2, <4>3
      <4> QED BY <3>1, <4>3, <4>4
    <3>2. CASE i # k
      <4>1. i \in 1..(k - 1) BY <1>1, <3>2
      <4>2. PICK j \in 1..Len(r[k - 1]) : r[k - 1][j] = chunks[i] BY <2>1, <2>2, <4>1
      <4>3. r[k - 1] \in V BY <1>9
      <4>4. j \in 1..Len(r[k]) /\ r[k][j] = r[k - 1][j]
        <5>1. CASE chunks[k].doc = d
          <6>1. r[k] = Append(r[k - 1], chunks[k]) BY <1>9, <5>1
          <6> QED BY <4>3, <6>1
        <5>2. CASE chunks[k].doc # d
          <6>1. r[k] = r[k - 1] BY <1>9, <5>2
          <6> QED BY <6>1
        <5> QED BY <5>1, <5>2
      <4> QED BY <4>2, <4>4
    <3> QED BY <3>1, <3>2
  <2> QED BY <2>1, <2>2
<1>12. n \in S
  <2> HIDE DEF S
  <2>1. \A k \in 0..n : k \in S BY <1>1, <1>10, <1>11, UpTo
  <2> QED BY <1>1, <2>1
<1>13. ASSUME NEW c \in ToSet(chunks), c.doc = d PROVE c \in ToSet(ChunksIn(chunks, d))
  <2>1. PICK i \in 1..n : c = chunks[i] BY SeqFacts DEF n
  <2>2. PICK j \in 1..Len(r[n]) : r[n][j] = c BY <1>12, <1>13, <2>1
  <2>3. n \in 0..n BY <1>1
  <2>4. r[n] \in V BY <1>8, <2>3
  <2>5. j \in DOMAIN r[n] BY <2>4
  <2> QED BY <1>7, <2>2, <2>5 DEF ToSet
<1> QED BY <1>13

\* What is in some groups, and groups that share nothing.
In(gs) == UNION {ToSet(gs[i]) : i \in 1..Len(gs)}

Apart(gs) ==
  \A i, j \in 1..Len(gs) : \A c : c \in ToSet(gs[i]) /\ c \in ToSet(gs[j]) => i = j

\* No groups.
LEMMA InNone == In(<<>>) = {} /\ Apart(<<>>)
<1>1. Len(<<>>) = 0 /\ 1..0 = {} OBVIOUS
<1> QED BY <1>1 DEF In, Apart

\* Groups behind groups.
LEMMA InJoined ==
  ASSUME NEW a, NEW b, IsSeq(a), IsSeq(b), NEW all, all = a \o b
  PROVE  /\ IsSeq(all) /\ In(all) = In(a) \cup In(b)
         /\ Apart(a) /\ Apart(b) /\ In(a) \cap In(b) = {} => Apart(all)
<1> DEFINE n == Len(a)
           m == Len(b)
<1>10. n = Len(a) /\ m = Len(b) OBVIOUS
<1> HIDE DEF n, m
<1>1. n \in Nat /\ m \in Nat /\ IsSeq(all) /\ Len(all) = n + m
  <2>1. n \in Nat /\ m \in Nat BY <1>10, SeqFacts
  <2>2. IsSeq(a \o b) /\ Len(a \o b) = Len(a) + Len(b) BY SetJoined
  <2> QED BY <1>10, <2>1, <2>2
<1>2. \A i \in 1..n : all[i] = a[i] BY <1>10, SeqJoined
<1>3. \A i \in n + 1..n + m : all[i] = b[i - n] /\ i - n \in 1..m BY <1>10, SeqJoined
<1>4. \A c : c \in In(a) <=> \E i \in 1..n : c \in ToSet(a[i]) BY <1>10 DEF In
<1>5. \A c : c \in In(b) <=> \E i \in 1..m : c \in ToSet(b[i]) BY <1>10 DEF In
<1>6. \A c : c \in In(all) <=> \E i \in 1..n + m : c \in ToSet(all[i]) BY <1>1 DEF In
<1>7. ASSUME Apart(a), Apart(b), In(a) \cap In(b) = {}, NEW i \in 1..n + m, NEW j \in 1..n + m,
             NEW c, c \in ToSet(all[i]), c \in ToSet(all[j])
      PROVE  i = j
  <2>1. \A k, l \in 1..n : c \in ToSet(a[k]) /\ c \in ToSet(a[l]) => k = l BY <1>7, <1>10 DEF Apart
  <2>2. \A k, l \in 1..m : c \in ToSet(b[k]) /\ c \in ToSet(b[l]) => k = l BY <1>7, <1>10 DEF Apart
  <2>3. \A k \in 1..n + m : k \in 1..n \/ k \in n + 1..n + m BY <1>1
  <2>4. \A k \in 1..n : c \in ToSet(all[k]) => c \in In(a) BY <1>2, <1>4
  <2>5. \A k \in n + 1..n + m : c \in ToSet(all[k]) => c \in In(b) BY <1>3, <1>5
  <2>6. CASE i \in 1..n /\ j \in 1..n BY <1>2, <1>7, <2>1, <2>6
  <2>7. CASE i \in n + 1..n + m /\ j \in n + 1..n + m
    <3>1. i - n = j - n BY <1>3, <1>7, <2>2, <2>7
    <3> QED BY <1>1, <2>7, <3>1
  <2>8. CASE i \in 1..n /\ j \in n + 1..n + m BY <1>7, <2>4, <2>5, <2>8
  <2>9. CASE j \in 1..n /\ i \in n + 1..n + m BY <1>7, <2>4, <2>5, <2>9
  <2> QED BY <2>3, <2>6, <2>7, <2>8, <2>9
<1>8. ASSUME Apart(a), Apart(b), In(a) \cap In(b) = {} PROVE Apart(all)
  <2>1. \A i, j \in 1..n + m : \A c : c \in ToSet(all[i]) /\ c \in ToSet(all[j]) => i = j
    BY <1>7, <1>8
  <2> QED BY <1>1, <2>1 DEF Apart
<1>9. In(all) = In(a) \cup In(b)
  <2>1. \A c : c \in In(all) => c \in In(a) \cup In(b)
    <3> SUFFICES ASSUME NEW c, c \in In(all) PROVE c \in In(a) \cup In(b) OBVIOUS
    <3>1. PICK i \in 1..n + m : c \in ToSet(all[i]) BY <1>6
    <3>2. CASE i \in 1..n BY <1>2, <1>4, <3>1, <3>2
    <3>3. CASE i \in n + 1..n + m BY <1>3, <1>5, <3>1, <3>3
    <3> QED BY <1>1, <3>2, <3>3
  <2>2. \A c : c \in In(a) => c \in In(all)
    <3>1. \A i \in 1..n : i \in 1..n + m BY <1>1
    <3> QED BY <1>2, <1>4, <1>6, <3>1
  <2>3. \A c : c \in In(b) => c \in In(all)
    <3> SUFFICES ASSUME NEW c, c \in In(b) PROVE c \in In(all) OBVIOUS
    <3>1. PICK i \in 1..m : c \in ToSet(b[i]) BY <1>5
    <3>2. i + n \in n + 1..n + m /\ (i + n) - n = i /\ i + n \in 1..n + m BY <1>1
    <3> QED BY <1>3, <1>6, <3>1, <3>2
  <2> QED BY <2>1, <2>2, <2>3
<1> QED BY <1>1, <1>8, <1>9

\* One more group.
LEMMA InMore ==
  ASSUME NEW a, NEW T, a \in Seq(T), NEW g \in T, NEW all, all = Append(a, g)
  PROVE  /\ In(all) = In(a) \cup ToSet(g)
         /\ Apart(a) /\ In(a) \cap ToSet(g) = {} => Apart(all)
<1> DEFINE b == <<g>>
<1>1. Len(b) = 1 /\ b[1] = g /\ DOMAIN b = 1..1 /\ b = [i \in 1..1 |-> b[i]] OBVIOUS
<1>2. Len(a) \in Nat /\ DOMAIN a = 1..Len(a) /\ a = [i \in 1..Len(a) |-> a[i]] OBVIOUS
<1>3. all = a \o b OBVIOUS
<1> HIDE DEF b
<1>4. IsSeq(b) BY <1>1, SeqMade
<1>5. IsSeq(a) BY <1>2, SeqMade
<1>6. \A i \in 1..1 : i = 1 OBVIOUS
<1>7. In(b) = ToSet(g)
  <2>1. 1 \in 1..1 OBVIOUS
  <2>2. \A c : c \in In(b) <=> \E i \in 1..1 : c \in ToSet(b[i]) BY <1>1 DEF In
  <2>3. \A c : c \in In(b) <=> c \in ToSet(g) BY <1>1, <1>6, <2>1, <2>2
  <2> QED BY <2>3
<1>8. Apart(b) BY <1>1, <1>6 DEF Apart
<1>9. In(all) = In(a) \cup In(b) BY <1>3, <1>4, <1>5, InJoined
<1>10. Apart(a) /\ In(a) \cap In(b) = {} => Apart(all) BY <1>3, <1>4, <1>5, <1>8, InJoined
<1> QED BY <1>7, <1>9, <1>10

\* What an extended sequence has in it.
LEMMA SetMore ==
  ASSUME NEW T, NEW s \in Seq(T), NEW x \in T
  PROVE  ToSet(Append(s, x)) = ToSet(s) \cup {x}
<1> DEFINE n == Len(s)
           t == Append(s, x)
<1>1. n \in Nat /\ DOMAIN s = 1..n /\ DOMAIN t = 1..(n + 1) OBVIOUS
<1>2. t[n + 1] = x /\ \A i \in 1..n : t[i] = s[i] OBVIOUS
<1>3. n + 1 \in 1..(n + 1) /\ \A i \in 1..(n + 1) : i \in 1..n \/ i = n + 1 BY <1>1
<1>4. \A i \in 1..n : i \in 1..(n + 1) BY <1>1
<1> HIDE DEF n, t
<1>5. \A y : y \in ToSet(t) <=> \E i \in 1..(n + 1) : y = t[i] BY <1>1 DEF ToSet
<1>6. \A y : y \in ToSet(s) <=> \E i \in 1..n : y = s[i] BY <1>1 DEF ToSet
<1>7. \A y : y \in ToSet(t) <=> y \in ToSet(s) \cup {x} BY <1>2, <1>3, <1>4, <1>5, <1>6
<1>8. ToSet(t) = ToSet(s) \cup {x} BY <1>7
<1> QED BY <1>8 DEF t

\* Every chunk is planned into one group.
LEMMA PlanGroupsTile ==
  ASSUME NEW s, NEW d, NEW chunks, InOrder(s, d, chunks), \A c \in ToSet(chunks) : c.tokens \in Nat
  PROVE  In(PlanGroups(s)) = ToSet(s) /\ Apart(PlanGroups(s))
<1> DEFINE n == Len(s)
           E == ToSet(s)
           First(k) == {s[i] : i \in 1..k}
<1>1. n \in Nat /\ DOMAIN s = 1..n /\ \A i \in 1..n : s[i] \in E BY SeqFacts DEF InOrder
<1>2. \A i \in 1..n : s[i].pos = i - 1 BY DEF InOrder
<1>3. E = First(n) BY SeqFacts DEF InOrder
<1> HIDE DEF n, E
<1>4. PICK r : /\ PlanRun(r, s, n, Plans(E))
               /\ PlanGroups(s) = IF r[n].cur = <<>> THEN r[n].out ELSE Append(r[n].out, r[n].cur)
  BY PlanGroupsRuns DEF n, E
<1>5. \A k \in 0..n : r[k].out \in Seq(Seq(E)) /\ r[k].cur \in Seq(E) BY <1>4 DEF PlanRun, Plans
<1> DEFINE Good(k) == /\ In(r[k].out) \cup ToSet(r[k].cur) = First(k)
                      /\ In(r[k].out) \cap ToSet(r[k].cur) = {} /\ Apart(r[k].out)
           S == {k \in 0..n : Good(k)}
<1>6. ToSet(<<>>) = {} BY DEF ToSet
<1>7. 0 \in S
  <2>1. r[0].out = <<>> /\ r[0].cur = <<>> BY <1>4 DEF PlanRun
  <2>2. First(0) = {} OBVIOUS
  <2> HIDE DEF First
  <2>3. Good(0) BY <1>6, <2>1, <2>2, InNone
  <2> QED BY <1>1, <2>3
<1>8. ASSUME NEW k \in 1..n, k - 1 \in S PROVE k \in S
  <2> DEFINE out == r[k - 1].out
             cur == r[k - 1].cur
             x == s[k]
  <2>1. k - 1 \in 0..n /\ k \in 0..n BY <1>1
  <2>2. Good(k - 1) BY <1>8
  <2>3. out \in Seq(Seq(E)) /\ cur \in Seq(E) /\ x \in E BY <1>1, <1>5, <2>1
  <2>4. First(k) = First(k - 1) \cup {x} /\ x \notin First(k - 1)
    <3>1. \A i \in 1..k : i \in 1..(k - 1) \/ i = k BY <1>1
    <3>2. \A i \in 1..(k - 1) : i \in 1..k /\ i \in 1..n /\ i # k BY <1>1
    <3>3. k \in 1..k BY <1>1
    <3>4. \A i \in 1..(k - 1) : s[i] # s[k]
      <4> SUFFICES ASSUME NEW i \in 1..(k - 1), s[i] = s[k] PROVE FALSE OBVIOUS
      <4>1. i - 1 = k - 1 /\ i # k /\ i \in Nat /\ k \in Nat BY <1>1, <1>2, <3>2
      <4> QED BY <4>1
    <3> QED BY <3>1, <3>2, <3>3, <3>4
  <2> HIDE DEF First, x
  <2>5. /\ In(out) \cup ToSet(cur) = First(k - 1)
        /\ In(out) \cap ToSet(cur) = {} /\ Apart(out)
    BY <2>2
  <2>6. \/ r[k].out = out /\ r[k].cur = Append(cur, x)
        \/ r[k].out = Append(out, cur) /\ r[k].cur = <<x>>
    BY <1>4 DEF PlanRun, x
  <2> HIDE DEF out, cur, Good
  <2>7. CASE r[k].out = out /\ r[k].cur = Append(cur, x)
    <3>1. ToSet(r[k].cur) = ToSet(cur) \cup {x} BY <2>3, <2>7, SetMore
    <3>2. Good(k) BY <2>4, <2>5, <2>7, <3>1 DEF Good
    <3> QED BY <2>1, <3>2
  <2>8. CASE r[k].out = Append(out, cur) /\ r[k].cur = <<x>>
    <3>1. In(r[k].out) = In(out) \cup ToSet(cur) BY <2>3, <2>8, InMore
    <3>2. Apart(r[k].out) BY <2>3, <2>5, <2>8, InMore
    <3>3. ToSet(r[k].cur) = {x}
      <4>1. DOMAIN <<x>> = 1..1 /\ <<x>>[1] = x /\ 1 \in 1..1 /\ \A i \in 1..1 : i = 1 OBVIOUS
      <4> QED BY <2>8, <4>1 DEF ToSet
    <3>4. Good(k) BY <2>4, <2>5, <3>1, <3>2, <3>3 DEF Good
    <3> QED BY <2>1, <3>4
  <2> QED BY <2>6, <2>7, <2>8
<1>9. n \in S
  <2> HIDE DEF S
  <2>1. \A k \in 0..n : k \in S BY <1>1, <1>7, <1>8, UpTo
  <2> QED BY <1>1, <2>1
<1>10. Good(n) /\ n \in 0..n BY <1>1, <1>9
<1>11. r[n].out \in Seq(Seq(E)) /\ r[n].cur \in Seq(E) BY <1>5, <1>10
<1> HIDE DEF First
<1>12. CASE r[n].cur = <<>>
  <2>1. PlanGroups(s) = r[n].out BY <1>4, <1>12
  <2> QED BY <1>3, <1>6, <1>10, <1>12, <2>1 DEF E
<1>13. CASE r[n].cur # <<>>
  <2>1. PlanGroups(s) = Append(r[n].out, r[n].cur) BY <1>4, <1>13
  <2>2. In(PlanGroups(s)) = In(r[n].out) \cup ToSet(r[n].cur) BY <1>11, <2>1, InMore
  <2>3. Apart(PlanGroups(s)) BY <1>10, <1>11, <2>1, InMore
  <2> QED BY <1>3, <1>10, <2>2, <2>3 DEF E
<1> QED BY <1>12, <1>13

\* Every chunk of the file is in one group.
LEMMA GroupsTile ==
  ASSUME NEW chunks, NEW src \in Sources, FromSource(chunks, src)
  PROVE  In(GroupsByDocument(chunks)) = ToSet(chunks) /\ Apart(GroupsByDocument(chunks))
<1> DEFINE C == ToSet(chunks)
           Of(d) == {c \in C : c.doc = d}
           seqs == [i \in DOMAIN Manifest |-> PlanGroups(ChunksIn(chunks, Manifest[i]))]
           n == Len(Manifest)
           T == Seq(C)
           First(k) == UNION {Of(Manifest[i]) : i \in 1..k}
<1>1. IsSeq(chunks) BY DEF FromSource
<1>2. \A c \in C : \E k \in 1..Len(chunks) : c = chunks[k] BY <1>1, SeqFacts
<1>3. \A c \in C : c.tokens \in Nat /\ c.doc \in Documents
  <2>1. \A k \in 1..Len(chunks) : chunks[k].doc \in Documents BY DEF FromSource
  <2> QED BY <1>2, <2>1, SourceChunk
<1>4. n \in Nat /\ DOMAIN Manifest = 1..n /\ Documents = {Manifest[i] : i \in 1..n}
      /\ \A i, j \in 1..n : i # j => Manifest[i] # Manifest[j]
  BY ManifestIsListed DEF Documents, ToSet
<1> HIDE DEF n, C
<1>5. ASSUME NEW i \in 1..n
      PROVE  /\ seqs[i] \in Seq(T) /\ In(seqs[i]) = Of(Manifest[i]) /\ Apart(seqs[i])
  <2> DEFINE d == Manifest[i]
             s == ChunksIn(chunks, d)
             E == ToSet(s)
  <2>1. InOrder(s, d, chunks) BY ChunksInOrder
  <2>2. seqs[i] = PlanGroups(s) BY <1>4
  <2>9. \A c \in C : c.doc = d => c \in ToSet(ChunksIn(chunks, d)) BY <1>1, ChunksInAll DEF C
  <2> HIDE DEF seqs
  <2>3. \A c \in E : c \in C /\ c.doc = d
    <3> HIDE DEF s, d
    <3>1. \A c \in E : \E j \in 1..Len(s) : c = s[j] BY <2>1, SeqFacts DEF InOrder
    <3>2. \A j \in 1..Len(s) : s[j] \in C /\ s[j].doc = d BY <2>1 DEF InOrder, C
    <3> QED BY <3>1, <3>2
  <2>4. E = Of(d) BY <2>3, <2>9
  <2> HIDE DEF s, d, Of
  <2>5. \A c \in ToSet(chunks) : c.tokens \in Nat BY <1>3 DEF C
  <2>6. In(PlanGroups(s)) = E /\ Apart(PlanGroups(s)) BY <2>1, <2>5, PlanGroupsTile
  <2>7. PlanGroups(s) \in Seq(Runs(E)) BY <2>1, <2>5, PlanGroupsRun
  <2> HIDE DEF E
  <2>8. PlanGroups(s) \in Seq(T)
    <3>1. \A g \in Runs(E) : g \in Seq(E) BY DEF Runs
    <3>2. E \subseteq C BY <2>3
    <3>3. Runs(E) \subseteq T BY <3>1, <3>2
    <3> HIDE DEF T
    <3> QED BY <2>7, <3>3
  <2> QED BY <2>2, <2>4, <2>6, <2>8 DEF d
<1>6. GroupsByDocument(chunks) = FlattenSeq(seqs) BY DEF GroupsByDocument
<1>7. seqs \in Seq(Seq(T)) /\ Len(seqs) = n
  <2>1. DOMAIN seqs = 1..n /\ seqs = [i \in 1..n |-> seqs[i]] BY <1>4
  <2> HIDE DEF seqs, T, Of
  <2>2. Len(seqs) = n BY <1>4, <2>1, SeqMade
  <2>3. seqs \in Seq(Seq(T)) BY <1>4, <1>5, <2>1
  <2> QED BY <2>2, <2>3
<1> HIDE DEF seqs, T, Of
<1>8. PICK r : JoinRun(r, seqs, T) /\ FlattenSeq(seqs) = r[n] BY <1>7, FlattenRuns
<1>9. \A k \in 0..n : r[k] \in Seq(T) BY <1>7, <1>8 DEF JoinRun
<1> DEFINE Good(k) == In(r[k]) = First(k) /\ Apart(r[k])
           S == {k \in 0..n : Good(k)}
<1>10. 0 \in S
  <2>1. First(0) = {} OBVIOUS
  <2>2. r[0] = <<>> BY <1>8 DEF JoinRun
  <2> HIDE DEF First
  <2>3. Good(0) BY <2>1, <2>2, InNone
  <2> QED BY <1>4, <2>3
<1>11. ASSUME NEW k \in 1..n, k - 1 \in S PROVE k \in S
  <2> DEFINE a == r[k - 1]
             b == seqs[k]
             all == r[k]
             d == Manifest[k]
  <2>1. k - 1 \in 0..n /\ k \in 0..n BY <1>4
  <2>2. In(a) = First(k - 1) /\ Apart(a) BY <1>11
  <2>3. all = a \o b BY <1>7, <1>8 DEF JoinRun
  <2>4. In(b) = Of(d) /\ Apart(b) /\ b \in Seq(T) /\ a \in Seq(T) BY <1>5, <1>9, <2>1
  <2>5. First(k) = First(k - 1) \cup Of(d) /\ First(k - 1) \cap Of(d) = {}
    <3>1. \A i \in 1..k : i \in 1..(k - 1) \/ i = k BY <1>4
    <3>2. \A i \in 1..(k - 1) : i \in 1..k /\ i \in 1..n /\ i # k BY <1>4
    <3>3. k \in 1..k BY <1>4
    <3>4. \A i \in 1..(k - 1) : Manifest[i] # d BY <1>4, <3>2
    <3>5. \A c, x : c \in Of(x) => c.doc = x BY DEF Of
    <3>6. First(k) = First(k - 1) \cup Of(d)
      <4>1. \A c : c \in First(k) <=> \E i \in 1..k : c \in Of(Manifest[i]) OBVIOUS
      <4>2. \A c : c \in First(k - 1) <=> \E i \in 1..(k - 1) : c \in Of(Manifest[i]) OBVIOUS
      <4> HIDE DEF First
      <4> QED BY <3>1, <3>2, <3>3, <4>1, <4>2
    <3>7. First(k - 1) \cap Of(d) = {} BY <3>4, <3>5
    <3> QED BY <3>6, <3>7
  <2> HIDE DEF a, b, all, d, First
  <2>6. IsSeq(a) /\ IsSeq(b)
    <3>1. Len(a) \in Nat /\ DOMAIN a = 1..Len(a) /\ a = [i \in 1..Len(a) |-> a[i]] BY <2>4
    <3>2. Len(b) \in Nat /\ DOMAIN b = 1..Len(b) /\ b = [i \in 1..Len(b) |-> b[i]] BY <2>4
    <3> QED BY <3>1, <3>2, SeqMade
  <2>7. In(all) = In(a) \cup In(b) BY <2>3, <2>6, InJoined
  <2>8. Apart(all)
    <3>1. In(a) \cap In(b) = {} BY <2>2, <2>4, <2>5
    <3> QED BY <2>2, <2>3, <2>4, <2>6, <3>1, InJoined
  <2>9. In(all) = First(k) BY <2>2, <2>4, <2>5, <2>7
  <2>10. Good(k) BY <2>8, <2>9 DEF all
  <2> QED BY <2>1, <2>10
<1>12. n \in S
  <2> HIDE DEF S
  <2>1. \A k \in 0..n : k \in S BY <1>4, <1>10, <1>11, UpTo
  <2> QED BY <1>4, <2>1
<1>13. First(n) = C
  <2>1. \A c : c \in C => c \in First(n)
    <3> SUFFICES ASSUME NEW c \in C PROVE c \in First(n) OBVIOUS
    <3>1. c \in Of(c.doc) BY DEF Of
    <3>2. PICK i \in 1..n : c.doc = Manifest[i] BY <1>3, <1>4
    <3> QED BY <3>1, <3>2
  <2>2. \A c : c \in First(n) => c \in C BY DEF Of
  <2> HIDE DEF First
  <2> QED BY <2>1, <2>2
<1> QED BY <1>6, <1>8, <1>12, <1>13 DEF C

-----------------------------------------------------------------------------
(* Sequences put together.                                                 *)

\* Concatenation by name: the laws below are all that is used of it.
Then(u, v) == u \o v

\* Its laws.
LEMMA ThenNone ==
  ASSUME NEW T, NEW a \in Seq(T)
  PROVE  Then(a, <<>>) = a /\ Then(<<>>, a) = a
BY DEF Then

\* Joining is associative.
LEMMA ThenThen ==
  ASSUME NEW T, NEW a \in Seq(T), NEW b \in Seq(T), NEW c \in Seq(T)
  PROVE  Then(Then(a, b), c) = Then(a, Then(b, c))
BY ConcatAssociative DEF Then

\* Sequences of parts, and the run that joins the first n of them.
Parts(T) == Seq(Seq(T))

Joins(r, seqs, n, T) ==
  /\ r \in [0..n -> Seq(T)] /\ r[0] = <<>>
  /\ \A k \in 1..n : r[k] = Then(r[k - 1], seqs[k])

\* To flatten is to join all of them.
LEMMA FlattenJoins ==
  ASSUME NEW T, NEW seqs \in Parts(T), NEW n, n = Len(seqs)
  PROVE  n \in Nat /\ \E r : Joins(r, seqs, n, T) /\ FlattenSeq(seqs) = r[n]
<1>1. n \in Nat BY DEF Parts
<1>2. PICK r : JoinRun(r, seqs, T) /\ FlattenSeq(seqs) = r[n] BY FlattenRuns DEF Parts
<1>3. Joins(r, seqs, n, T) BY <1>2 DEF JoinRun, Joins, Then
<1> QED BY <1>1, <1>2, <1>3

\* Two sequences have the first n parts in common.
Agree(s, t, n) == \A k \in 1..n : s[k] = t[k]

\* The first n parts determine what a run makes of them.
LEMMA JoinsAgree ==
  ASSUME NEW T, NEW s, NEW t, NEW q, NEW r, NEW n \in Nat, NEW m \in Nat, m >= n,
         Joins(q, s, n, T), Joins(r, t, m, T), Agree(s, t, n)
  PROVE  q[n] = r[n]
<1> DEFINE S == {k \in 0..n : q[k] = r[k]}
<1>1. 0 \in S BY DEF Joins
<1>2. ASSUME NEW k \in 1..n, k - 1 \in S PROVE k \in S
  <2>1. k \in 1..m /\ k \in 0..n OBVIOUS
  <2>2. q[k] = Then(q[k - 1], s[k]) BY DEF Joins
  <2>3. r[k] = Then(r[k - 1], t[k]) BY <2>1 DEF Joins
  <2>4. q[k - 1] = r[k - 1] BY <1>2
  <2>5. s[k] = t[k] BY DEF Agree
  <2> QED BY <2>1, <2>2, <2>3, <2>4, <2>5
<1>3. \A k \in 0..n : k \in S
  <2> HIDE DEF S
  <2> QED BY <1>1, <1>2, UpTo
<1> QED BY <1>3

\* One part more.
LEMMA FlattenAppend ==
  ASSUME NEW T, NEW seqs \in Parts(T), NEW x \in Seq(T)
  PROVE  FlattenSeq(Append(seqs, x)) = Then(FlattenSeq(seqs), x)
<1> DEFINE n == Len(seqs)
           all == Append(seqs, x)
<1>1. n \in Nat /\ all \in Parts(T) /\ n + 1 = Len(all) BY DEF Parts
<1>2. all[n + 1] = x /\ Agree(seqs, all, n) BY DEF Parts, Agree
<1> HIDE DEF all, n
<1>3. PICK q : Joins(q, seqs, n, T) /\ FlattenSeq(seqs) = q[n] BY FlattenJoins DEF n
<1>4. PICK r : Joins(r, all, n + 1, T) /\ FlattenSeq(all) = r[n + 1] BY <1>1, FlattenJoins
<1>5. q[n] = r[n]
  <2>1. n + 1 \in Nat /\ n + 1 >= n BY <1>1
  <2> QED BY <1>1, <1>2, <1>3, <1>4, <2>1, JoinsAgree
<1>6. r[n + 1] = Then(r[n], x)
  <2>1. n + 1 \in 1..n + 1 /\ (n + 1) - 1 = n BY <1>1
  <2>2. r[n + 1] = Then(r[(n + 1) - 1], all[n + 1]) BY <1>4, <2>1 DEF Joins
  <2> QED BY <1>2, <2>1, <2>2
<1> QED BY <1>3, <1>4, <1>5, <1>6 DEF all

\* A function on an interval is a sequence, and grows by its last value.
LEMMA FunctionGrows ==
  ASSUME NEW T, NEW n \in Nat, NEW f, \A i \in 1..n + 1 : f[i] \in T
  PROVE  /\ [i \in 1..n |-> f[i]] \in Seq(T)
         /\ [i \in 1..n + 1 |-> f[i]] = Append([i \in 1..n |-> f[i]], f[n + 1])
<1> DEFINE s == [i \in 1..n |-> f[i]]
           t == [i \in 1..n + 1 |-> f[i]]
<1>1. s \in Seq(T) /\ Len(s) = n OBVIOUS
<1>2. t \in Seq(T) /\ Len(t) = n + 1 OBVIOUS
<1>3. Append(s, f[n + 1]) \in Seq(T) /\ Len(Append(s, f[n + 1])) = n + 1 BY <1>1
<1>4. ASSUME NEW i \in 1..n + 1 PROVE t[i] = Append(s, f[n + 1])[i]
  <2>1. CASE i = n + 1 BY <1>1, <2>1
  <2>2. CASE i # n + 1 BY <1>1, <2>2
  <2> QED BY <2>1, <2>2
<1> HIDE DEF s, t
<1>5. t = Append(s, f[n + 1]) BY <1>2, <1>3, <1>4
<1> QED BY <1>1, <1>5 DEF s, t

\* What the parts of a function make, one part more.
LEMMA FlattenGrows ==
  ASSUME NEW T, NEW n \in Nat, NEW f, \A i \in 1..n + 1 : f[i] \in Seq(T)
  PROVE  /\ FlattenSeq([i \in 1..n |-> f[i]]) \in Seq(T)
         /\ FlattenSeq([i \in 1..n + 1 |-> f[i]])
              = Then(FlattenSeq([i \in 1..n |-> f[i]]), f[n + 1])
<1> DEFINE s == [i \in 1..n |-> f[i]]
<1>1. s \in Parts(T) /\ [i \in 1..n + 1 |-> f[i]] = Append(s, f[n + 1])
  BY FunctionGrows DEF Parts
<1>2. f[n + 1] \in Seq(T) OBVIOUS
<1> HIDE DEF s
<1>3. FlattenSeq(s) \in Seq(T) BY <1>1, FlattenTyped DEF Parts
<1>4. FlattenSeq(Append(s, f[n + 1])) = Then(FlattenSeq(s), f[n + 1]) BY <1>1, <1>2, FlattenAppend
<1> QED BY <1>1, <1>3, <1>4 DEF s

\* Nothing makes nothing.
LEMMA FlattenNone == FlattenSeq(<<>>) = <<>>
<1>1. Len(<<>>) = 0 OBVIOUS
<1> QED BY <1>1 DEF FlattenSeq

\* Parts that are empty make nothing.
LEMMA FlattenEmpty ==
  ASSUME NEW n \in Nat, NEW seqs, seqs = [i \in 1..n |-> <<>>]
  PROVE  FlattenSeq(seqs) = <<>>
<1>1. seqs \in Seq(Seq({})) OBVIOUS
<1>2. FlattenSeq(seqs) \in Seq({}) BY <1>1, FlattenTyped
<1> QED BY <1>2

\* Induction over a sequence.
LEMMA SeqInduction ==
  ASSUME NEW T, NEW s \in Seq(T), NEW S, <<>> \in S,
         \A u \in Seq(T) : \A x \in T : u \in S => Append(u, x) \in S
  PROVE  s \in S
<1> DEFINE n == Len(s)
           first == [k \in 0..n |-> [i \in 1..k |-> s[i]]]
           Q == {k \in 0..n : first[k] \in S}
<1>1. n \in Nat /\ \A i \in 1..n : s[i] \in T OBVIOUS
<1> HIDE DEF n
<1>2. 0 \in Q
  <2>1. first[0] = <<>> BY <1>1
  <2> QED BY <1>1, <2>1
<1>3. ASSUME NEW k \in 1..n, k - 1 \in Q PROVE k \in Q
  <2>1. PICK j \in Nat : k = j + 1 /\ k - 1 = j
    <3>1. k - 1 \in Nat /\ k = (k - 1) + 1 BY <1>1
    <3> QED BY <3>1
  <2>2. \A i \in 1..j + 1 : s[i] \in T BY <1>1, <2>1
  <2> DEFINE u == [i \in 1..j |-> s[i]]
             v == [i \in 1..j + 1 |-> s[i]]
  <2>3. u \in Seq(T) /\ v = Append(u, s[j + 1]) BY <2>2, FunctionGrows
  <2>4. s[j + 1] \in T BY <2>2
  <2>5. first[j] = u /\ first[j + 1] = v BY <1>1, <2>1
  <2>6. u \in S BY <1>3, <2>1, <2>5
  <2> HIDE DEF u, v, first
  <2>7. v \in S BY <2>3, <2>4, <2>6
  <2>8. first[k] \in S BY <2>1, <2>5, <2>7
  <2> QED BY <2>8
<1>4. \A k \in 0..n : k \in Q
  <2> HIDE DEF Q
  <2> QED BY <1>1, <1>2, <1>3, UpTo
<1>5. first[n] \in S BY <1>1, <1>4
<1>6. first[n] = s BY <1>1 DEF n
<1> QED BY <1>5, <1>6

\* One step more at the end of a run.
LEMMA RunGrows ==
  ASSUME NEW n \in Nat, NEW m, m = n + 1, NEW V, NEW base, NEW one, NEW two,
         Agree(one, two, n), NEW old, NEW new,
         RunEnds(old, n, V, base, one), RunEnds(new, m, V, base, two)
  PROVE  old \in V /\ new = two[m][old]
<1>1. PICK q : IsRun(q, n, V, base, one) /\ old = q[n] BY DEF RunEnds
<1>2. PICK r : IsRun(r, m, V, base, two) /\ new = r[m] BY DEF RunEnds
<1> DEFINE S == {k \in 0..n : q[k] = r[k]}
<1>3. 0 \in S BY <1>1, <1>2 DEF IsRun
<1>4. ASSUME NEW k \in 1..n, k - 1 \in S PROVE k \in S
  <2>1. k \in 1..m /\ k \in 0..n OBVIOUS
  <2>2. q[k] = one[k][q[k - 1]] BY <1>1 DEF IsRun
  <2>3. r[k] = two[k][r[k - 1]] BY <1>2, <2>1 DEF IsRun
  <2>4. q[k - 1] = r[k - 1] /\ one[k] = two[k] BY <1>4 DEF Agree
  <2> QED BY <2>1, <2>2, <2>3, <2>4
<1>5. \A k \in 0..n : k \in S
  <2> HIDE DEF S
  <2> QED BY <1>3, <1>4, UpTo
<1>6. q[n] = r[n] BY <1>5
<1>7. q[n] \in V BY <1>1 DEF IsRun
<1>8. m \in 1..m /\ m - 1 = n OBVIOUS
<1>9. r[m] = two[m][r[m - 1]] BY <1>2, <1>8 DEF IsRun
<1> QED BY <1>1, <1>2, <1>6, <1>7, <1>8, <1>9

\* What is read for the first time, after what was read before.
Firsts(base, s) == FoldLeft(Mentioned, base, s)

\* What is said for the first time, read in order.
LEMMA MentionedRuns ==
  ASSUME NEW V, NEW base \in V, NEW seq, NEW n \in Nat, DOMAIN seq = 1..n,
         \A i \in 1..n : \A v \in V : Mentioned(v, seq[i]) \in V
  PROVE  RunEnds(FoldLeft(Mentioned, base, seq), n, V, base,
                 [i \in 1..n |-> [v \in V |-> Mentioned(v, seq[i])]])
<1> DEFINE step == [i \in 1..n |-> [v \in V |-> Mentioned(v, seq[i])]]
           F(g) == [s \in SUBSET (1..n) |->
                      IF s = {} THEN base ELSE Mentioned(g[s \ {Max(s)}], seq[Max(s)])]
           iter == CHOOSE g : g = F(g)
<1>1. FoldLeft(Mentioned, base, seq) = iter[1..n] BY DEF FoldLeft, MapThenFoldSet
<1>2. step \in [1..n -> [V -> V]]
      /\ \A i \in 1..n : \A v \in V : step[i][v] = Mentioned(v, seq[i])
  OBVIOUS
<1> HIDE DEF step
<1>3. \A g : IsFold(g, n, V, base, step) => g = F(g)
  <2> SUFFICES ASSUME NEW g, IsFold(g, n, V, base, step) PROVE g = F(g) OBVIOUS
  <2>1. \A s \in SUBSET (1..n) : g[s] = F(g)[s] BY <1>2, Peels DEF IsFold
  <2>2. g = [s \in SUBSET (1..n) |-> g[s]] BY DEF IsFold
  <2> QED BY <2>1, <2>2
<1>4. iter = F(iter)
  <2>1. \E g : g = F(g) BY <1>2, <1>3, FoldExists
  <2> QED BY <2>1
<1> HIDE DEF iter
<1>5. Recurs(iter, n, V, base, step)
  <2>1. iter[{}] = base BY <1>4
  <2>2. \A s \in SUBSET (1..n) : s # {} => iter[s] = Mentioned(iter[s \ {Max(s)}], seq[Max(s)])
    BY <1>4
  <2> QED BY <1>2, <2>1, <2>2, Peels DEF Recurs
<1>6. RunEnds(iter[1..n], n, V, base, step) BY <1>2, <1>5, FoldRuns
<1> QED BY <1>1, <1>6 DEF step

\* Nothing read yet.
LEMMA MentionedNone ==
  ASSUME NEW base
  PROVE  Firsts(base, <<>>) = base
<1> DEFINE V == {base}
           none == [i \in 1..0 |-> [v \in V |-> Mentioned(v, <<>>[i])]]
           it == Firsts(base, <<>>)
<1>1. 0 \in Nat /\ DOMAIN <<>> = 1..0 /\ \A i \in 1..0 : \A v \in V : Mentioned(v, <<>>[i]) \in V
  OBVIOUS
<1>2. RunEnds(it, 0, V, base, none) BY <1>1, MentionedRuns DEF Firsts
<1> HIDE DEF none, it
<1>3. it = base BY <1>2 DEF RunEnds, IsRun
<1> QED BY <1>3 DEF it

\* ... and one element more.
LEMMA MentionedGrows ==
  ASSUME NEW V, NEW base \in V, NEW T, NEW seq \in Seq(T), NEW x \in T,
         \A v \in V : \A e \in T : Mentioned(v, e) \in V
  PROVE  /\ Firsts(base, seq) \in V
         /\ Firsts(base, Append(seq, x))
              = Mentioned(Firsts(base, seq), x)
<1> DEFINE n == Len(seq)
           m == n + 1
           all == Append(seq, x)
           one == [i \in 1..n |-> [v \in V |-> Mentioned(v, seq[i])]]
           two == [i \in 1..m |-> [v \in V |-> Mentioned(v, all[i])]]
           old == Firsts(base, seq)
           new == Firsts(base, all)
<1>1. n \in Nat /\ DOMAIN seq = 1..n /\ \A i \in 1..n : seq[i] \in T OBVIOUS
<1>2. m \in Nat /\ DOMAIN all = 1..m /\ all[m] = x
      /\ (\A i \in 1..n : all[i] = seq[i]) /\ m = n + 1
  OBVIOUS
<1> HIDE DEF n, all, m
<1>3. \A i \in 1..n : \A v \in V : Mentioned(v, seq[i]) \in V BY <1>1
<1>4. \A i \in 1..m : \A v \in V : Mentioned(v, all[i]) \in V
  <2>1. \A i \in 1..m : all[i] \in T
    <3>1. ASSUME NEW i \in 1..m PROVE all[i] \in T
      <4>1. i \in 1..n \/ i = m BY <1>1, <1>2
      <4> QED BY <1>1, <1>2, <4>1
    <3> QED BY <3>1
  <2> QED BY <2>1
<1>5. RunEnds(old, n, V, base, one) BY <1>1, <1>3, MentionedRuns DEF Firsts
<1>6. RunEnds(new, m, V, base, two) 
  <2>1. m \in Nat /\ DOMAIN all = 1..m BY <1>2
  <2> QED BY <1>4, <2>1, MentionedRuns DEF Firsts
<1>7. Agree(one, two, n)
  <2>1. ASSUME NEW k \in 1..n PROVE one[k] = two[k]
    <3>1. k \in 1..m /\ all[k] = seq[k] BY <1>1, <1>2
    <3> QED BY <3>1
  <2> QED BY <2>1 DEF Agree
<1>8. \A v \in V : two[m][v] = Mentioned(v, x)
  <2>1. m \in 1..m BY <1>1, <1>2
  <2> QED BY <1>2, <2>1
<1> HIDE DEF one, two, old, new
<1>9. old \in V /\ new = two[m][old] BY <1>1, <1>2, <1>5, <1>6, <1>7, RunGrows
<1>10. new = Mentioned(old, x) BY <1>8, <1>9
<1> QED BY <1>9, <1>10 DEF old, new, all

\* What is appended to a concatenation.
LEMMA ThenAppend ==
  ASSUME NEW T, NEW a \in Seq(T), NEW b \in Seq(T), NEW x \in T
  PROVE  Then(a, Append(b, x)) = Append(Then(a, b), x)
<1> DEFINE u == a \o Append(b, x)
           v == Append(a \o b, x)
<1>1. u \in Seq(T) /\ Len(u) = Len(a) + Len(b) + 1 OBVIOUS
<1>2. v \in Seq(T) /\ Len(v) = Len(a) + Len(b) + 1 OBVIOUS
<1>3. \A i \in 1..Len(a) + Len(b) + 1 : u[i] = v[i] OBVIOUS
<1> HIDE DEF u, v
<1>4. u = v BY <1>1, <1>2, <1>3
<1> QED BY <1>4 DEF u, v, Then

\* What an extended sequence has in it.
LEMMA AppendSays ==
  ASSUME NEW T, NEW a \in Seq(T), NEW x \in T
  PROVE  Append(a, x) \in Seq(T) /\ ToSet(Append(a, x)) = ToSet(a) \cup {x}
<1> Append(a, x) \in Seq(T) OBVIOUS
<1> DEFINE all == Append(a, x)
           n == Len(a)
<1>1. n \in Nat /\ DOMAIN all = 1..n + 1 /\ all[n + 1] = x /\ DOMAIN a = 1..n
      /\ \A i \in 1..n : all[i] = a[i]
  OBVIOUS
<1> HIDE DEF all, n
<1>2. ASSUME NEW y \in ToSet(all) PROVE y \in ToSet(a) \cup {x}
  <2>1. PICK i \in 1..n + 1 : y = all[i] BY <1>1, <1>2 DEF ToSet
  <2>2. i \in 1..n \/ i = n + 1 BY <1>1
  <2> QED BY <1>1, <2>1, <2>2 DEF ToSet
<1>3. ASSUME NEW y \in ToSet(a) PROVE y \in ToSet(all)
  <2>1. PICK i \in 1..n : y = a[i] BY <1>1, <1>3 DEF ToSet
  <2>2. i \in 1..n + 1 BY <1>1
  <2> QED BY <1>1, <2>1, <2>2 DEF ToSet
<1>4. x \in ToSet(all)
  <2>1. n + 1 \in 1..n + 1 BY <1>1
  <2> QED BY <1>1, <2>1 DEF ToSet
<1>5. ToSet(all) = ToSet(a) \cup {x} BY <1>2, <1>3, <1>4
<1> QED BY <1>5 DEF all

\* What a concatenation has in it.
LEMMA ThenSays ==
  ASSUME NEW T, NEW a \in Seq(T), NEW b \in Seq(T)
  PROVE  Then(a, b) \in Seq(T) /\ ToSet(Then(a, b)) = ToSet(a) \cup ToSet(b)
<1> Then(a, b) \in Seq(T) BY DEF Then
<1>1. IsSeq(a) /\ IsSeq(b) BY DEF IsSeq, ToSet
<1> QED BY <1>1, SetJoined DEF Then

\* Nothing read yet, and one line more.
LEMMA FirstsNone == FirstOccurrences(<<>>) = <<>>
BY MentionedNone DEF FirstOccurrences, Firsts

\* What is said next is added unless it has been said.
LEMMA FirstsGrow ==
  ASSUME NEW T, NEW s \in Seq(T), NEW x \in T
  PROVE  FirstOccurrences(Append(s, x)) = Mentioned(FirstOccurrences(s), x)
<1> DEFINE V == Seq(T)
           base == <<>>
<1>1. base \in V /\ \A v \in V : \A e \in T : Mentioned(v, e) \in V BY DEF Mentioned
<1> HIDE DEF V, base
<1>2. Firsts(base, Append(s, x)) = Mentioned(Firsts(base, s), x) BY <1>1, MentionedGrows
<1> QED BY <1>2 DEF FirstOccurrences, Firsts, base

\* Every line that is said is said for a first time.
LEMMA FirstsSay ==
  ASSUME NEW T, NEW s \in Seq(T)
  PROVE  FirstOccurrences(s) \in Seq(T) /\ ToSet(FirstOccurrences(s)) = ToSet(s)
<1> DEFINE F(u) == FirstOccurrences(u)
           S == {u \in Seq(T) : F(u) \in Seq(T) /\ ToSet(F(u)) = ToSet(u)}
<1>1. FirstOccurrences(<<>>) = <<>> BY FirstsNone
<1>2. <<>> \in S
  <2> DEFINE none == <<>>
  <2>1. none \in Seq(T) /\ F(none) = none BY <1>1
  <2> HIDE DEF none, F
  <2>2. none \in S BY <2>1
  <2> QED BY <2>2 DEF none
<1>3. ASSUME NEW u \in Seq(T), NEW x \in T, u \in S PROVE Append(u, x) \in S
  <2>1. F(u) \in Seq(T) /\ ToSet(F(u)) = ToSet(u) BY <1>3
  <2>2. F(Append(u, x)) = Mentioned(F(u), x) BY FirstsGrow
  <2>3. ToSet(Append(u, x)) = ToSet(u) \cup {x} /\ Append(u, x) \in Seq(T) BY AppendSays
  <2>4. CASE x \in ToSet(F(u))
    <3>1. F(Append(u, x)) = F(u) BY <2>2, <2>4 DEF Mentioned
    <3> QED BY <2>1, <2>3, <2>4, <3>1
  <2>5. CASE x \notin ToSet(F(u))
    <3>1. F(Append(u, x)) = Append(F(u), x) BY <2>2, <2>5 DEF Mentioned
    <3> HIDE DEF F
    <3>2. ToSet(Append(F(u), x)) = ToSet(F(u)) \cup {x} /\ Append(F(u), x) \in Seq(T)
      BY <2>1, AppendSays
    <3> QED BY <2>1, <2>3, <3>1, <3>2
  <2> QED BY <2>4, <2>5
<1>4. s \in S
  <2> HIDE DEF S
  <2> QED BY <1>2, <1>3, SeqInduction
<1> QED BY <1>1, <1>4

\* What was said before adds nothing.
LEMMA FirstsRepeat ==
  ASSUME NEW T, NEW s \in Seq(T), NEW t \in Seq(T), ToSet(t) \subseteq ToSet(s)
  PROVE  FirstOccurrences(Then(s, t)) = FirstOccurrences(s)
<1> DEFINE F(u) == FirstOccurrences(u)
           S == {u \in Seq(T) : ToSet(u) \subseteq ToSet(s) => F(Then(s, u)) = F(s)}
<1>1. <<>> \in S
  <2>1. Then(s, <<>>) = s BY DEF Then
  <2> QED BY <2>1
<1>2. ASSUME NEW u \in Seq(T), NEW x \in T, u \in S PROVE Append(u, x) \in S
  <2>1. ToSet(Append(u, x)) = ToSet(u) \cup {x} /\ Append(u, x) \in Seq(T) BY AppendSays
  <2>2. SUFFICES ASSUME ToSet(Append(u, x)) \subseteq ToSet(s) PROVE F(Then(s, Append(u, x))) = F(s)
    BY <2>1
  <2>3. F(Then(s, u)) = F(s) /\ x \in ToSet(s) BY <1>2, <2>1, <2>2
  <2>4. Then(s, Append(u, x)) = Append(Then(s, u), x) BY ThenAppend
  <2>5. Then(s, u) \in Seq(T) BY DEF Then
  <2>6. F(Append(Then(s, u), x)) = Mentioned(F(Then(s, u)), x) BY <2>5, FirstsGrow
  <2>7. x \in ToSet(F(s)) BY <2>3, FirstsSay
  <2> QED BY <2>3, <2>4, <2>6, <2>7 DEF Mentioned
<1>3. t \in S
  <2> HIDE DEF S
  <2> QED BY <1>1, <1>2, SeqInduction
<1> QED BY <1>3

\* What goes before, and what comes after, may be replaced by what says the same.
LEMMA FirstsAfter ==
  ASSUME NEW T, NEW a \in Seq(T), NEW b \in Seq(T), NEW c \in Seq(T),
         FirstOccurrences(a) = FirstOccurrences(b)
  PROVE  FirstOccurrences(Then(a, c)) = FirstOccurrences(Then(b, c))
<1> DEFINE F(u) == FirstOccurrences(u)
           S == {u \in Seq(T) : F(Then(a, u)) = F(Then(b, u))}
<1>1. <<>> \in S
  <2>1. Then(a, <<>>) = a /\ Then(b, <<>>) = b BY DEF Then
  <2> QED BY <2>1
<1>2. ASSUME NEW u \in Seq(T), NEW x \in T, u \in S PROVE Append(u, x) \in S
  <2>1. Append(u, x) \in Seq(T) /\ Then(a, u) \in Seq(T) /\ Then(b, u) \in Seq(T) BY DEF Then
  <2>2. Then(a, Append(u, x)) = Append(Then(a, u), x) BY ThenAppend
  <2>3. Then(b, Append(u, x)) = Append(Then(b, u), x) BY ThenAppend
  <2>4. F(Append(Then(a, u), x)) = Mentioned(F(Then(a, u)), x) BY <2>1, FirstsGrow
  <2>5. F(Append(Then(b, u), x)) = Mentioned(F(Then(b, u)), x) BY <2>1, FirstsGrow
  <2>6. F(Then(a, u)) = F(Then(b, u)) BY <1>2
  <2>7. F(Then(a, Append(u, x))) = F(Then(b, Append(u, x))) BY <2>2, <2>3, <2>4, <2>5, <2>6
  <2> HIDE DEF F
  <2> QED BY <2>1, <2>7
<1>3. c \in S
  <2> HIDE DEF S
  <2> QED BY <1>1, <1>2, SeqInduction
<1> QED BY <1>3

\* Behind a text, another may be replaced by what it says for the first time.
LEMMA FirstsBefore ==
  ASSUME NEW T, NEW c \in Seq(T), NEW a \in Seq(T)
  PROVE  FirstOccurrences(Then(c, a)) = FirstOccurrences(Then(c, FirstOccurrences(a)))
<1> DEFINE F(u) == FirstOccurrences(u)
           S == {u \in Seq(T) : F(Then(c, u)) = F(Then(c, F(u)))}
<1>1. <<>> \in S
  <2>1. F(<<>>) = <<>> BY FirstsNone
  <2> QED BY <2>1
<1>2. ASSUME NEW u \in Seq(T), NEW x \in T, u \in S PROVE Append(u, x) \in S
  <2>1. F(u) \in Seq(T) /\ ToSet(F(u)) = ToSet(u) BY FirstsSay
  <2>2. Append(u, x) \in Seq(T) /\ Then(c, u) \in Seq(T) /\ Then(c, F(u)) \in Seq(T)
    BY <2>1 DEF Then
  <2>3. F(Append(u, x)) = Mentioned(F(u), x) BY FirstsGrow
  <2>4. Then(c, Append(u, x)) = Append(Then(c, u), x) BY ThenAppend
  <2>5. F(Append(Then(c, u), x)) = Mentioned(F(Then(c, u)), x) BY <2>2, FirstsGrow
  <2>6. F(Then(c, u)) = F(Then(c, F(u))) BY <1>2
  <2>7. F(Then(c, Append(u, x))) = Mentioned(F(Then(c, F(u))), x) BY <2>4, <2>5, <2>6
  <2>8. F(Then(c, F(Append(u, x)))) = Mentioned(F(Then(c, F(u))), x)
    <3>1. CASE x \in ToSet(F(u))
      <4>1. F(Append(u, x)) = F(u) BY <2>3, <3>1 DEF Mentioned
      <4>2. ToSet(F(Then(c, F(u)))) = ToSet(Then(c, F(u))) BY <2>2, FirstsSay
      <4>3. ToSet(Then(c, F(u))) = ToSet(c) \cup ToSet(F(u)) BY <2>1, ThenSays
      <4> QED BY <3>1, <4>1, <4>2, <4>3 DEF Mentioned
    <3>2. CASE x \notin ToSet(F(u))
      <4>1. F(Append(u, x)) = Append(F(u), x) BY <2>3, <3>2 DEF Mentioned
      <4> HIDE DEF F
      <4>2. Then(c, Append(F(u), x)) = Append(Then(c, F(u)), x) BY <2>1, ThenAppend
      <4>3. F(Append(Then(c, F(u)), x)) = Mentioned(F(Then(c, F(u))), x)
        BY <2>2, FirstsGrow DEF F
      <4> QED BY <4>1, <4>2, <4>3
    <3> QED BY <3>1, <3>2
  <2> HIDE DEF F
  <2> QED BY <2>2, <2>7, <2>8
<1>3. a \in S
  <2> HIDE DEF S
  <2> QED BY <1>1, <1>2, SeqInduction
<1> QED BY <1>3

-----------------------------------------------------------------------------
(* What blocks, groups and pieces say: all of it, or what is in tables.    *)

\* The same text; outside of tables, what is said again may be left out.
Same(u, v, tables) ==
  IF tables THEN u = v ELSE FirstOccurrences(u) = FirstOccurrences(v)

\* Texts that are the same may be put together.
LEMMA SameThen ==
  ASSUME NEW T, NEW tables, NEW a \in Seq(T), NEW b \in Seq(T), NEW c \in Seq(T),
         NEW d \in Seq(T), Same(a, b, tables), Same(c, d, tables)
  PROVE  Same(Then(a, c), Then(b, d), tables)
<1>1. CASE tables BY <1>1 DEF Same
<1>2. CASE ~tables
  <2> DEFINE F(u) == FirstOccurrences(u)
  <2>1. F(a) = F(b) /\ F(c) = F(d) BY <1>2 DEF Same
  <2>2. F(Then(a, c)) = F(Then(b, c)) BY <2>1, FirstsAfter
  <2>3. F(Then(b, c)) = F(Then(b, F(c))) BY FirstsBefore
  <2>4. F(Then(b, d)) = F(Then(b, F(d))) BY FirstsBefore
  <2> QED BY <1>2, <2>1, <2>2, <2>3, <2>4 DEF Same
<1> QED BY <1>1, <1>2

\* What some lines say.
LEMMA TextsTyped ==
  ASSUME NEW lines \in Seq(Line)
  PROVE  /\ Texts(lines) \in Seq(Ids) /\ Len(Texts(lines)) = Len(lines)
         /\ \A i \in 1..Len(lines) : Texts(lines)[i] = lines[i].id
<1>1. Len(lines) \in Nat /\ DOMAIN lines = 1..Len(lines)
      /\ \A i \in 1..Len(lines) : lines[i] \in Line /\ lines[i].id \in Ids
  <2>1. ASSUME NEW i \in 1..Len(lines) PROVE lines[i] \in Line /\ lines[i].id \in Ids
    <3>1. lines[i] \in Line OBVIOUS
    <3> QED BY <3>1 DEF Line
  <2> QED BY <2>1
<1>2. Texts(lines) = [i \in 1..Len(lines) |-> lines[i].id] BY <1>1 DEF Texts
<1> QED BY <1>1, <1>2

\* The texts of joined lines are joined.
LEMMA TextsThen ==
  ASSUME NEW a \in Seq(Line), NEW b \in Seq(Line)
  PROVE  Texts(a \o b) = Then(Texts(a), Texts(b))
<1> DEFINE u == Texts(a \o b)
           v == Texts(a) \o Texts(b)
           n == Len(a)
           m == Len(b)
<1>1. n \in Nat /\ m \in Nat /\ a \o b \in Seq(Line) /\ Len(a \o b) = n + m OBVIOUS
<1>2. u \in Seq(Ids) /\ Len(u) = n + m /\ \A i \in 1..n + m : u[i] = (a \o b)[i].id
  BY <1>1, TextsTyped
<1>3. v \in Seq(Ids) /\ Len(v) = n + m
      /\ \A i \in 1..n + m : v[i] = IF i <= n THEN Texts(a)[i] ELSE Texts(b)[i - n]
  <2> DEFINE p == Texts(a)
             q == Texts(b)
  <2>1. p \in Seq(Ids) /\ Len(p) = n BY TextsTyped
  <2>2. q \in Seq(Ids) /\ Len(q) = m BY TextsTyped
  <2> HIDE DEF p, q, n, m
  <2>3. p \o q \in Seq(Ids) /\ Len(p \o q) = n + m
        /\ \A i \in 1..n + m : (p \o q)[i] = IF i <= n THEN p[i] ELSE q[i - n]
    <3>1. /\ p \o q \in Seq(Ids) /\ Len(p \o q) = Len(p) + Len(q)
          /\ \A i \in 1..Len(p) + Len(q) :
               (p \o q)[i] = IF i <= Len(p) THEN p[i] ELSE q[i - Len(p)]
      BY <2>1, <2>2, ConcatProperties
    <3> QED BY <2>1, <2>2, <3>1
  <2> QED BY <2>3 DEF p, q
<1>4. ASSUME NEW i \in 1..n + m PROVE u[i] = v[i]
  <2>1. CASE i <= n
    <3>1. i \in 1..n /\ (a \o b)[i] = a[i] BY <1>1, <2>1
    <3>2. Texts(a)[i] = a[i].id BY <3>1, TextsTyped
    <3> QED BY <1>2, <1>3, <2>1, <3>1, <3>2
  <2>2. CASE ~(i <= n)
    <3>1. i - n \in 1..m /\ (a \o b)[i] = b[i - n] BY <1>1, <2>2
    <3>2. Texts(b)[i - n] = b[i - n].id BY <3>1, TextsTyped
    <3> QED BY <1>2, <1>3, <2>2, <3>1, <3>2
  <2> QED BY <2>1, <2>2
<1> HIDE DEF u, v
<1>5. u = v BY <1>1, <1>2, <1>3, <1>4
<1> QED BY <1>5 DEF u, v, Then

\* What a block, the pieces of one, and all the pieces say.
BlockSays(b, t) ==
  IF b.kind = "heading" \/ (t /\ b.kind # "table") THEN <<>> ELSE Texts(b.lines)

BlocksSay(blocks, t) == FlattenSeq([i \in DOMAIN blocks |-> BlockSays(blocks[i], t)])

GroupsSay(groups, t) == FlattenSeq([i \in DOMAIN groups |-> BlocksSay(groups[i].blocks, t)])

PartsSay(parts) == FlattenSeq([i \in DOMAIN parts |-> Texts(parts[i])])

PieceSays(piece, t) == IF t /\ piece.block.kind # "table" THEN <<>> ELSE Texts(piece.lines)

PiecesSay(pieces, t) == FlattenSeq([i \in DOMAIN pieces |-> PieceSays(pieces[i], t)])

Blocks == Heading \cup Body

\* A block says texts.
LEMMA BlockTyped == ASSUME NEW t, NEW b \in Blocks PROVE BlockSays(b, t) \in Seq(Ids)
<1>1. <<>> \in Seq(Ids) OBVIOUS
<1>2. b.kind # "heading" => b.lines \in Seq(Line) BY DEF Blocks, Heading, Body, Prose, Table, Flow
<1> QED BY <1>1, <1>2, TextsTyped DEF BlockSays

\* So does a piece.
LEMMA PieceTyped == ASSUME NEW t, NEW p \in Piece PROVE PieceSays(p, t) \in Seq(Ids)
<1>1. <<>> \in Seq(Ids) OBVIOUS
<1>2. p.lines \in Seq(Line) BY DEF Piece
<1> QED BY <1>1, <1>2, TextsTyped DEF PieceSays

\* What blocks say, one block more.
LEMMA BlocksSayNone == \A t : BlocksSay(<<>>, t) = <<>>
<1> SUFFICES ASSUME NEW t PROVE BlocksSay(<<>>, t) = <<>> OBVIOUS
<1> DEFINE f == [i \in DOMAIN <<>> |-> BlockSays(<<>>[i], t)]
<1>1. f = <<>> OBVIOUS
<1>2. BlocksSay(<<>>, t) = FlattenSeq(f) BY DEF BlocksSay
<1> HIDE DEF f
<1> QED BY <1>1, <1>2, FlattenNone

\* One more block is said behind the others.
LEMMA BlocksSayGrows ==
  ASSUME NEW t, NEW s \in Seq(Blocks), NEW x \in Blocks
  PROVE  BlocksSay(Append(s, x), t) = Then(BlocksSay(s, t), BlockSays(x, t))
<1> DEFINE n == Len(s)
           all == Append(s, x)
           f == [i \in 1..n + 1 |-> BlockSays(all[i], t)]
           one == [i \in 1..n |-> f[i]]
           two == [i \in 1..n + 1 |-> f[i]]
<1>1. n \in Nat /\ DOMAIN s = 1..n /\ \A i \in 1..n : s[i] \in Blocks OBVIOUS
<1>2. DOMAIN all = 1..n + 1 /\ all[n + 1] = x /\ \A i \in 1..n : all[i] = s[i] OBVIOUS
<1> HIDE DEF n, all
<1>3. \A i \in 1..n + 1 : f[i] \in Seq(Ids)
  <2>1. ASSUME NEW i \in 1..n + 1 PROVE f[i] \in Seq(Ids)
    <3>1. i \in 1..n \/ i = n + 1 BY <1>1
    <3>2. all[i] \in Blocks BY <1>1, <1>2, <3>1
    <3>3. BlockSays(all[i], t) \in Seq(Ids) BY <3>2, BlockTyped
    <3> QED BY <3>3
  <2> QED BY <2>1
<1>4. BlocksSay(s, t) = FlattenSeq(one)
  <2>1. \A i \in 1..n : f[i] = BlockSays(s[i], t)
    <3>1. \A i \in 1..n : i \in 1..n + 1 BY <1>1
    <3> QED BY <1>2, <3>1
  <2> DEFINE g == [i \in DOMAIN s |-> BlockSays(s[i], t)]
  <2>2. one = g
    <3> HIDE DEF f
    <3> QED BY <1>1, <2>1
  <2>3. BlocksSay(s, t) = FlattenSeq(g) BY DEF BlocksSay
  <2> HIDE DEF one, g
  <2> QED BY <2>2, <2>3
<1>5. BlocksSay(all, t) = FlattenSeq(two)
  <2> DEFINE g == [i \in DOMAIN all |-> BlockSays(all[i], t)]
  <2>1. two = g BY <1>2
  <2>2. BlocksSay(all, t) = FlattenSeq(g) BY DEF BlocksSay
  <2> HIDE DEF two, g
  <2> QED BY <2>1, <2>2
<1>6. FlattenSeq(two) = Then(FlattenSeq(one), f[n + 1])
  <2> HIDE DEF f
  <2> QED BY <1>1, <1>3, FlattenGrows
<1>7. f[n + 1] = BlockSays(x, t)
  <2>1. n + 1 \in 1..n + 1 BY <1>1
  <2> QED BY <1>2, <2>1
<1> HIDE DEF one, two, f
<1> QED BY <1>4, <1>5, <1>6, <1>7 DEF all

\* What they say is a sequence of texts.
LEMMA BlocksSayTyped ==
  ASSUME NEW t, NEW s \in Seq(Blocks)
  PROVE  BlocksSay(s, t) \in Seq(Ids)
<1> DEFINE S == {u \in Seq(Blocks) : BlocksSay(u, t) \in Seq(Ids)}
<1>1. <<>> \in S
  <2>1. BlocksSay(<<>>, t) = <<>> BY BlocksSayNone
  <2> DEFINE none == <<>>
  <2>2. none \in Seq(Blocks) /\ none \in Seq(Ids) /\ BlocksSay(none, t) = none BY <2>1
  <2> HIDE DEF none
  <2>3. none \in S BY <2>2
  <2> QED BY <2>3 DEF none
<1>2. ASSUME NEW u \in Seq(Blocks), NEW x \in Blocks, u \in S PROVE Append(u, x) \in S
  <2>1. BlocksSay(u, t) \in Seq(Ids) BY <1>2
  <2>2. BlockSays(x, t) \in Seq(Ids) BY BlockTyped
  <2>3. Then(BlocksSay(u, t), BlockSays(x, t)) \in Seq(Ids) BY <2>1, <2>2, ThenSays
  <2>4. BlocksSay(Append(u, x), t) \in Seq(Ids) BY <2>3, BlocksSayGrows
  <2>5. Append(u, x) \in Seq(Blocks) BY AppendSays
  <2> QED BY <2>4, <2>5
<1>3. s \in S
  <2> HIDE DEF S
  <2> QED BY <1>1, <1>2, SeqInduction
<1> QED BY <1>3

\* A group says texts.
LEMMA GroupTextTyped == ASSUME NEW t, NEW g \in Grouped PROVE BlocksSay(g.blocks, t) \in Seq(Ids)
<1>1. g.blocks \in Seq(Blocks)
  <2>1. g.blocks \in Seq(Body) BY DEF Grouped
  <2>2. \A b \in Body : b \in Blocks BY DEF Blocks
  <2> QED BY <2>1, <2>2
<1> QED BY <1>1, BlocksSayTyped

\* What groups say, one group more.
LEMMA GroupsSayNone == \A t : GroupsSay(<<>>, t) = <<>>
<1> SUFFICES ASSUME NEW t PROVE GroupsSay(<<>>, t) = <<>> OBVIOUS
<1> DEFINE f == [i \in DOMAIN <<>> |-> BlocksSay(<<>>[i].blocks, t)]
<1>1. f = <<>> OBVIOUS
<1>2. GroupsSay(<<>>, t) = FlattenSeq(f) BY DEF GroupsSay
<1> HIDE DEF f
<1> QED BY <1>1, <1>2, FlattenNone

\* One more group is said behind the others.
LEMMA GroupsSayGrows ==
  ASSUME NEW t, NEW s \in Seq(Grouped), NEW x \in Grouped
  PROVE  GroupsSay(Append(s, x), t) = Then(GroupsSay(s, t), BlocksSay(x.blocks, t))
<1> DEFINE n == Len(s)
           all == Append(s, x)
           f == [i \in 1..n + 1 |-> BlocksSay(all[i].blocks, t)]
           one == [i \in 1..n |-> f[i]]
           two == [i \in 1..n + 1 |-> f[i]]
<1>1. n \in Nat /\ DOMAIN s = 1..n /\ \A i \in 1..n : s[i] \in Grouped OBVIOUS
<1>2. DOMAIN all = 1..n + 1 /\ all[n + 1] = x /\ \A i \in 1..n : all[i] = s[i] OBVIOUS
<1> HIDE DEF n, all
<1>3. \A i \in 1..n + 1 : f[i] \in Seq(Ids)
  <2>1. ASSUME NEW i \in 1..n + 1 PROVE f[i] \in Seq(Ids)
    <3>1. i \in 1..n \/ i = n + 1 BY <1>1
    <3>2. all[i] \in Grouped BY <1>1, <1>2, <3>1
    <3>3. BlocksSay(all[i].blocks, t) \in Seq(Ids) BY <3>2, GroupTextTyped
    <3> QED BY <3>3
  <2> QED BY <2>1
<1>4. GroupsSay(s, t) = FlattenSeq(one)
  <2>1. \A i \in 1..n : f[i] = BlocksSay(s[i].blocks, t)
    <3>1. \A i \in 1..n : i \in 1..n + 1 BY <1>1
    <3> QED BY <1>2, <3>1
  <2> DEFINE g == [i \in DOMAIN s |-> BlocksSay(s[i].blocks, t)]
  <2>2. one = g
    <3> HIDE DEF f
    <3> QED BY <1>1, <2>1
  <2>3. GroupsSay(s, t) = FlattenSeq(g) BY DEF GroupsSay
  <2> HIDE DEF one, g
  <2> QED BY <2>2, <2>3
<1>5. GroupsSay(all, t) = FlattenSeq(two)
  <2> DEFINE g == [i \in DOMAIN all |-> BlocksSay(all[i].blocks, t)]
  <2>1. two = g BY <1>2
  <2>2. GroupsSay(all, t) = FlattenSeq(g) BY DEF GroupsSay
  <2> HIDE DEF two, g
  <2> QED BY <2>1, <2>2
<1>6. FlattenSeq(two) = Then(FlattenSeq(one), f[n + 1])
  <2> HIDE DEF f
  <2> QED BY <1>1, <1>3, FlattenGrows
<1>7. f[n + 1] = BlocksSay(x.blocks, t)
  <2>1. n + 1 \in 1..n + 1 BY <1>1
  <2> QED BY <1>2, <2>1
<1> HIDE DEF one, two, f
<1> QED BY <1>4, <1>5, <1>6, <1>7 DEF all

\* What they say is a sequence of texts.
LEMMA GroupsSayTyped ==
  ASSUME NEW t, NEW s \in Seq(Grouped)
  PROVE  GroupsSay(s, t) \in Seq(Ids)
<1> DEFINE S == {u \in Seq(Grouped) : GroupsSay(u, t) \in Seq(Ids)}
<1>1. <<>> \in S
  <2>1. GroupsSay(<<>>, t) = <<>> BY GroupsSayNone
  <2> DEFINE none == <<>>
  <2>2. none \in Seq(Grouped) /\ none \in Seq(Ids) /\ GroupsSay(none, t) = none BY <2>1
  <2> HIDE DEF none
  <2>3. none \in S BY <2>2
  <2> QED BY <2>3 DEF none
<1>2. ASSUME NEW u \in Seq(Grouped), NEW x \in Grouped, u \in S PROVE Append(u, x) \in S
  <2>1. GroupsSay(u, t) \in Seq(Ids) BY <1>2
  <2>2. BlocksSay(x.blocks, t) \in Seq(Ids) BY GroupTextTyped
  <2>3. Then(GroupsSay(u, t), BlocksSay(x.blocks, t)) \in Seq(Ids) BY <2>1, <2>2, ThenSays
  <2>4. GroupsSay(Append(u, x), t) \in Seq(Ids) BY <2>3, GroupsSayGrows
  <2>5. Append(u, x) \in Seq(Grouped) BY AppendSays
  <2> QED BY <2>4, <2>5
<1>3. s \in S
  <2> HIDE DEF S
  <2> QED BY <1>1, <1>2, SeqInduction
<1> QED BY <1>3

\* What pieces say, one piece more.
LEMMA PiecesSayNone == \A t : PiecesSay(<<>>, t) = <<>>
<1> SUFFICES ASSUME NEW t PROVE PiecesSay(<<>>, t) = <<>> OBVIOUS
<1> DEFINE f == [i \in DOMAIN <<>> |-> PieceSays(<<>>[i], t)]
<1>1. f = <<>> OBVIOUS
<1>2. PiecesSay(<<>>, t) = FlattenSeq(f) BY DEF PiecesSay
<1> HIDE DEF f
<1> QED BY <1>1, <1>2, FlattenNone

\* One more piece is said behind the others.
LEMMA PiecesSayGrows ==
  ASSUME NEW t, NEW s \in Seq(Piece), NEW x \in Piece
  PROVE  PiecesSay(Append(s, x), t) = Then(PiecesSay(s, t), PieceSays(x, t))
<1> DEFINE n == Len(s)
           all == Append(s, x)
           f == [i \in 1..n + 1 |-> PieceSays(all[i], t)]
           one == [i \in 1..n |-> f[i]]
           two == [i \in 1..n + 1 |-> f[i]]
<1>1. n \in Nat /\ DOMAIN s = 1..n /\ \A i \in 1..n : s[i] \in Piece OBVIOUS
<1>2. DOMAIN all = 1..n + 1 /\ all[n + 1] = x /\ \A i \in 1..n : all[i] = s[i] OBVIOUS
<1> HIDE DEF n, all
<1>3. \A i \in 1..n + 1 : f[i] \in Seq(Ids)
  <2>1. ASSUME NEW i \in 1..n + 1 PROVE f[i] \in Seq(Ids)
    <3>1. i \in 1..n \/ i = n + 1 BY <1>1
    <3>2. all[i] \in Piece BY <1>1, <1>2, <3>1
    <3>3. PieceSays(all[i], t) \in Seq(Ids) BY <3>2, PieceTyped
    <3> QED BY <3>3
  <2> QED BY <2>1
<1>4. PiecesSay(s, t) = FlattenSeq(one)
  <2>1. \A i \in 1..n : f[i] = PieceSays(s[i], t)
    <3>1. \A i \in 1..n : i \in 1..n + 1 BY <1>1
    <3> QED BY <1>2, <3>1
  <2> DEFINE g == [i \in DOMAIN s |-> PieceSays(s[i], t)]
  <2>2. one = g
    <3> HIDE DEF f
    <3> QED BY <1>1, <2>1
  <2>3. PiecesSay(s, t) = FlattenSeq(g) BY DEF PiecesSay
  <2> HIDE DEF one, g
  <2> QED BY <2>2, <2>3
<1>5. PiecesSay(all, t) = FlattenSeq(two)
  <2> DEFINE g == [i \in DOMAIN all |-> PieceSays(all[i], t)]
  <2>1. two = g BY <1>2
  <2>2. PiecesSay(all, t) = FlattenSeq(g) BY DEF PiecesSay
  <2> HIDE DEF two, g
  <2> QED BY <2>1, <2>2
<1>6. FlattenSeq(two) = Then(FlattenSeq(one), f[n + 1])
  <2> HIDE DEF f
  <2> QED BY <1>1, <1>3, FlattenGrows
<1>7. f[n + 1] = PieceSays(x, t)
  <2>1. n + 1 \in 1..n + 1 BY <1>1
  <2> QED BY <1>2, <2>1
<1> HIDE DEF one, two, f
<1> QED BY <1>4, <1>5, <1>6, <1>7 DEF all

\* What they say is a sequence of texts.
LEMMA PiecesSayTyped ==
  ASSUME NEW t, NEW s \in Seq(Piece)
  PROVE  PiecesSay(s, t) \in Seq(Ids)
<1> DEFINE S == {u \in Seq(Piece) : PiecesSay(u, t) \in Seq(Ids)}
<1>1. <<>> \in S
  <2>1. PiecesSay(<<>>, t) = <<>> BY PiecesSayNone
  <2> DEFINE none == <<>>
  <2>2. none \in Seq(Piece) /\ none \in Seq(Ids) /\ PiecesSay(none, t) = none BY <2>1
  <2> HIDE DEF none
  <2>3. none \in S BY <2>2
  <2> QED BY <2>3 DEF none
<1>2. ASSUME NEW u \in Seq(Piece), NEW x \in Piece, u \in S PROVE Append(u, x) \in S
  <2>1. PiecesSay(u, t) \in Seq(Ids) BY <1>2
  <2>2. PieceSays(x, t) \in Seq(Ids) BY PieceTyped
  <2>3. Then(PiecesSay(u, t), PieceSays(x, t)) \in Seq(Ids) BY <2>1, <2>2, ThenSays
  <2>4. PiecesSay(Append(u, x), t) \in Seq(Ids) BY <2>3, PiecesSayGrows
  <2>5. Append(u, x) \in Seq(Piece) BY AppendSays
  <2> QED BY <2>4, <2>5
<1>3. s \in S
  <2> HIDE DEF S
  <2> QED BY <1>1, <1>2, SeqInduction
<1> QED BY <1>3

\* A line more.
LEMMA TextsAppend ==
  ASSUME NEW a \in Seq(Line), NEW x \in Line
  PROVE  x.id \in Ids /\ Texts(Append(a, x)) = Append(Texts(a), x.id)
<1>1. x.id \in Ids BY DEF Line
<1> DEFINE one == <<x>>
<1>2. one \in Seq(Line) /\ Append(a, x) = a \o one OBVIOUS
<1>3. Texts(one) = <<x.id>> BY DEF Texts
<1> HIDE DEF one
<1>4. Texts(a \o one) = Then(Texts(a), Texts(one)) BY <1>2, TextsThen
<1>5. Texts(a) \in Seq(Ids) BY TextsTyped
<1>6. Then(Texts(a), <<x.id>>) = Append(Texts(a), x.id)
  <2> DEFINE u == Texts(a)
             y == x.id
  <2> HIDE DEF u, y
  <2>1. Then(u, <<y>>) = Append(u, y) BY <1>1, <1>5 DEF Then, u, y
  <2> QED BY <2>1 DEF u, y
<1> QED BY <1>1, <1>2, <1>3, <1>4, <1>6

\* No lines say nothing, and what a part of a text says the text says.
LEMMA TextsNone == Texts(<<>>) = <<>>
BY DEF Texts

\* What is carried over has been said before.
LEMMA CarrySays ==
  ASSUME NEW cur \in Seq(Line)
  PROVE  Carry(cur) \in Seq(Line) /\ ToSet(Texts(Carry(cur))) \subseteq ToSet(Texts(cur))
<1> DEFINE n == Len(cur)
           c == Carry(cur)
<1>1. n \in Nat OBVIOUS
<1>2. PICK first \in 1..n + 1 : c = SubSeq(cur, first, n) BY CarryEnds
<1>3. c \in Seq(Line) /\ Len(c) = n + 1 - first
      /\ \A k \in 1..Len(c) : first + k - 1 \in 1..n /\ c[k] = cur[first + k - 1]
  BY <1>1, <1>2
<1> HIDE DEF c
<1>4. ASSUME NEW y \in ToSet(Texts(c)) PROVE y \in ToSet(Texts(cur))
  <2>1. /\ Texts(c) \in Seq(Ids) /\ Len(Texts(c)) = Len(c)
        /\ \A i \in 1..Len(c) : Texts(c)[i] = c[i].id
    BY <1>3, TextsTyped
  <2>2. /\ Texts(cur) \in Seq(Ids) /\ Len(Texts(cur)) = n
        /\ \A i \in 1..n : Texts(cur)[i] = cur[i].id
    BY TextsTyped
  <2>3. PICK k \in 1..Len(c) : y = Texts(c)[k] BY <2>1, <1>4 DEF ToSet
  <2>4. y = Texts(cur)[first + k - 1] /\ first + k - 1 \in 1..n BY <1>3, <2>1, <2>2, <2>3
  <2>5. DOMAIN Texts(cur) = 1..n BY <2>2
  <2> QED BY <2>4, <2>5 DEF ToSet
<1> QED BY <1>3, <1>4 DEF c

\* What the pieces of a block say, one piece more.
LEMMA PartsSayNone == PartsSay(<<>>) = <<>>
<1> DEFINE f == [i \in DOMAIN <<>> |-> Texts(<<>>[i])]
<1>1. f = <<>> OBVIOUS
<1>2. PartsSay(<<>>) = FlattenSeq(f) BY DEF PartsSay
<1> HIDE DEF f
<1> QED BY <1>1, <1>2, FlattenNone

\* One more part is said behind the others.
LEMMA PartsSayGrows ==
  ASSUME NEW s \in Seq(Seq(Line)), NEW x \in Seq(Line)
  PROVE  PartsSay(Append(s, x)) = Then(PartsSay(s), Texts(x))
<1> DEFINE n == Len(s)
           all == Append(s, x)
           f == [i \in 1..n + 1 |-> Texts(all[i])]
           one == [i \in 1..n |-> f[i]]
           two == [i \in 1..n + 1 |-> f[i]]
<1>1. n \in Nat /\ DOMAIN s = 1..n /\ \A i \in 1..n : s[i] \in Seq(Line) OBVIOUS
<1>2. DOMAIN all = 1..n + 1 /\ all[n + 1] = x /\ \A i \in 1..n : all[i] = s[i] OBVIOUS
<1> HIDE DEF n, all
<1>3. \A i \in 1..n + 1 : f[i] \in Seq(Ids)
  <2>1. ASSUME NEW i \in 1..n + 1 PROVE f[i] \in Seq(Ids)
    <3>1. i \in 1..n \/ i = n + 1 BY <1>1
    <3>2. all[i] \in Seq(Line) BY <1>1, <1>2, <3>1
    <3>3. Texts(all[i]) \in Seq(Ids) BY <3>2, TextsTyped
    <3> QED BY <3>3
  <2> QED BY <2>1
<1>4. PartsSay(s) = FlattenSeq(one)
  <2>1. \A i \in 1..n : f[i] = Texts(s[i])
    <3>1. \A i \in 1..n : i \in 1..n + 1 BY <1>1
    <3> QED BY <1>2, <3>1
  <2> DEFINE g == [i \in DOMAIN s |-> Texts(s[i])]
  <2>2. one = g
    <3> HIDE DEF f
    <3> QED BY <1>1, <2>1
  <2>3. PartsSay(s) = FlattenSeq(g) BY DEF PartsSay
  <2> HIDE DEF one, g
  <2> QED BY <2>2, <2>3
<1>5. PartsSay(all) = FlattenSeq(two)
  <2> DEFINE g == [i \in DOMAIN all |-> Texts(all[i])]
  <2>1. two = g BY <1>2
  <2>2. PartsSay(all) = FlattenSeq(g) BY DEF PartsSay
  <2> HIDE DEF two, g
  <2> QED BY <2>1, <2>2
<1>6. FlattenSeq(two) = Then(FlattenSeq(one), f[n + 1])
  <2> HIDE DEF f
  <2> QED BY <1>1, <1>3, FlattenGrows
<1>7. f[n + 1] = Texts(x)
  <2>1. n + 1 \in 1..n + 1 BY <1>1
  <2> QED BY <1>2, <2>1
<1> HIDE DEF one, two, f
<1> QED BY <1>4, <1>5, <1>6, <1>7 DEF all

\* What they say is a sequence of texts.
LEMMA PartsSayTyped ==
  ASSUME NEW s \in Seq(Seq(Line))
  PROVE  PartsSay(s) \in Seq(Ids)
<1> DEFINE S == {u \in Seq(Seq(Line)) : PartsSay(u) \in Seq(Ids)}
<1>1. <<>> \in S
  <2>1. PartsSay(<<>>) = <<>> BY PartsSayNone
  <2> DEFINE none == <<>>
  <2>2. none \in Seq(Seq(Line)) /\ none \in Seq(Ids) /\ PartsSay(none) = none BY <2>1
  <2> HIDE DEF none
  <2>3. none \in S BY <2>2
  <2> QED BY <2>3 DEF none
<1>2. ASSUME NEW u \in Seq(Seq(Line)), NEW x \in Seq(Line), u \in S PROVE Append(u, x) \in S
  <2>1. PartsSay(u) \in Seq(Ids) BY <1>2
  <2>2. Texts(x) \in Seq(Ids) BY TextsTyped
  <2>3. Then(PartsSay(u), Texts(x)) \in Seq(Ids) BY <2>1, <2>2, ThenSays
  <2>4. PartsSay(Append(u, x)) \in Seq(Ids) BY <2>3, PartsSayGrows
  <2>5. Append(u, x) \in Seq(Seq(Line)) BY AppendSays
  <2> QED BY <2>4, <2>5
<1>3. s \in S
  <2> HIDE DEF S
  <2> QED BY <1>1, <1>2, SeqInduction
<1> QED BY <1>3

\* One piece, and pieces after pieces.
LEMMA PartsSayOne ==
  ASSUME NEW x \in Seq(Line)
  PROVE  <<x>> \in Seq(Seq(Line)) /\ PartsSay(<<x>>) = Texts(x)
<1> DEFINE none == <<>>
<1>1. none \in Seq(Seq(Line)) /\ <<x>> = Append(none, x) OBVIOUS
<1>2. PartsSay(none) = <<>> BY PartsSayNone
<1> HIDE DEF none
<1>3. PartsSay(Append(none, x)) = Then(PartsSay(none), Texts(x)) BY <1>1, PartsSayGrows
<1>4. Texts(x) \in Seq(Ids) BY TextsTyped
<1>5. Then(<<>>, Texts(x)) = Texts(x) BY <1>4, ThenNone
<1>6. <<x>> \in Seq(Seq(Line)) OBVIOUS
<1> QED BY <1>1, <1>2, <1>3, <1>5, <1>6

\* Joined parts say one after the other what they say.
LEMMA PartsSayJoined ==
  ASSUME NEW a \in Seq(Seq(Line)), NEW b \in Seq(Seq(Line))
  PROVE  a \o b \in Seq(Seq(Line)) /\ PartsSay(a \o b) = Then(PartsSay(a), PartsSay(b))
<1> DEFINE S == {u \in Seq(Seq(Line)) : PartsSay(Then(a, u)) = Then(PartsSay(a), PartsSay(u))}
<1>1. <<>> \in S
  <2>1. Then(a, <<>>) = a BY ThenNone
  <2>2. PartsSay(a) \in Seq(Ids) BY PartsSayTyped
  <2>3. Then(PartsSay(a), <<>>) = PartsSay(a) BY <2>2, ThenNone
  <2>4. PartsSay(<<>>) = <<>> BY PartsSayNone
  <2>5. PartsSay(Then(a, <<>>)) = Then(PartsSay(a), PartsSay(<<>>)) BY <2>1, <2>3, <2>4
  <2>6. <<>> \in Seq(Seq(Line)) OBVIOUS
  <2> QED BY <2>5, <2>6
<1>2. ASSUME NEW u \in Seq(Seq(Line)), NEW x \in Seq(Line), u \in S PROVE Append(u, x) \in S
  <2>1. PartsSay(Then(a, u)) = Then(PartsSay(a), PartsSay(u)) BY <1>2
  <2>2. Then(a, Append(u, x)) = Append(Then(a, u), x) BY ThenAppend
  <2>3. Then(a, u) \in Seq(Seq(Line)) /\ Append(u, x) \in Seq(Seq(Line)) BY ThenSays, AppendSays
  <2>4. PartsSay(Append(Then(a, u), x)) = Then(PartsSay(Then(a, u)), Texts(x)) BY <2>3, PartsSayGrows
  <2>5. PartsSay(Append(u, x)) = Then(PartsSay(u), Texts(x)) BY PartsSayGrows
  <2>6. PartsSay(a) \in Seq(Ids) /\ PartsSay(u) \in Seq(Ids) BY PartsSayTyped
  <2>7. Texts(x) \in Seq(Ids) BY TextsTyped
  <2>8. Then(Then(PartsSay(a), PartsSay(u)), Texts(x)) = Then(PartsSay(a), Then(PartsSay(u), Texts(x)))
    BY <2>6, <2>7, ThenThen
  <2>9. PartsSay(Then(a, Append(u, x))) = Then(PartsSay(a), PartsSay(Append(u, x)))
    BY <2>1, <2>2, <2>4, <2>5, <2>8
  <2> QED BY <2>3, <2>9
<1>3. b \in S
  <2> HIDE DEF S
  <2> QED BY <1>1, <1>2, SeqInduction
<1>4. a \o b \in Seq(Seq(Line)) OBVIOUS
<1> QED BY <1>3, <1>4 DEF Then

\* Sentences and rows, after what was split before.
Sentences(base, s) == FoldLeft(AddSentence, base, s)

\* No sentence.
LEMMA AddSentenceNone ==
  ASSUME NEW base
  PROVE  Sentences(base, <<>>) = base
<1> DEFINE V == {base}
           none == [i \in 1..0 |-> [v \in V |-> AddSentence(v, <<>>[i])]]
           it == Sentences(base, <<>>)
<1>1. 0 \in Nat /\ DOMAIN <<>> = 1..0 /\ \A i \in 1..0 : \A v \in V : AddSentence(v, <<>>[i]) \in V
  OBVIOUS
<1>2. RunEnds(it, 0, V, base, none) BY <1>1, AddSentenceRuns DEF Sentences
<1> HIDE DEF none, it
<1>3. it = base BY <1>2 DEF RunEnds, IsRun
<1> QED BY <1>3 DEF it

\* ... and one sentence more.
LEMMA AddSentenceGrows ==
  ASSUME NEW V, NEW base \in V, NEW T, NEW seq \in Seq(T), NEW x \in T,
         \A v \in V : \A e \in T : AddSentence(v, e) \in V
  PROVE  /\ Sentences(base, seq) \in V
         /\ Sentences(base, Append(seq, x))
              = AddSentence(Sentences(base, seq), x)
<1> DEFINE n == Len(seq)
           m == n + 1
           all == Append(seq, x)
           one == [i \in 1..n |-> [v \in V |-> AddSentence(v, seq[i])]]
           two == [i \in 1..m |-> [v \in V |-> AddSentence(v, all[i])]]
           old == Sentences(base, seq)
           new == Sentences(base, all)
<1>1. n \in Nat /\ DOMAIN seq = 1..n /\ \A i \in 1..n : seq[i] \in T OBVIOUS
<1>2. m \in Nat /\ DOMAIN all = 1..m /\ all[m] = x
      /\ (\A i \in 1..n : all[i] = seq[i]) /\ m = n + 1
  OBVIOUS
<1> HIDE DEF n, all, m
<1>3. \A i \in 1..n : \A v \in V : AddSentence(v, seq[i]) \in V BY <1>1
<1>4. \A i \in 1..m : \A v \in V : AddSentence(v, all[i]) \in V
  <2>1. \A i \in 1..m : all[i] \in T
    <3>1. ASSUME NEW i \in 1..m PROVE all[i] \in T
      <4>1. i \in 1..n \/ i = m BY <1>1, <1>2
      <4> QED BY <1>1, <1>2, <4>1
    <3> QED BY <3>1
  <2> QED BY <2>1
<1>5. RunEnds(old, n, V, base, one) BY <1>1, <1>3, AddSentenceRuns DEF Sentences
<1>6. RunEnds(new, m, V, base, two) 
  <2>1. m \in Nat /\ DOMAIN all = 1..m BY <1>2
  <2> QED BY <1>4, <2>1, AddSentenceRuns DEF Sentences
<1>7. Agree(one, two, n)
  <2>1. ASSUME NEW k \in 1..n PROVE one[k] = two[k]
    <3>1. k \in 1..m /\ all[k] = seq[k] BY <1>1, <1>2
    <3> QED BY <3>1
  <2> QED BY <2>1 DEF Agree
<1>8. \A v \in V : two[m][v] = AddSentence(v, x)
  <2>1. m \in 1..m BY <1>1, <1>2
  <2> QED BY <1>2, <2>1
<1> HIDE DEF one, two, old, new
<1>9. old \in V /\ new = two[m][old] BY <1>1, <1>2, <1>5, <1>6, <1>7, RunGrows
<1>10. new = AddSentence(old, x) BY <1>8, <1>9
<1> QED BY <1>9, <1>10 DEF old, new, all

\* No row.
LEMMA AddRowNone ==
  ASSUME NEW prefix, NEW base
  PROVE  Rows(prefix, base, <<>>) = base
<1> DEFINE V == {base}
           none == [i \in 1..0 |-> [v \in V |-> AddRow(v, <<>>[i], prefix)]]
           it == Rows(prefix, base, <<>>)
<1>1. 0 \in Nat /\ DOMAIN <<>> = 1..0 /\ \A i \in 1..0 : \A v \in V : AddRow(v, <<>>[i], prefix) \in V
  OBVIOUS
<1>2. RunEnds(it, 0, V, base, none) BY <1>1, AddRowRuns
<1> HIDE DEF none, it
<1>3. it = base BY <1>2 DEF RunEnds, IsRun
<1> QED BY <1>3 DEF it

\* ... and one row more.
LEMMA AddRowGrows ==
  ASSUME NEW prefix, NEW V, NEW base \in V, NEW seq \in Seq(Line), NEW x \in Line,
         \A v \in V : \A e \in Line : AddRow(v, e, prefix) \in V
  PROVE  /\ Rows(prefix, base, seq) \in V
         /\ Rows(prefix, base, Append(seq, x))
              = AddRow(Rows(prefix, base, seq), x, prefix)
<1> DEFINE n == Len(seq)
           m == n + 1
           all == Append(seq, x)
           one == [i \in 1..n |-> [v \in V |-> AddRow(v, seq[i], prefix)]]
           two == [i \in 1..m |-> [v \in V |-> AddRow(v, all[i], prefix)]]
           old == Rows(prefix, base, seq)
           new == Rows(prefix, base, all)
<1>1. n \in Nat /\ DOMAIN seq = 1..n /\ \A i \in 1..n : seq[i] \in Line OBVIOUS
<1>2. m \in Nat /\ DOMAIN all = 1..m /\ all[m] = x
      /\ (\A i \in 1..n : all[i] = seq[i]) /\ m = n + 1
  OBVIOUS
<1> HIDE DEF n, all, m
<1>3. \A i \in 1..n : \A v \in V : AddRow(v, seq[i], prefix) \in V BY <1>1
<1>4. \A i \in 1..m : \A v \in V : AddRow(v, all[i], prefix) \in V
  <2>1. \A i \in 1..m : all[i] \in Line
    <3>1. ASSUME NEW i \in 1..m PROVE all[i] \in Line
      <4>1. i \in 1..n \/ i = m BY <1>1, <1>2
      <4> QED BY <1>1, <1>2, <4>1
    <3> QED BY <3>1
  <2> QED BY <2>1
<1>5. RunEnds(old, n, V, base, one) BY <1>1, <1>3, AddRowRuns
<1>6. RunEnds(new, m, V, base, two) 
  <2>1. m \in Nat /\ DOMAIN all = 1..m BY <1>2
  <2> QED BY <1>4, <2>1, AddRowRuns
<1>7. Agree(one, two, n)
  <2>1. ASSUME NEW k \in 1..n PROVE one[k] = two[k]
    <3>1. k \in 1..m /\ all[k] = seq[k] BY <1>1, <1>2
    <3> QED BY <3>1
  <2> QED BY <2>1 DEF Agree
<1>8. \A v \in V : two[m][v] = AddRow(v, x, prefix)
  <2>1. m \in 1..m BY <1>1, <1>2
  <2> QED BY <1>2, <2>1
<1> HIDE DEF one, two, old, new
<1>9. old \in V /\ new = two[m][old] BY <1>1, <1>2, <1>5, <1>6, <1>7, RunGrows
<1>10. new = AddRow(old, x, prefix) BY <1>8, <1>9
<1> QED BY <1>9, <1>10 DEF old, new, all

\* Splitting prose loses no sentence; the overlap says again what was said.
LEMMA SplitProseSays ==
  ASSUME NEW lines \in Seq(Line)
  PROVE  /\ SplitProse(lines) \in Seq(Seq(Line))
         /\ FirstOccurrences(PartsSay(SplitProse(lines))) = FirstOccurrences(Texts(lines))
<1> DEFINE F(u) == FirstOccurrences(u)
           V == [out : Seq(Seq(Line)), cur : Seq(Line)]
           base == [out |-> <<>>, cur |-> <<>>]
           W(v) == Then(PartsSay(v.out), Texts(v.cur))
           S == {u \in Seq(Line) : Sentences(base, u) \in V /\ F(W(Sentences(base, u))) = F(Texts(u))}
<1>1. base \in V OBVIOUS
<1>2. ASSUME NEW v \in V, NEW x \in Line
      PROVE  /\ AddSentence(v, x) \in V
             /\ F(W(AddSentence(v, x))) = Mentioned(F(W(v)), x.id)
  <2> DEFINE out == v.out
             cur == v.cur
             P == PartsSay(out)
             C == Texts(cur)
             id == x.id
  <2>1. v = [out |-> out, cur |-> cur] /\ out \in Seq(Seq(Line)) /\ cur \in Seq(Line) OBVIOUS
  <2> HIDE DEF out, cur, V
  <2>2. P \in Seq(Ids) BY <2>1, PartsSayTyped
  <2>3. C \in Seq(Ids) BY <2>1, TextsTyped
  <2>4. id \in Ids BY <2>1, TextsAppend
  <2>5. W(v) = Then(P, C) BY DEF out, cur
  <2>6. Then(P, C) \in Seq(Ids) BY <2>2, <2>3, ThenSays
  <2>7. CASE cur # <<>> /\ Tokens(cur) + x.size > MaxTokens
    <3> DEFINE c == Carry(cur)
               D == Texts(c)
    <3>1. c \in Seq(Line) /\ ToSet(D) \subseteq ToSet(C) BY <2>1, CarrySays
    <3>2. AddSentence(v, x) = [out |-> Append(out, cur), cur |-> Append(c, x)]
      BY <2>7 DEF AddSentence, out, cur
    <3>3. Append(out, cur) \in Seq(Seq(Line)) BY <2>1
    <3> HIDE DEF c
    <3>4. Append(c, x) \in Seq(Line) BY <3>1
    <3>5. AddSentence(v, x) \in V BY <3>2, <3>3, <3>4 DEF V
    <3>6. PartsSay(Append(out, cur)) = Then(P, C) BY <2>1, PartsSayGrows
    <3>7. Texts(Append(c, x)) = Append(D, id) BY <3>1, TextsAppend
    <3>8. W(AddSentence(v, x)) = Then(Then(P, C), Append(D, id))
      <4> DEFINE w == AddSentence(v, x)
      <4>1. w.out = Append(out, cur) /\ w.cur = Append(c, x) BY <3>2
      <4> HIDE DEF w, P, C, D, id
      <4> QED BY <3>6, <3>7, <4>1 DEF w
    <3>9. D \in Seq(Ids) BY <3>1, TextsTyped
    <3> HIDE DEF W, P, C, D, id
    <3>10. Then(Then(P, C), Append(D, id)) = Append(Then(Then(P, C), D), id)
      BY <2>4, <2>6, <3>9, ThenAppend
    <3>11. Then(Then(P, C), D) \in Seq(Ids) BY <2>6, <3>9, ThenSays
    <3>12. F(Append(Then(Then(P, C), D), id)) = Mentioned(F(Then(Then(P, C), D)), id)
      BY <2>4, <3>11, FirstsGrow
    <3>13. ToSet(D) \subseteq ToSet(Then(P, C))
      <4>1. ToSet(Then(P, C)) = ToSet(P) \cup ToSet(C) BY <2>2, <2>3, ThenSays
      <4>2. ToSet(D) \subseteq ToSet(C) BY <3>1 DEF D, C
      <4> QED BY <4>1, <4>2
    <3>14. F(Then(Then(P, C), D)) = F(Then(P, C)) BY <2>6, <3>9, <3>13, FirstsRepeat
    <3>15. F(W(AddSentence(v, x))) = Mentioned(F(W(v)), id)
      BY <2>5, <3>8, <3>10, <3>12, <3>14
    <3> QED BY <3>5, <3>15 DEF id
  <2>8. CASE ~(cur # <<>> /\ Tokens(cur) + x.size > MaxTokens)
    <3>1. AddSentence(v, x) = [out |-> out, cur |-> Append(cur, x)]
      <4>1. AddSentence(v, x) = [v EXCEPT !.cur = Append(cur, x)]
        BY <2>8 DEF AddSentence, out, cur
      <4> QED BY <2>1, <4>1
    <3>2. AddSentence(v, x) \in V
      <4>1. Append(cur, x) \in Seq(Line) /\ out \in Seq(Seq(Line)) BY <2>1
      <4> QED BY <3>1, <4>1 DEF V
    <3>3. Texts(Append(cur, x)) = Append(C, id) BY <2>1, TextsAppend
    <3>4. W(AddSentence(v, x)) = Then(P, Append(C, id))
      <4> DEFINE w == AddSentence(v, x)
      <4>1. w.out = out /\ w.cur = Append(cur, x) BY <3>1
      <4> HIDE DEF w, C, id
      <4> QED BY <3>3, <4>1 DEF w
    <3> HIDE DEF W, P, C, id
    <3>5. Then(P, Append(C, id)) = Append(Then(P, C), id) BY <2>2, <2>3, <2>4, ThenAppend
    <3>6. F(Append(Then(P, C), id)) = Mentioned(F(Then(P, C)), id) BY <2>4, <2>6, FirstsGrow
    <3>7. F(W(AddSentence(v, x))) = Mentioned(F(W(v)), id) BY <2>5, <3>4, <3>5, <3>6
    <3> QED BY <3>2, <3>7 DEF id
  <2> QED BY <2>7, <2>8
<1>3. lines \in S
  <2>1. <<>> \in S
    <3>1. Sentences(base, <<>>) = base BY AddSentenceNone
    <3>2. PartsSay(<<>>) = <<>> /\ Texts(<<>>) = <<>> BY PartsSayNone, TextsNone
    <3>3. Then(<<>>, <<>>) = <<>>
      <4> DEFINE none == <<>>
      <4>1. none \in Seq(Ids) OBVIOUS
      <4> HIDE DEF none
      <4>2. Then(none, <<>>) = none BY <4>1, ThenNone
      <4> QED BY <4>2 DEF none
    <3>4. base.out = <<>> /\ base.cur = <<>> OBVIOUS
    <3>5. W(base) = <<>>
      <4> HIDE DEF base
      <4> QED BY <3>2, <3>3, <3>4
    <3> HIDE DEF W, base
    <3>6. Sentences(base, <<>>) \in V BY <1>1, <3>1
    <3>7. F(W(Sentences(base, <<>>))) = F(Texts(<<>>)) BY <3>1, <3>2, <3>5
    <3>8. <<>> \in Seq(Line) OBVIOUS
    <3> QED BY <3>6, <3>7, <3>8
  <2> HIDE DEF V, base, W
  <2>2. ASSUME NEW u \in Seq(Line), NEW x \in Line, u \in S PROVE Append(u, x) \in S
    <3> DEFINE v == Sentences(base, u)
    <3>1. v \in V /\ F(W(v)) = F(Texts(u)) BY <2>2
    <3>2. \A w \in V : \A e \in Line : AddSentence(w, e) \in V BY <1>2
    <3>3. Sentences(base, Append(u, x)) = AddSentence(v, x) BY <1>1, <3>2, AddSentenceGrows
    <3> HIDE DEF v
    <3>4. Sentences(base, Append(u, x)) \in V BY <3>1, <3>2, <3>3
    <3>5. F(W(AddSentence(v, x))) = Mentioned(F(W(v)), x.id) BY <1>2, <3>1
    <3>6. Texts(Append(u, x)) = Append(Texts(u), x.id) /\ x.id \in Ids BY TextsAppend
    <3>7. Texts(u) \in Seq(Ids) BY TextsTyped
    <3>8. F(Append(Texts(u), x.id)) = Mentioned(F(Texts(u)), x.id) BY <3>6, <3>7, FirstsGrow
    <3>9. F(W(Sentences(base, Append(u, x)))) = F(Texts(Append(u, x)))
      BY <3>1, <3>3, <3>5, <3>6, <3>8
    <3>10. Append(u, x) \in Seq(Line) BY AppendSays
    <3> QED BY <3>4, <3>9, <3>10
  <2> HIDE DEF S
  <2> QED BY <2>1, <2>2, SeqInduction
<1>4. CASE Tokens(lines) <= MaxTokens
  <2>1. SplitProse(lines) = <<lines>> BY <1>4 DEF SplitProse
  <2>2. <<lines>> \in Seq(Seq(Line)) /\ PartsSay(<<lines>>) = Texts(lines) BY PartsSayOne
  <2> QED BY <2>1, <2>2
<1>5. CASE ~(Tokens(lines) <= MaxTokens)
  <2> DEFINE end == Sentences(base, lines)
  <2>1. SplitProse(lines) = Append(end.out, end.cur) BY <1>5 DEF SplitProse, Sentences
  <2>2. end \in V /\ F(W(end)) = F(Texts(lines)) BY <1>3
  <2> HIDE DEF end
  <2>3. end.out \in Seq(Seq(Line)) /\ end.cur \in Seq(Line) BY <2>2
  <2>4. PartsSay(Append(end.out, end.cur)) = Then(PartsSay(end.out), Texts(end.cur))
    BY <2>3, PartsSayGrows
  <2>5. Append(end.out, end.cur) \in Seq(Seq(Line)) BY <2>3
  <2> QED BY <2>1, <2>2, <2>4, <2>5
<1> QED BY <1>4, <1>5

\* Splitting a table loses no row and repeats none.
LEMMA SplitTableSays ==
  ASSUME NEW block, block.lines \in Seq(Line)
  PROVE  /\ SplitTable(block) \in Seq(Seq(Line))
         /\ PartsSay(SplitTable(block)) = Texts(block.lines)
<1> DEFINE lines == block.lines
           prefix == Prefix(block)
           V == [out : Seq(Seq(Line)), cur : Seq(Line)]
           base == [out |-> <<>>, cur |-> <<>>]
           W(v) == Then(PartsSay(v.out), Texts(v.cur))
           S == {u \in Seq(Line) : Rows(prefix, base, u) \in V /\ W(Rows(prefix, base, u)) = Texts(u)}
<1>1. base \in V OBVIOUS
<1> HIDE DEF prefix
<1>2. ASSUME NEW v \in V, NEW x \in Line
      PROVE  AddRow(v, x, prefix) \in V /\ W(AddRow(v, x, prefix)) = Append(W(v), x.id)
  <2> DEFINE out == v.out
             cur == v.cur
             P == PartsSay(out)
             C == Texts(cur)
             id == x.id
             w == AddRow(v, x, prefix)
  <2>1. v = [out |-> out, cur |-> cur] /\ out \in Seq(Seq(Line)) /\ cur \in Seq(Line) OBVIOUS
  <2> HIDE DEF out, cur, V
  <2>2. P \in Seq(Ids) BY <2>1, PartsSayTyped
  <2>3. C \in Seq(Ids) BY <2>1, TextsTyped
  <2>4. id \in Ids BY <2>1, TextsAppend
  <2>5. W(v) = Then(P, C) BY DEF out, cur
  <2>6. CASE cur # <<>> /\ prefix + Tokens(cur) + x.size > MaxTokens
    <3> DEFINE one == <<x>>
    <3>1. w = [out |-> Append(out, cur), cur |-> one]
      BY <2>6 DEF AddRow, out, cur
    <3>2. Append(out, cur) \in Seq(Seq(Line)) BY <2>1
    <3>3. one \in Seq(Line) OBVIOUS
    <3> HIDE DEF one
    <3>4. w \in V BY <3>1, <3>2, <3>3 DEF V
    <3>5. PartsSay(Append(out, cur)) = Then(P, C) BY <2>1, PartsSayGrows
    <3>6. Texts(one) = <<id>> BY DEF Texts, one
    <3>7. w.out = Append(out, cur) /\ w.cur = one BY <3>1
    <3> HIDE DEF w, P, C, id
    <3>8. W(w) = Then(Then(P, C), <<id>>) BY <3>5, <3>6, <3>7
    <3>9. Then(P, C) \in Seq(Ids) BY <2>2, <2>3, ThenSays
    <3> HIDE DEF W
    <3>10. Then(Then(P, C), <<id>>) = Append(Then(P, C), id) BY <2>4, <3>9 DEF Then
    <3>11. W(w) = Append(W(v), id) BY <2>5, <3>8, <3>10
    <3> QED BY <3>4, <3>11 DEF w, id
  <2>7. CASE ~(cur # <<>> /\ prefix + Tokens(cur) + x.size > MaxTokens)
    <3>1. w = [out |-> out, cur |-> Append(cur, x)]
      <4>1. w = [v EXCEPT !.cur = Append(cur, x)] BY <2>7 DEF AddRow, out, cur
      <4> HIDE DEF w
      <4> QED BY <2>1, <4>1
    <3>2. w \in V
      <4>1. Append(cur, x) \in Seq(Line) /\ out \in Seq(Seq(Line)) BY <2>1
      <4> QED BY <3>1, <4>1 DEF V
    <3>3. Texts(Append(cur, x)) = Append(C, id) BY <2>1, TextsAppend
    <3>4. w.out = out /\ w.cur = Append(cur, x) BY <3>1
    <3> HIDE DEF w, C, id
    <3>5. W(w) = Then(P, Append(C, id)) BY <3>3, <3>4
    <3> HIDE DEF W, P
    <3>6. Then(P, Append(C, id)) = Append(Then(P, C), id) BY <2>2, <2>3, <2>4, ThenAppend
    <3>7. W(w) = Append(W(v), id) BY <2>5, <3>5, <3>6
    <3> QED BY <3>2, <3>7 DEF w, id
  <2> QED BY <2>6, <2>7
<1>3. lines \in S
  <2>1. <<>> \in S
    <3>1. Rows(prefix, base, <<>>) = base BY AddRowNone
    <3>2. PartsSay(<<>>) = <<>> /\ Texts(<<>>) = <<>> BY PartsSayNone, TextsNone
    <3>3. Then(<<>>, <<>>) = <<>>
      <4> DEFINE none == <<>>
      <4>1. none \in Seq(Ids) OBVIOUS
      <4> HIDE DEF none
      <4>2. Then(none, <<>>) = none BY <4>1, ThenNone
      <4> QED BY <4>2 DEF none
    <3>4. base.out = <<>> /\ base.cur = <<>> OBVIOUS
    <3>5. W(base) = <<>>
      <4> HIDE DEF base
      <4> QED BY <3>2, <3>3, <3>4
    <3> HIDE DEF W, base
    <3>6. Rows(prefix, base, <<>>) \in V BY <1>1, <3>1
    <3>7. W(Rows(prefix, base, <<>>)) = Texts(<<>>) BY <3>1, <3>2, <3>5
    <3>8. <<>> \in Seq(Line) OBVIOUS
    <3> QED BY <3>6, <3>7, <3>8
  <2> HIDE DEF V, base, W
  <2>2. ASSUME NEW u \in Seq(Line), NEW x \in Line, u \in S PROVE Append(u, x) \in S
    <3> DEFINE v == Rows(prefix, base, u)
    <3>1. v \in V /\ W(v) = Texts(u) BY <2>2
    <3>2. \A w \in V : \A e \in Line : AddRow(w, e, prefix) \in V BY <1>2
    <3>3. Rows(prefix, base, Append(u, x)) = AddRow(v, x, prefix) BY <1>1, <3>2, AddRowGrows
    <3> HIDE DEF v
    <3>4. Rows(prefix, base, Append(u, x)) \in V BY <3>1, <3>2, <3>3
    <3>5. W(AddRow(v, x, prefix)) = Append(W(v), x.id) BY <1>2, <3>1
    <3>6. Texts(Append(u, x)) = Append(Texts(u), x.id) BY TextsAppend
    <3>7. W(Rows(prefix, base, Append(u, x))) = Texts(Append(u, x)) BY <3>1, <3>3, <3>5, <3>6
    <3>8. Append(u, x) \in Seq(Line) BY AppendSays
    <3> QED BY <3>4, <3>7, <3>8
  <2> HIDE DEF S
  <2>3. lines \in Seq(Line) OBVIOUS
  <2> QED BY <2>1, <2>2, <2>3, SeqInduction
<1>4. CASE prefix + Tokens(lines) <= MaxTokens
  <2>1. SplitTable(block) = <<lines>> BY <1>4 DEF SplitTable, prefix
  <2>2. <<lines>> \in Seq(Seq(Line)) /\ PartsSay(<<lines>>) = Texts(lines) BY PartsSayOne
  <2> QED BY <2>1, <2>2
<1>5. CASE ~(prefix + Tokens(lines) <= MaxTokens)
  <2> DEFINE end == Rows(prefix, base, lines)
  <2>1. SplitTable(block) = IF end.cur = <<>> THEN end.out ELSE Append(end.out, end.cur)
    BY <1>5 DEF SplitTable, Rows, prefix
  <2>2. end \in V /\ W(end) = Texts(lines) BY <1>3
  <2> HIDE DEF end
  <2>3. end.out \in Seq(Seq(Line)) /\ end.cur \in Seq(Line) BY <2>2
  <2>4. PartsSay(Append(end.out, end.cur)) = Then(PartsSay(end.out), Texts(end.cur))
    BY <2>3, PartsSayGrows
  <2>5. Append(end.out, end.cur) \in Seq(Seq(Line)) BY <2>3
  <2>6. end.cur = <<>> => PartsSay(end.out) = W(end)
    <3>1. PartsSay(end.out) \in Seq(Ids) BY <2>3, PartsSayTyped
    <3>2. Then(PartsSay(end.out), <<>>) = PartsSay(end.out) BY <3>1, ThenNone
    <3> QED BY <3>2, TextsNone
  <2> QED BY <2>1, <2>2, <2>3, <2>4, <2>5, <2>6
<1> QED BY <1>4, <1>5

\* Splitting a diagram loses nothing; its title is said again.
LEMMA SplitFlowchartSays ==
  ASSUME NEW b \in Flow
  PROVE  /\ SplitFlowchart(b) \in Seq(Seq(Line))
         /\ FirstOccurrences(PartsSay(SplitFlowchart(b))) = FirstOccurrences(Texts(b.lines))
<1> DEFINE lines == b.lines
           F(u) == FirstOccurrences(u)
<1>1. lines \in Seq(Line) /\ lines # <<>> /\ b.marked \in 0..Len(lines) BY DEF Flow
<1>2. CASE Tokens(lines) <= MaxTokens
  <2>1. SplitFlowchart(b) = <<lines>> BY <1>2 DEF SplitFlowchart
  <2>2. <<lines>> \in Seq(Seq(Line)) /\ PartsSay(<<lines>>) = Texts(lines) BY <1>1, PartsSayOne
  <2> QED BY <2>1, <2>2
<1>3. CASE ~(Tokens(lines) <= MaxTokens) /\ b.marked = 0
  BY <1>1, <1>3, SplitProseSays DEF SplitFlowchart
<1>4. CASE ~(Tokens(lines) <= MaxTokens) /\ b.marked # 0
  <2> DEFINE m == b.marked
             first == SubSeq(lines, 1, m)
             rest == SubSeq(lines, m + 1, Len(lines))
             title == <<Head(lines)>>
             two == title \o rest
  <2>1. m \in 1..Len(lines) BY <1>1, <1>4
  <2>2. first \in Seq(Line) /\ rest \in Seq(Line) /\ title \in Seq(Line) /\ two \in Seq(Line)
    BY <1>1, <2>1
  <2>3. first \o rest = lines
    <3>1. /\ 1 \in 1..Len(lines) + 1 /\ m \in 1 - 1..Len(lines)
          /\ Len(lines) \in m..Len(lines)
      BY <1>1, <2>1
    <3>2. SubSeq(lines, 1, m) \o SubSeq(lines, m + 1, Len(lines)) = SubSeq(lines, 1, Len(lines))
      BY <1>1, <3>1, ConcatAdjacentSubSeq
    <3>3. SubSeq(lines, 1, Len(lines)) = lines BY <1>1, SubSeqFull
    <3> QED BY <3>2, <3>3
  <2>4. Len(first) = m /\ first[1] = Head(lines) BY <1>1, <2>1
  <2>5. SplitFlowchart(b) = SplitProse(first) \o SplitProse(two) BY <1>4 DEF SplitFlowchart
  <2> DEFINE A == Texts(first)
             R == Texts(rest)
             H == Texts(title)
             PA == SplitProse(first)
             PB == SplitProse(two)
  <2>6. ToSet(H) \subseteq ToSet(A)
    <3>1. H = <<Head(lines).id>> BY DEF Texts
    <3>2. 1 \in 1..Len(first) BY <2>1, <2>4
    <3> HIDE DEF first
    <3>3. A \in Seq(Ids) /\ Len(A) = Len(first) /\ A[1] = first[1].id BY <2>2, <3>2, TextsTyped
    <3> HIDE DEF A, H
    <3>4. H[1] \in ToSet(A) /\ H[1] = Head(lines).id BY <2>4, <3>1, <3>2, <3>3 DEF ToSet
    <3>5. ToSet(H) = {Head(lines).id} BY <3>1 DEF ToSet
    <3> QED BY <3>4, <3>5
  <2> HIDE DEF first, rest, title
  <2>7. A \in Seq(Ids) /\ R \in Seq(Ids) /\ H \in Seq(Ids) BY <2>2, TextsTyped
  <2>8. Texts(two) = Then(H, R) BY <2>2, TextsThen
  <2>9. Texts(lines) = Then(A, R) BY <2>2, <2>3, TextsThen
  <2> HIDE DEF two
  <2>10. PA \in Seq(Seq(Line)) /\ F(PartsSay(PA)) = F(A) BY <2>2, SplitProseSays
  <2>11. PB \in Seq(Seq(Line)) /\ F(PartsSay(PB)) = F(Texts(two)) BY <2>2, SplitProseSays
  <2> HIDE DEF A, R, H, PA, PB
  <2>12. PartsSay(PA) \in Seq(Ids) /\ PartsSay(PB) \in Seq(Ids) BY <2>10, <2>11, PartsSayTyped
  <2>13. Then(H, R) \in Seq(Ids) BY <2>7, ThenSays
  <2>14. F(Then(PartsSay(PA), PartsSay(PB))) = F(Then(A, Then(H, R)))
    <3>1. Same(PartsSay(PA), A, FALSE) /\ Same(PartsSay(PB), Then(H, R), FALSE)
      BY <2>8, <2>10, <2>11 DEF Same
    <3>2. Same(Then(PartsSay(PA), PartsSay(PB)), Then(A, Then(H, R)), FALSE)
      BY <2>7, <2>12, <2>13, <3>1, SameThen
    <3> QED BY <3>2 DEF Same
  <2>15. Then(A, Then(H, R)) = Then(Then(A, H), R) BY <2>7, ThenThen
  <2>16. F(Then(A, H)) = F(A) BY <2>6, <2>7, FirstsRepeat DEF A, H
  <2>17. Then(A, H) \in Seq(Ids) BY <2>7, ThenSays
  <2>18. F(Then(Then(A, H), R)) = F(Then(A, R)) BY <2>7, <2>16, <2>17, FirstsAfter
  <2>19. PA \o PB \in Seq(Seq(Line)) /\ PartsSay(PA \o PB) = Then(PartsSay(PA), PartsSay(PB))
    BY <2>10, <2>11, PartsSayJoined
  <2>20. SplitFlowchart(b) = PA \o PB BY <2>5 DEF PA, PB
  <2> HIDE DEF F
  <2> QED BY <2>9, <2>14, <2>15, <2>18, <2>19, <2>20 DEF F
<1> QED BY <1>2, <1>3, <1>4

\* One piece, and pieces after pieces.
LEMMA PiecesSayOne ==
  ASSUME NEW t, NEW x \in Piece
  PROVE  <<x>> \in Seq(Piece) /\ PiecesSay(<<x>>, t) = PieceSays(x, t)
<1> DEFINE none == <<>>
<1>1. none \in Seq(Piece) /\ <<x>> = Append(none, x) OBVIOUS
<1>2. PiecesSay(none, t) = <<>> BY PiecesSayNone
<1> HIDE DEF none
<1>3. PiecesSay(Append(none, x), t) = Then(PiecesSay(none, t), PieceSays(x, t)) BY <1>1, PiecesSayGrows
<1>4. PieceSays(x, t) \in Seq(Ids) BY PieceTyped
<1>5. Then(<<>>, PieceSays(x, t)) = PieceSays(x, t) BY <1>4, ThenNone
<1>6. <<x>> \in Seq(Piece) OBVIOUS
<1> QED BY <1>1, <1>2, <1>3, <1>5, <1>6

\* Joined pieces say one after the other what they say.
LEMMA PiecesSayJoined ==
  ASSUME NEW t, NEW a \in Seq(Piece), NEW b \in Seq(Piece)
  PROVE  a \o b \in Seq(Piece) /\ PiecesSay(a \o b, t) = Then(PiecesSay(a, t), PiecesSay(b, t))
<1> DEFINE S == {u \in Seq(Piece) : PiecesSay(Then(a, u), t) = Then(PiecesSay(a, t), PiecesSay(u, t))}
<1>1. <<>> \in S
  <2>1. Then(a, <<>>) = a BY ThenNone
  <2>2. PiecesSay(a, t) \in Seq(Ids) BY PiecesSayTyped
  <2>3. Then(PiecesSay(a, t), <<>>) = PiecesSay(a, t) BY <2>2, ThenNone
  <2>4. PiecesSay(<<>>, t) = <<>> BY PiecesSayNone
  <2>5. PiecesSay(Then(a, <<>>), t) = Then(PiecesSay(a, t), PiecesSay(<<>>, t)) BY <2>1, <2>3, <2>4
  <2>6. <<>> \in Seq(Piece) OBVIOUS
  <2> QED BY <2>5, <2>6
<1>2. ASSUME NEW u \in Seq(Piece), NEW x \in Piece, u \in S PROVE Append(u, x) \in S
  <2>1. PiecesSay(Then(a, u), t) = Then(PiecesSay(a, t), PiecesSay(u, t)) BY <1>2
  <2>2. Then(a, Append(u, x)) = Append(Then(a, u), x) BY ThenAppend
  <2>3. Then(a, u) \in Seq(Piece) /\ Append(u, x) \in Seq(Piece) BY ThenSays, AppendSays
  <2>4. PiecesSay(Append(Then(a, u), x), t) = Then(PiecesSay(Then(a, u), t), PieceSays(x, t)) BY <2>3, PiecesSayGrows
  <2>5. PiecesSay(Append(u, x), t) = Then(PiecesSay(u, t), PieceSays(x, t)) BY PiecesSayGrows
  <2>6. PiecesSay(a, t) \in Seq(Ids) /\ PiecesSay(u, t) \in Seq(Ids) BY PiecesSayTyped
  <2>7. PieceSays(x, t) \in Seq(Ids) BY PieceTyped
  <2>8. Then(Then(PiecesSay(a, t), PiecesSay(u, t)), PieceSays(x, t)) = Then(PiecesSay(a, t), Then(PiecesSay(u, t), PieceSays(x, t)))
    BY <2>6, <2>7, ThenThen
  <2>9. PiecesSay(Then(a, Append(u, x)), t) = Then(PiecesSay(a, t), PiecesSay(Append(u, x), t))
    BY <2>1, <2>2, <2>4, <2>5, <2>8
  <2> QED BY <2>3, <2>9
<1>3. b \in S
  <2> HIDE DEF S
  <2> QED BY <1>1, <1>2, SeqInduction
<1>4. a \o b \in Seq(Piece) OBVIOUS
<1> QED BY <1>3, <1>4 DEF Then

\* The pieces of a block say what the block says.
LEMMA SplitSays ==
  ASSUME NEW t \in BOOLEAN, NEW g \in Grouped, NEW b \in Body
  PROVE  Same(PiecesSay(Cut(g, b, Split(b)), t), BlockSays(b, t), t)
<1> DEFINE parts == Split(b)
           cut == Cut(g, b, parts)
           n == Len(parts)
           P == PartsSay(parts)
           T == Texts(b.lines)
<1>1. b.lines \in Seq(Line) /\ b.kind # "heading" /\ b.kind \in {"prose", "table", "flowchart"}
  BY DEF Body, Prose, Table, Flow
<1>2. parts \in Seq(Seq(Line)) /\ (b.kind = "table" => P = T)
      /\ FirstOccurrences(P) = FirstOccurrences(T)
  <2>1. CASE b.kind = "table" BY <1>1, <2>1, SplitTableSays DEF Split
  <2>2. CASE b.kind = "flowchart"
    <3>1. b \in Flow BY <2>2 DEF Body, Prose, Table, Flow
    <3>2. parts = SplitFlowchart(b) BY <2>2 DEF Split
    <3> QED BY <2>2, <3>1, <3>2, SplitFlowchartSays
  <2>3. CASE b.kind = "prose"
    <3>1. parts = SplitProse(b.lines) BY <2>3 DEF Split
    <3> QED BY <1>1, <2>3, <3>1, SplitProseSays
  <2> QED BY <1>1, <2>1, <2>2, <2>3
<1>3. n \in Nat /\ DOMAIN parts = 1..n BY <1>2
<1> HIDE DEF parts, n
<1>4. cut = [k \in 1..n |-> [group |-> g, block |-> b, lines |-> parts[k]]] BY <1>3 DEF Cut
<1>5. DOMAIN cut = 1..n
      /\ \A k \in 1..n : cut[k].block = b /\ cut[k].lines = parts[k]
  BY <1>4
<1> HIDE DEF cut
<1>6. PiecesSay(cut, t) = FlattenSeq([k \in 1..n |-> PieceSays(cut[k], t)])
  BY <1>5 DEF PiecesSay
<1>7. CASE t /\ b.kind # "table"
  <2> DEFINE f == [k \in 1..n |-> PieceSays(cut[k], t)]
             none == [k \in 1..n |-> <<>>]
  <2>1. \A k \in 1..n : PieceSays(cut[k], t) = <<>> BY <1>5, <1>7 DEF PieceSays
  <2>2. f = none BY <2>1
  <2>3. FlattenSeq(none) = <<>> BY <1>3, FlattenEmpty
  <2>4. BlockSays(b, t) = <<>> BY <1>7 DEF BlockSays
  <2> HIDE DEF f, none
  <2>5. PiecesSay(cut, t) = <<>>
    <3>1. PiecesSay(cut, t) = FlattenSeq(f) BY <1>6 DEF f
    <3> QED BY <2>2, <2>3, <3>1
  <2> QED BY <1>7, <2>4, <2>5 DEF Same, cut, parts
<1>8. CASE ~(t /\ b.kind # "table")
  <2> DEFINE f == [k \in 1..n |-> PieceSays(cut[k], t)]
             all == [k \in 1..n |-> Texts(parts[k])]
  <2>1. \A k \in 1..n : PieceSays(cut[k], t) = Texts(parts[k]) BY <1>5, <1>8 DEF PieceSays
  <2>2. f = all BY <2>1
  <2>3. P = FlattenSeq(all) BY <1>3 DEF PartsSay
  <2>4. BlockSays(b, t) = T BY <1>1, <1>8 DEF BlockSays
  <2> HIDE DEF f, all
  <2>5. PiecesSay(cut, t) = P
    <3>1. PiecesSay(cut, t) = FlattenSeq(f) BY <1>6 DEF f
    <3> QED BY <2>2, <2>3, <3>1
  <2> HIDE DEF P, T
  <2> QED BY <1>2, <1>8, <2>4, <2>5 DEF Same, cut, parts
<1> QED BY <1>7, <1>8

\* The next step of a fold, which stays in V.
StepsTo(new, next, V) == new = next /\ new \in V

\* No block to cut.
LEMMA CutOnNone ==
  ASSUME NEW g, NEW base
  PROVE  CutAll(g, base, <<>>) = base
<1> DEFINE V == {base}
           none == [i \in 1..0 |-> [v \in V |-> CutOn(g, v, <<>>[i])]]
           it == CutAll(g, base, <<>>)
<1>1. 0 \in Nat /\ DOMAIN <<>> = 1..0 /\ \A i \in 1..0 : \A v \in V : CutOn(g, v, <<>>[i]) \in V
  OBVIOUS
<1>2. RunEnds(it, 0, V, base, none) BY <1>1, CutAllRuns
<1> HIDE DEF none, it
<1>3. it = base BY <1>2 DEF RunEnds, IsRun
<1> QED BY <1>3 DEF it

\* ... and one block more.
LEMMA CutOnGrows ==
  ASSUME NEW g, NEW V, NEW base \in V, NEW seq \in Seq(Body), NEW x \in Body,
         \A v \in V : \A e \in Body : CutOn(g, v, e) \in V
  PROVE  /\ CutAll(g, base, seq) \in V
         /\ StepsTo(CutAll(g, base, Append(seq, x)), CutOn(g, CutAll(g, base, seq), x), V)
<1> DEFINE n == Len(seq)
           m == n + 1
           all == Append(seq, x)
           one == [i \in 1..n |-> [v \in V |-> CutOn(g, v, seq[i])]]
           two == [i \in 1..m |-> [v \in V |-> CutOn(g, v, all[i])]]
           old == CutAll(g, base, seq)
           new == CutAll(g, base, all)
<1>1. n \in Nat /\ DOMAIN seq = 1..n /\ \A i \in 1..n : seq[i] \in Body OBVIOUS
<1>2. m \in Nat /\ DOMAIN all = 1..m /\ all[m] = x
      /\ (\A i \in 1..n : all[i] = seq[i]) /\ m = n + 1
  OBVIOUS
<1> HIDE DEF n, all, m
<1>3. \A i \in 1..n : \A v \in V : CutOn(g, v, seq[i]) \in V BY <1>1
<1>4. \A i \in 1..m : \A v \in V : CutOn(g, v, all[i]) \in V
  <2>1. \A i \in 1..m : all[i] \in Body
    <3>1. ASSUME NEW i \in 1..m PROVE all[i] \in Body
      <4>1. i \in 1..n \/ i = m BY <1>1, <1>2
      <4> QED BY <1>1, <1>2, <4>1
    <3> QED BY <3>1
  <2> QED BY <2>1
<1>5. RunEnds(old, n, V, base, one) BY <1>1, <1>3, CutAllRuns
<1>6. RunEnds(new, m, V, base, two) 
  <2>1. m \in Nat /\ DOMAIN all = 1..m BY <1>2
  <2> QED BY <1>4, <2>1, CutAllRuns
<1>7. Agree(one, two, n)
  <2>1. ASSUME NEW k \in 1..n PROVE one[k] = two[k]
    <3>1. k \in 1..m /\ all[k] = seq[k] BY <1>1, <1>2
    <3> QED BY <3>1
  <2> QED BY <2>1 DEF Agree
<1>8. \A v \in V : two[m][v] = CutOn(g, v, x)
  <2>1. m \in 1..m BY <1>1, <1>2
  <2> QED BY <1>2, <2>1
<1> HIDE DEF one, two, old, new
<1>9. old \in V /\ new = two[m][old] BY <1>1, <1>2, <1>5, <1>6, <1>7, RunGrows
<1>10. new = CutOn(g, old, x) BY <1>8, <1>9
<1>11. new \in V BY <1>9, <1>10
<1> QED BY <1>9, <1>10, <1>11 DEF old, new, all, StepsTo

\* No group to cut.
LEMMA PiecesOnNone ==
  ASSUME NEW base
  PROVE  PiecesOf(base, <<>>) = base
<1> DEFINE V == {base}
           none == [i \in 1..0 |-> [v \in V |-> PiecesOn(v, <<>>[i])]]
           it == PiecesOf(base, <<>>)
<1>1. 0 \in Nat /\ DOMAIN <<>> = 1..0 /\ \A i \in 1..0 : \A v \in V : PiecesOn(v, <<>>[i]) \in V
  OBVIOUS
<1>2. RunEnds(it, 0, V, base, none) BY <1>1, PiecesOfRuns
<1> HIDE DEF none, it
<1>3. it = base BY <1>2 DEF RunEnds, IsRun
<1> QED BY <1>3 DEF it

\* ... and one group more.
LEMMA PiecesOnGrows ==
  ASSUME NEW V, NEW base \in V, NEW seq \in Seq(Grouped), NEW x \in Grouped,
         \A v \in V : \A e \in Grouped : PiecesOn(v, e) \in V
  PROVE  /\ PiecesOf(base, seq) \in V
         /\ StepsTo(PiecesOf(base, Append(seq, x)), PiecesOn(PiecesOf(base, seq), x), V)
<1> DEFINE n == Len(seq)
           m == n + 1
           all == Append(seq, x)
           one == [i \in 1..n |-> [v \in V |-> PiecesOn(v, seq[i])]]
           two == [i \in 1..m |-> [v \in V |-> PiecesOn(v, all[i])]]
           old == PiecesOf(base, seq)
           new == PiecesOf(base, all)
<1>1. n \in Nat /\ DOMAIN seq = 1..n /\ \A i \in 1..n : seq[i] \in Grouped OBVIOUS
<1>2. m \in Nat /\ DOMAIN all = 1..m /\ all[m] = x
      /\ (\A i \in 1..n : all[i] = seq[i]) /\ m = n + 1
  OBVIOUS
<1> HIDE DEF n, all, m
<1>3. \A i \in 1..n : \A v \in V : PiecesOn(v, seq[i]) \in V BY <1>1
<1>4. \A i \in 1..m : \A v \in V : PiecesOn(v, all[i]) \in V
  <2>1. \A i \in 1..m : all[i] \in Grouped
    <3>1. ASSUME NEW i \in 1..m PROVE all[i] \in Grouped
      <4>1. i \in 1..n \/ i = m BY <1>1, <1>2
      <4> QED BY <1>1, <1>2, <4>1
    <3> QED BY <3>1
  <2> QED BY <2>1
<1>5. RunEnds(old, n, V, base, one) BY <1>1, <1>3, PiecesOfRuns
<1>6. RunEnds(new, m, V, base, two) 
  <2>1. m \in Nat /\ DOMAIN all = 1..m BY <1>2
  <2> QED BY <1>4, <2>1, PiecesOfRuns
<1>7. Agree(one, two, n)
  <2>1. ASSUME NEW k \in 1..n PROVE one[k] = two[k]
    <3>1. k \in 1..m /\ all[k] = seq[k] BY <1>1, <1>2
    <3> QED BY <3>1
  <2> QED BY <2>1 DEF Agree
<1>8. \A v \in V : two[m][v] = PiecesOn(v, x)
  <2>1. m \in 1..m BY <1>1, <1>2
  <2> QED BY <1>2, <2>1
<1> HIDE DEF one, two, old, new
<1>9. old \in V /\ new = two[m][old] BY <1>1, <1>2, <1>5, <1>6, <1>7, RunGrows
<1>10. new = PiecesOn(old, x) BY <1>8, <1>9
<1>11. new \in V BY <1>9, <1>10
<1> QED BY <1>9, <1>10, <1>11 DEF old, new, all, StepsTo

\* A sequence of blocks of the body is one of blocks.
LEMMA BodiesAreBlocks ==
  ASSUME NEW bs \in Seq(Body)
  PROVE  bs \in Seq(Blocks)
<1>1. \A b \in Body : b \in Blocks BY DEF Blocks
<1> QED BY <1>1

\* The pieces of blocks say what the blocks say.
LEMMA CutAllSays ==
  ASSUME NEW t \in BOOLEAN, NEW g \in Grouped, NEW blocks \in Seq(Body)
  PROVE  /\ CutAll(g, <<>>, blocks) \in Seq(Piece)
         /\ Same(PiecesSay(CutAll(g, <<>>, blocks), t), BlocksSay(blocks, t), t)
<1> DEFINE V == Seq(Piece)
           W(u) == PiecesSay(CutAll(g, <<>>, u), t)
           B(u) == BlocksSay(u, t)
           S == {u \in Seq(Body) : CutAll(g, <<>>, u) \in V /\ Same(W(u), B(u), t)}
<1>1. <<>> \in V /\ <<>> \in Seq(Body) OBVIOUS
<1>2. \A v \in V : \A x \in Body : CutOn(g, v, x) \in V
  <2>1. \A x \in Body : Cut(g, x, Split(x)) \in V BY CutTyped
  <2> QED BY <2>1 DEF CutOn
<1>3. <<>> \in S
  <2>1. CutAll(g, <<>>, <<>>) = <<>> BY CutOnNone
  <2>2. PiecesSay(<<>>, t) = <<>> /\ B(<<>>) = <<>> BY PiecesSayNone, BlocksSayNone
  <2>3. W(<<>>) = B(<<>>) BY <2>1, <2>2
  <2>4. Same(W(<<>>), B(<<>>), t) BY <2>3 DEF Same
  <2> HIDE DEF W, B
  <2> QED BY <1>1, <2>1, <2>4
<1>4. ASSUME NEW u \in Seq(Body), NEW x \in Body, u \in S PROVE Append(u, x) \in S
  <2> DEFINE v == CutAll(g, <<>>, u)
             c == Cut(g, x, Split(x))
  <2>1. v \in V /\ Same(W(u), B(u), t) BY <1>4
  <2>2. CutAll(g, <<>>, Append(u, x)) = CutOn(g, v, x) 
    <3> DEFINE base == <<>>
    <3>1. base \in V BY <1>1
    <3> HIDE DEF V, base
    <3>2. StepsTo(CutAll(g, base, Append(u, x)), CutOn(g, CutAll(g, base, u), x), V) BY <1>2, <3>1, CutOnGrows
    <3> QED BY <3>2 DEF base, StepsTo
  <2>3. c \in Seq(Piece) BY CutTyped
  <2>4. CutOn(g, v, x) = v \o c BY DEF CutOn
  <2>5. W(u) = PiecesSay(v, t) OBVIOUS
  <2>6. Same(PiecesSay(c, t), BlockSays(x, t), t) BY SplitSays
  <2> HIDE DEF v, c
  <2>7. v \o c \in Seq(Piece) /\ PiecesSay(v \o c, t) = Then(PiecesSay(v, t), PiecesSay(c, t))
    BY <2>1, <2>3, PiecesSayJoined
  <2>8. W(Append(u, x)) = Then(W(u), PiecesSay(c, t)) BY <2>2, <2>4, <2>5, <2>7
  <2>9. B(Append(u, x)) = Then(B(u), BlockSays(x, t))
    <3>1. u \in Seq(Blocks) /\ x \in Blocks BY BodiesAreBlocks DEF Blocks
    <3> QED BY <3>1, BlocksSayGrows
  <2>10. PiecesSay(v, t) \in Seq(Ids) /\ PiecesSay(c, t) \in Seq(Ids) BY <2>1, <2>3, PiecesSayTyped
  <2>11. B(u) \in Seq(Ids) /\ BlockSays(x, t) \in Seq(Ids)
    <3>1. u \in Seq(Blocks) /\ x \in Blocks BY BodiesAreBlocks DEF Blocks
    <3> QED BY <3>1, BlocksSayTyped, BlockTyped
  <2> HIDE DEF W, B
  <2>12. Same(Then(W(u), PiecesSay(c, t)), Then(B(u), BlockSays(x, t)), t)
    BY <2>1, <2>5, <2>6, <2>10, <2>11, SameThen
  <2>13. CutAll(g, <<>>, Append(u, x)) \in V BY <2>2, <2>4, <2>7
  <2>14. Append(u, x) \in Seq(Body) BY AppendSays
  <2> QED BY <2>8, <2>9, <2>12, <2>13, <2>14
<1>5. blocks \in S
  <2> HIDE DEF S
  <2> QED BY <1>3, <1>4, SeqInduction
<1> QED BY <1>5

\* All but the last of a sequence, and the last.
LEMMA LastOf ==
  ASSUME NEW T, NEW out \in Seq(T), out # <<>>, NEW n, n = Len(out)
  PROVE  /\ n \in 1..n /\ out[n] \in T /\ out[n] = Last(out)
         /\ \E front \in Seq(T) : /\ out = Append(front, out[n])
                                  /\ \A y \in T : [out EXCEPT ![n] = y] = Append(front, y)
<1> DEFINE front == SubSeq(out, 1, n - 1)
<1>1. n \in Nat \ {0} /\ n \in 1..n /\ out[n] \in T /\ out[n] = Last(out) BY DEF Last
<1>2. front \in Seq(T) /\ Len(front) = n - 1 /\ \A i \in 1..n - 1 : front[i] = out[i] BY <1>1
<1>3. ASSUME NEW y \in T PROVE [out EXCEPT ![n] = y] = Append(front, y)
  <2> DEFINE u == [out EXCEPT ![n] = y]
             v == Append(front, y)
  <2>1. u \in Seq(T) /\ Len(u) = n /\ u[n] = y /\ \A i \in 1..n - 1 : u[i] = out[i] BY <1>1
  <2> HIDE DEF front
  <2>2. v \in Seq(T) /\ Len(v) = n /\ v[n] = y /\ \A i \in 1..n - 1 : v[i] = front[i] BY <1>1, <1>2
  <2> HIDE DEF u, v
  <2>3. \A i \in 1..n : u[i] = v[i]
    <3>1. \A i \in 1..n : i \in 1..n - 1 \/ i = n BY <1>1
    <3> QED BY <1>2, <2>1, <2>2, <3>1
  <2>4. u = v BY <2>1, <2>2, <2>3
  <2> QED BY <2>4 DEF u, v
<1>4. [out EXCEPT ![n] = out[n]] = out BY <1>1
<1>5. out = Append(front, out[n]) BY <1>1, <1>3, <1>4
<1> HIDE DEF front
<1>6. \E f \in Seq(T) : out = Append(f, out[n]) /\ \A y \in T : [out EXCEPT ![n] = y] = Append(f, y)
  BY <1>2, <1>3, <1>5
<1> QED BY <1>1, <1>6

\* A block joined to the last one says what it says after the others.
LEMMA JoinSays ==
  ASSUME NEW t, NEW out \in Seq(Blocks), out # <<>>, NEW b \in Body, Last(out).kind = b.kind,
         b.kind # "flowchart"
  PROVE  /\ JoinLast(out, b) \in Seq(Blocks)
         /\ BlocksSay(JoinLast(out, b), t) = Then(BlocksSay(out, t), BlockSays(b, t))
<1> DEFINE n == Len(out)
           last == out[n]
           lines == last.lines \o b.lines
           joined == [last EXCEPT !.lines = lines]
           L == BlockSays(last, t)
           B == BlockSays(b, t)
<1>1. n \in 1..n /\ last \in Blocks /\ last = Last(out) BY LastOf
<1>2. PICK front \in Seq(Blocks) : /\ out = Append(front, last)
                                   /\ \A y \in Blocks : [out EXCEPT ![n] = y] = Append(front, y)
  BY LastOf
<1>3. JoinLast(out, b) = [out EXCEPT ![n] = joined] BY <1>1 DEF JoinLast
<1> HIDE DEF n, last
<1>4. last.kind = b.kind BY <1>1
<1>5. last \in Body /\ last.lines \in Seq(Line) /\ b.lines \in Seq(Line)
      /\ b.kind # "heading" /\ b \in Blocks
  BY <1>1, <1>4 DEF Blocks, Heading, Body, Prose, Table, Flow
<1>6. lines \in Seq(Line) BY <1>5
<1>7. joined \in Blocks /\ joined.kind = b.kind /\ joined.lines = lines
  <2> HIDE DEF lines
  <2>1. CASE last \in Prose BY <1>4, <1>6, <2>1 DEF Prose, Body, Blocks
  <2>2. CASE last \in Table BY <1>4, <1>6, <2>2 DEF Table, Body, Blocks
  <2>3. last \notin Flow BY <1>4 DEF Flow
  <2> QED BY <1>5, <2>1, <2>2, <2>3 DEF Body
<1>8. BlockSays(joined, t) = Then(L, B)
  <2>1. Texts(lines) = Then(Texts(last.lines), Texts(b.lines)) BY <1>5, TextsThen
  <2>2. CASE t /\ b.kind # "table"
    <3>1. BlockSays(joined, t) = <<>> /\ L = <<>> /\ B = <<>> BY <1>4, <1>7, <2>2 DEF BlockSays
    <3>2. <<>> \in Seq(Ids) OBVIOUS
    <3>3. Then(<<>>, <<>>) = <<>> BY <3>2, ThenNone
    <3> QED BY <3>1, <3>3
  <2>3. CASE ~(t /\ b.kind # "table")
    <3>1. BlockSays(joined, t) = Texts(lines) BY <1>5, <1>7, <2>3 DEF BlockSays
    <3>2. L = Texts(last.lines) BY <1>4, <1>5, <2>3 DEF BlockSays
    <3>3. B = Texts(b.lines) BY <1>5, <2>3 DEF BlockSays
    <3> HIDE DEF L, B, joined, lines
    <3> QED BY <2>1, <3>1, <3>2, <3>3
  <2> QED BY <2>2, <2>3
<1> DEFINE new == JoinLast(out, b)
<1>9. new = Append(front, joined) BY <1>2, <1>3, <1>7
<1> HIDE DEF new, joined
<1>10. new \in Seq(Blocks) BY <1>7, <1>9, AppendSays
<1>11. BlocksSay(new, t) = Then(BlocksSay(front, t), BlockSays(joined, t)) BY <1>7, <1>9, BlocksSayGrows
<1>12. BlocksSay(out, t) = Then(BlocksSay(front, t), L) BY <1>1, <1>2, BlocksSayGrows
<1>13. BlocksSay(front, t) \in Seq(Ids) BY BlocksSayTyped
<1>14. L \in Seq(Ids) /\ B \in Seq(Ids) BY <1>1, <1>5, BlockTyped
<1> HIDE DEF L, B
<1>15. Then(Then(BlocksSay(front, t), L), B) = Then(BlocksSay(front, t), Then(L, B))
  BY <1>13, <1>14, ThenThen
<1>16. BlocksSay(new, t) = Then(BlocksSay(out, t), B) BY <1>8, <1>11, <1>12, <1>15
<1> QED BY <1>10, <1>16 DEF new, B

\* Blocks stitched, after blocks that were.
Stitched(base, s) == FoldLeft(StitchBlock, base, s)

\* No block to stitch.
LEMMA StitchBlockNone ==
  ASSUME NEW base
  PROVE  Stitched(base, <<>>) = base
<1> DEFINE V == {base}
           none == [i \in 1..0 |-> [v \in V |-> StitchBlock(v, <<>>[i])]]
           it == Stitched(base, <<>>)
<1>1. 0 \in Nat /\ DOMAIN <<>> = 1..0 /\ \A i \in 1..0 : \A v \in V : StitchBlock(v, <<>>[i]) \in V
  OBVIOUS
<1>2. RunEnds(it, 0, V, base, none) BY <1>1, StitchBlockRuns DEF Stitched
<1> HIDE DEF none, it
<1>3. it = base BY <1>2 DEF RunEnds, IsRun
<1> QED BY <1>3 DEF it

\* ... and one block more.
LEMMA StitchBlockGrows ==
  ASSUME NEW V, NEW base \in V, NEW seq \in Seq(Body), NEW x \in Body,
         \A v \in V : \A e \in Body : StitchBlock(v, e) \in V
  PROVE  /\ Stitched(base, seq) \in V
         /\ StepsTo(Stitched(base, Append(seq, x)), StitchBlock(Stitched(base, seq), x), V)
<1> DEFINE n == Len(seq)
           m == n + 1
           all == Append(seq, x)
           one == [i \in 1..n |-> [v \in V |-> StitchBlock(v, seq[i])]]
           two == [i \in 1..m |-> [v \in V |-> StitchBlock(v, all[i])]]
           old == Stitched(base, seq)
           new == Stitched(base, all)
<1>1. n \in Nat /\ DOMAIN seq = 1..n /\ \A i \in 1..n : seq[i] \in Body OBVIOUS
<1>2. m \in Nat /\ DOMAIN all = 1..m /\ all[m] = x
      /\ (\A i \in 1..n : all[i] = seq[i]) /\ m = n + 1
  OBVIOUS
<1> HIDE DEF n, all, m
<1>3. \A i \in 1..n : \A v \in V : StitchBlock(v, seq[i]) \in V BY <1>1
<1>4. \A i \in 1..m : \A v \in V : StitchBlock(v, all[i]) \in V
  <2>1. \A i \in 1..m : all[i] \in Body
    <3>1. ASSUME NEW i \in 1..m PROVE all[i] \in Body
      <4>1. i \in 1..n \/ i = m BY <1>1, <1>2
      <4> QED BY <1>1, <1>2, <4>1
    <3> QED BY <3>1
  <2> QED BY <2>1
<1>5. RunEnds(old, n, V, base, one) BY <1>1, <1>3, StitchBlockRuns DEF Stitched
<1>6. RunEnds(new, m, V, base, two) 
  <2>1. m \in Nat /\ DOMAIN all = 1..m BY <1>2
  <2> QED BY <1>4, <2>1, StitchBlockRuns DEF Stitched
<1>7. Agree(one, two, n)
  <2>1. ASSUME NEW k \in 1..n PROVE one[k] = two[k]
    <3>1. k \in 1..m /\ all[k] = seq[k] BY <1>1, <1>2
    <3> QED BY <3>1
  <2> QED BY <2>1 DEF Agree
<1>8. \A v \in V : two[m][v] = StitchBlock(v, x)
  <2>1. m \in 1..m BY <1>1, <1>2
  <2> QED BY <1>2, <2>1
<1> HIDE DEF one, two, old, new
<1>9. old \in V /\ new = two[m][old] BY <1>1, <1>2, <1>5, <1>6, <1>7, RunGrows
<1>10. new = StitchBlock(old, x) BY <1>8, <1>9
<1>11. new \in V BY <1>9, <1>10
<1> QED BY <1>9, <1>10, <1>11 DEF old, new, all, StepsTo

\* Stitching loses nothing.
LEMMA StitchSays ==
  ASSUME NEW t, NEW blocks \in Seq(Body)
  PROVE  BlocksSay(Stitch(blocks), t) = BlocksSay(blocks, t)
<1> DEFINE V == Seq(Body)
           base == <<>>
           W(u) == BlocksSay(Stitched(base, u), t)
           S == {u \in V : Stitched(base, u) \in V /\ W(u) = BlocksSay(u, t)}
<1>1. ASSUME NEW v \in V, NEW x \in Body
      PROVE  StitchBlock(v, x) \in V
             /\ BlocksSay(StitchBlock(v, x), t) = Then(BlocksSay(v, t), BlockSays(x, t))
  <2>1. v \in Seq(Blocks) /\ x \in Blocks BY BodiesAreBlocks DEF Blocks
  <2>2. CASE x.kind = "table" /\ x.cont /\ v # <<>> /\ Last(v).kind = "table"
    <3>1. StitchBlock(v, x) = JoinLast(v, x) BY <2>2 DEF StitchBlock
    <3> QED BY <2>1, <2>2, <3>1, JoinTyped, JoinSays
  <2>3. CASE ~(x.kind = "table" /\ x.cont /\ v # <<>> /\ Last(v).kind = "table")
    <3>1. StitchBlock(v, x) = Append(v, x) BY <2>3 DEF StitchBlock
    <3> QED BY <2>1, <3>1, BlocksSayGrows
  <2> QED BY <2>2, <2>3
<1>2. base \in V /\ <<>> = base OBVIOUS
<1> HIDE DEF base
<1>3. base \in S
  <2>1. Stitched(base, <<>>) = base BY StitchBlockNone
  <2> HIDE DEF V
  <2> QED BY <1>2, <2>1
<1>4. ASSUME NEW u \in V, NEW x \in Body, u \in S PROVE Append(u, x) \in S
  <2> DEFINE v == Stitched(base, u)
             new == Append(u, x)
  <2>1. v \in V /\ BlocksSay(v, t) = BlocksSay(u, t) BY <1>4
  <2>2. StepsTo(Stitched(base, new), StitchBlock(v, x), V)
    <3>1. \A w \in V : \A e \in Body : StitchBlock(w, e) \in V BY <1>1
    <3> HIDE DEF V
    <3> QED BY <1>2, <3>1, StitchBlockGrows DEF V
  <2>3. u \in Seq(Blocks) /\ x \in Blocks BY BodiesAreBlocks DEF Blocks
  <2>4. BlocksSay(new, t) = Then(BlocksSay(u, t), BlockSays(x, t)) BY <2>3, BlocksSayGrows
  <2>5. new \in V BY AppendSays
  <2> HIDE DEF V, v, new
  <2>6. BlocksSay(StitchBlock(v, x), t) = Then(BlocksSay(v, t), BlockSays(x, t)) BY <1>1, <2>1
  <2>7. Stitched(base, new) \in V /\ BlocksSay(Stitched(base, new), t) = BlocksSay(new, t)
    BY <2>1, <2>2, <2>4, <2>6 DEF StepsTo
  <2> QED BY <2>5, <2>7 DEF new
<1>5. blocks \in S
  <2> HIDE DEF S
  <2>1. \A u \in Seq(Body) : \A x \in Body : u \in S => Append(u, x) \in S BY <1>4
  <2>2. <<>> \in S BY <1>2, <1>3
  <2> QED BY <2>1, <2>2, SeqInduction
<1> QED BY <1>5 DEF Stitch, Stitched, base

\* The pieces of a group say what its blocks say.
LEMMA GroupPiecesSay ==
  ASSUME NEW t \in BOOLEAN, NEW g \in Grouped
  PROVE  Same(PiecesSay(GroupPieces(g), t), BlocksSay(g.blocks, t), t)
<1> DEFINE blocks == Stitch(g.blocks)
<1>1. g.blocks \in Seq(Body) BY DEF Grouped
<1>2. blocks \in Seq(Body) /\ BlocksSay(blocks, t) = BlocksSay(g.blocks, t) BY <1>1, StitchTyped, StitchSays
<1>3. GroupPieces(g) = CutAll(g, <<>>, blocks) BY DEF GroupPieces, CutAll
<1> HIDE DEF blocks
<1>4. Same(PiecesSay(CutAll(g, <<>>, blocks), t), BlocksSay(blocks, t), t) BY <1>2, CutAllSays
<1> QED BY <1>2, <1>3, <1>4

\* The pieces of groups say what the groups say.
LEMMA PiecesOfSays ==
  ASSUME NEW t \in BOOLEAN, NEW blocks \in Seq(Grouped)
  PROVE  /\ PiecesOf(<<>>, blocks) \in Seq(Piece)
         /\ Same(PiecesSay(PiecesOf(<<>>, blocks), t), GroupsSay(blocks, t), t)
<1> DEFINE V == Seq(Piece)
           W(u) == PiecesSay(PiecesOf(<<>>, u), t)
           B(u) == GroupsSay(u, t)
           S == {u \in Seq(Grouped) : PiecesOf(<<>>, u) \in V /\ Same(W(u), B(u), t)}
<1>1. <<>> \in V /\ <<>> \in Seq(Grouped) OBVIOUS
<1>2. \A v \in V : \A x \in Grouped : PiecesOn(v, x) \in V
  <2>1. \A x \in Grouped : GroupPieces(x) \in V BY GroupPiecesTyped
  <2> QED BY <2>1 DEF PiecesOn
<1>3. <<>> \in S
  <2>1. PiecesOf(<<>>, <<>>) = <<>> BY PiecesOnNone
  <2>2. PiecesSay(<<>>, t) = <<>> /\ B(<<>>) = <<>> BY PiecesSayNone, GroupsSayNone
  <2>3. W(<<>>) = B(<<>>) BY <2>1, <2>2
  <2>4. Same(W(<<>>), B(<<>>), t) BY <2>3 DEF Same
  <2> HIDE DEF W, B
  <2> QED BY <1>1, <2>1, <2>4
<1>4. ASSUME NEW u \in Seq(Grouped), NEW x \in Grouped, u \in S PROVE Append(u, x) \in S
  <2> DEFINE v == PiecesOf(<<>>, u)
             c == GroupPieces(x)
  <2>1. v \in V /\ Same(W(u), B(u), t) BY <1>4
  <2>2. PiecesOf(<<>>, Append(u, x)) = PiecesOn(v, x) 
    <3> DEFINE base == <<>>
    <3>1. base \in V BY <1>1
    <3> HIDE DEF V, base
    <3>2. StepsTo(PiecesOf(base, Append(u, x)), PiecesOn(PiecesOf(base, u), x), V) BY <1>2, <3>1, PiecesOnGrows
    <3> QED BY <3>2 DEF base, StepsTo
  <2>3. c \in Seq(Piece) BY GroupPiecesTyped
  <2>4. PiecesOn(v, x) = v \o c BY DEF PiecesOn
  <2>5. W(u) = PiecesSay(v, t) OBVIOUS
  <2>6. Same(PiecesSay(c, t), BlocksSay(x.blocks, t), t) BY GroupPiecesSay
  <2> HIDE DEF v, c
  <2>7. v \o c \in Seq(Piece) /\ PiecesSay(v \o c, t) = Then(PiecesSay(v, t), PiecesSay(c, t))
    BY <2>1, <2>3, PiecesSayJoined
  <2>8. W(Append(u, x)) = Then(W(u), PiecesSay(c, t)) BY <2>2, <2>4, <2>5, <2>7
  <2>9. B(Append(u, x)) = Then(B(u), BlocksSay(x.blocks, t))
    BY GroupsSayGrows
  <2>10. PiecesSay(v, t) \in Seq(Ids) /\ PiecesSay(c, t) \in Seq(Ids) BY <2>1, <2>3, PiecesSayTyped
  <2>11. B(u) \in Seq(Ids) /\ BlocksSay(x.blocks, t) \in Seq(Ids)
    BY GroupsSayTyped, GroupTextTyped
  <2> HIDE DEF W, B
  <2>12. Same(Then(W(u), PiecesSay(c, t)), Then(B(u), BlocksSay(x.blocks, t)), t)
    BY <2>1, <2>5, <2>6, <2>10, <2>11, SameThen
  <2>13. PiecesOf(<<>>, Append(u, x)) \in V BY <2>2, <2>4, <2>7
  <2>14. Append(u, x) \in Seq(Grouped) BY AppendSays
  <2> QED BY <2>8, <2>9, <2>12, <2>13, <2>14
<1>5. blocks \in S
  <2> HIDE DEF S
  <2> QED BY <1>3, <1>4, SeqInduction
<1> QED BY <1>5

\* Blocks put into groups, after blocks that were.
GroupedOn(base, s) == FoldLeft(GroupBlock, base, s)

\* No block to group.
LEMMA GroupBlockNone ==
  ASSUME NEW base
  PROVE  GroupedOn(base, <<>>) = base
<1> DEFINE V == {base}
           none == [i \in 1..0 |-> [v \in V |-> GroupBlock(v, <<>>[i])]]
           it == GroupedOn(base, <<>>)
<1>1. 0 \in Nat /\ DOMAIN <<>> = 1..0 /\ \A i \in 1..0 : \A v \in V : GroupBlock(v, <<>>[i]) \in V
  OBVIOUS
<1>2. RunEnds(it, 0, V, base, none) BY <1>1, GroupBlockRuns DEF GroupedOn
<1> HIDE DEF none, it
<1>3. it = base BY <1>2 DEF RunEnds, IsRun
<1> QED BY <1>3 DEF it

\* ... and one block more.
LEMMA GroupBlockGrows ==
  ASSUME NEW V, NEW base \in V, NEW seq \in Seq(Blocks), NEW x \in Blocks,
         \A v \in V : \A e \in Blocks : GroupBlock(v, e) \in V
  PROVE  /\ GroupedOn(base, seq) \in V
         /\ StepsTo(GroupedOn(base, Append(seq, x)), GroupBlock(GroupedOn(base, seq), x), V)
<1> DEFINE n == Len(seq)
           m == n + 1
           all == Append(seq, x)
           one == [i \in 1..n |-> [v \in V |-> GroupBlock(v, seq[i])]]
           two == [i \in 1..m |-> [v \in V |-> GroupBlock(v, all[i])]]
           old == GroupedOn(base, seq)
           new == GroupedOn(base, all)
<1>1. n \in Nat /\ DOMAIN seq = 1..n /\ \A i \in 1..n : seq[i] \in Blocks OBVIOUS
<1>2. m \in Nat /\ DOMAIN all = 1..m /\ all[m] = x
      /\ (\A i \in 1..n : all[i] = seq[i]) /\ m = n + 1
  OBVIOUS
<1> HIDE DEF n, all, m
<1>3. \A i \in 1..n : \A v \in V : GroupBlock(v, seq[i]) \in V BY <1>1
<1>4. \A i \in 1..m : \A v \in V : GroupBlock(v, all[i]) \in V
  <2>1. \A i \in 1..m : all[i] \in Blocks
    <3>1. ASSUME NEW i \in 1..m PROVE all[i] \in Blocks
      <4>1. i \in 1..n \/ i = m BY <1>1, <1>2
      <4> QED BY <1>1, <1>2, <4>1
    <3> QED BY <3>1
  <2> QED BY <2>1
<1>5. RunEnds(old, n, V, base, one) BY <1>1, <1>3, GroupBlockRuns DEF GroupedOn
<1>6. RunEnds(new, m, V, base, two) 
  <2>1. m \in Nat /\ DOMAIN all = 1..m BY <1>2
  <2> QED BY <1>4, <2>1, GroupBlockRuns DEF GroupedOn
<1>7. Agree(one, two, n)
  <2>1. ASSUME NEW k \in 1..n PROVE one[k] = two[k]
    <3>1. k \in 1..m /\ all[k] = seq[k] BY <1>1, <1>2
    <3> QED BY <3>1
  <2> QED BY <2>1 DEF Agree
<1>8. \A v \in V : two[m][v] = GroupBlock(v, x)
  <2>1. m \in 1..m BY <1>1, <1>2
  <2> QED BY <1>2, <2>1
<1> HIDE DEF one, two, old, new
<1>9. old \in V /\ new = two[m][old] BY <1>1, <1>2, <1>5, <1>6, <1>7, RunGrows
<1>10. new = GroupBlock(old, x) BY <1>8, <1>9
<1>11. new \in V BY <1>9, <1>10
<1> QED BY <1>9, <1>10, <1>11 DEF old, new, all, StepsTo

\* An empty group says nothing.
LEMMA NewGroupSays ==
  ASSUME NEW t, NEW section \in Titles, NEW sub \in Titles
  PROVE  /\ NewGroup(section, sub) \in Grouped
         /\ BlocksSay(NewGroup(section, sub).blocks, t) = <<>>
<1> DEFINE g == NewGroup(section, sub)
<1>1. g \in Grouped /\ g.blocks = <<>> BY DEF NewGroup, Grouped
<1> HIDE DEF g
<1>2. BlocksSay(<<>>, t) = <<>> BY BlocksSayNone
<1>3. BlocksSay(g.blocks, t) = <<>> BY <1>1, <1>2
<1> QED BY <1>1, <1>3 DEF g

\* A block in a group says what it says after the others.
LEMMA GroupBlockSays ==
  ASSUME NEW t, NEW v \in Grouping, NEW b \in Blocks
  PROVE  GroupsSay(GroupBlock(v, b).groups, t) = Then(GroupsSay(v.groups, t), BlockSays(b, t))
<1> DEFINE old == v.groups
           B == BlockSays(b, t)
           new == GroupBlock(v, b).groups
<1>1. old \in Seq(Grouped) /\ v.section \in Titles BY DEF Grouping
<1>2. GroupsSay(old, t) \in Seq(Ids) BY <1>1, GroupsSayTyped
<1>3. CASE b.kind = "heading"
  <2> DEFINE top == b.level \in {1, 2}
             section == IF top THEN b.name ELSE v.section
             sub == IF top THEN NoName ELSE b.name
             g == NewGroup(section, sub)
  <2>1. b.name \in Names BY <1>3 DEF Blocks, Heading, Body, Prose, Table, Flow
  <2>2. section \in Titles /\ sub \in Titles BY <1>1, <2>1 DEF Titles
  <2>3. new = Append(old, g) BY <1>3 DEF GroupBlock
  <2> HIDE DEF section, sub, old, new
  <2>4. g \in Grouped /\ BlocksSay(g.blocks, t) = <<>> BY <2>2, NewGroupSays
  <2> HIDE DEF g
  <2>5. GroupsSay(new, t) = Then(GroupsSay(old, t), <<>>)
    <3>1. GroupsSay(Append(old, g), t) = Then(GroupsSay(old, t), BlocksSay(g.blocks, t))
      BY <1>1, <2>4, GroupsSayGrows
    <3> QED BY <2>3, <2>4, <3>1
  <2>6. B = <<>> BY <1>3 DEF BlockSays
  <2> QED BY <2>5, <2>6 DEF old, new
<1>4. CASE b.kind # "heading"
  <2> DEFINE none == <<>>
             g == NewGroup(v.section, NoName)
             groups == IF old = none THEN <<g>> ELSE old
             n == Len(groups)
             last == groups[n]
             more == Append(last.blocks, b)
             filled == [last EXCEPT !.blocks = more]
  <2>1. b \in Body BY <1>4 DEF Blocks, Heading
  <2>2. g \in Grouped /\ BlocksSay(g.blocks, t) = <<>>
    <3>1. NoName \in Titles BY DEF Titles
    <3> QED BY <1>1, <3>1, NewGroupSays
  <2>3. new = [groups EXCEPT ![n] = filled] BY <1>4 DEF GroupBlock
  <2>4. GroupsSay(groups, t) = GroupsSay(old, t)
    <3>1. CASE old = none
      <4>1. groups = Append(none, g) /\ none \in Seq(Grouped) BY <2>2, <3>1
      <4>2. GroupsSay(none, t) = <<>> BY GroupsSayNone
      <4>3. <<>> \in Seq(Ids) OBVIOUS
      <4>4. Then(<<>>, <<>>) = <<>> BY <4>3, ThenNone
      <4> HIDE DEF none, groups, g, old
      <4>5. GroupsSay(Append(none, g), t) = Then(GroupsSay(none, t), BlocksSay(g.blocks, t))
        BY <2>2, <4>1, GroupsSayGrows
      <4> QED BY <2>2, <3>1, <4>1, <4>2, <4>4, <4>5
    <3>2. CASE old # none BY <3>2
    <3> QED BY <3>1, <3>2
  <2>5. groups \in Seq(Grouped) /\ groups # <<>> BY <1>1, <2>2
  <2> HIDE DEF groups, new, old, B
  <2>6. n \in 1..n /\ last \in Grouped BY <2>5, LastOf
  <2>7. PICK front \in Seq(Grouped) : /\ groups = Append(front, last)
                                      /\ \A y \in Grouped : [groups EXCEPT ![n] = y] = Append(front, y)
    BY <2>5, LastOf
  <2> HIDE DEF n, last
  <2>8. last.blocks \in Seq(Body) BY <2>6 DEF Grouped
  <2>9. more \in Seq(Body) BY <2>1, <2>8
  <2>10. BlocksSay(more, t) = Then(BlocksSay(last.blocks, t), B)
    <3>1. last.blocks \in Seq(Blocks) BY <2>8, BodiesAreBlocks
    <3> QED BY <3>1, BlocksSayGrows DEF B
  <2> HIDE DEF more
  <2>11. filled \in Grouped /\ filled.blocks = more BY <2>6, <2>9 DEF Grouped
  <2> HIDE DEF filled
  <2>12. new = Append(front, filled) BY <2>3, <2>7, <2>11
  <2>13. GroupsSay(new, t) = Then(GroupsSay(front, t), Then(BlocksSay(last.blocks, t), B))
    <3>1. GroupsSay(Append(front, filled), t) = Then(GroupsSay(front, t), BlocksSay(filled.blocks, t))
      BY <2>11, GroupsSayGrows
    <3> QED BY <2>10, <2>11, <2>12, <3>1
  <2>14. GroupsSay(groups, t) = Then(GroupsSay(front, t), BlocksSay(last.blocks, t))
    <3>1. GroupsSay(Append(front, last), t) = Then(GroupsSay(front, t), BlocksSay(last.blocks, t))
      BY <2>6, GroupsSayGrows
    <3> QED BY <2>7, <3>1
  <2>15. GroupsSay(front, t) \in Seq(Ids) /\ BlocksSay(last.blocks, t) \in Seq(Ids) /\ B \in Seq(Ids)
    BY <2>6, GroupsSayTyped, GroupTextTyped, BlockTyped DEF B
  <2>16. Then(Then(GroupsSay(front, t), BlocksSay(last.blocks, t)), B)
           = Then(GroupsSay(front, t), Then(BlocksSay(last.blocks, t), B))
    BY <2>15, ThenThen
  <2>17. GroupsSay(new, t) = Then(GroupsSay(old, t), B) BY <2>4, <2>13, <2>14, <2>16
  <2> QED BY <2>17 DEF new, old, B
<1> QED BY <1>3, <1>4

\* Grouping loses nothing.
LEMMA GroupSays ==
  ASSUME NEW t, NEW blocks \in Seq(Blocks)
  PROVE  GroupsSay(Group(blocks), t) = BlocksSay(blocks, t)
<1> DEFINE V == Grouping
           base == [section |-> NoName, groups |-> <<>>]
           W(u) == GroupsSay(GroupedOn(base, u).groups, t)
           S == {u \in Seq(Blocks) : GroupedOn(base, u) \in V /\ W(u) = BlocksSay(u, t)}
<1>1. base \in V /\ base.groups = <<>> BY DEF Grouping, Titles
<1>2. GroupsSay(<<>>, t) = <<>> /\ BlocksSay(<<>>, t) = <<>> BY GroupsSayNone, BlocksSayNone
<1> HIDE DEF base
<1>3. <<>> \in S
  <2>1. GroupedOn(base, <<>>) = base BY GroupBlockNone
  <2>2. <<>> \in Seq(Blocks) OBVIOUS
  <2>3. W(<<>>) = BlocksSay(<<>>, t) BY <1>1, <1>2, <2>1
  <2> HIDE DEF V, W
  <2> QED BY <1>1, <2>1, <2>2, <2>3
<1>4. ASSUME NEW u \in Seq(Blocks), NEW x \in Blocks, u \in S PROVE Append(u, x) \in S
  <2> DEFINE v == GroupedOn(base, u)
             new == Append(u, x)
  <2>1. v \in V /\ GroupsSay(v.groups, t) = BlocksSay(u, t) BY <1>4
  <2>2. StepsTo(GroupedOn(base, new), GroupBlock(v, x), V)
    <3>1. \A w \in V : \A e \in Blocks : GroupBlock(w, e) \in V BY GroupBlockTyped DEF Blocks
    <3> HIDE DEF V
    <3> QED BY <1>1, <3>1, GroupBlockGrows
  <2>3. BlocksSay(new, t) = Then(BlocksSay(u, t), BlockSays(x, t)) BY BlocksSayGrows
  <2>4. new \in Seq(Blocks) BY AppendSays
  <2> HIDE DEF v, new
  <2>5. GroupsSay(GroupBlock(v, x).groups, t) = Then(GroupsSay(v.groups, t), BlockSays(x, t))
    BY <2>1, GroupBlockSays
  <2> HIDE DEF V
  <2>6. GroupedOn(base, new) \in V /\ W(new) = BlocksSay(new, t)
    BY <2>1, <2>2, <2>3, <2>5 DEF StepsTo
  <2> HIDE DEF W
  <2> QED BY <2>4, <2>6 DEF new
<1>5. blocks \in S
  <2> HIDE DEF S
  <2> QED BY <1>3, <1>4, SeqInduction
<1>6. Group(blocks) = GroupedOn(base, blocks).groups BY DEF Group, GroupedOn, base
<1> QED BY <1>5, <1>6

\* Blocks merged, after blocks that were.
Merged(base, s) == FoldLeft(MergeBlock, base, s)

\* No block to merge.
LEMMA MergeBlockNone ==
  ASSUME NEW base
  PROVE  Merged(base, <<>>) = base
<1> DEFINE V == {base}
           none == [i \in 1..0 |-> [v \in V |-> MergeBlock(v, <<>>[i])]]
           it == Merged(base, <<>>)
<1>1. 0 \in Nat /\ DOMAIN <<>> = 1..0 /\ \A i \in 1..0 : \A v \in V : MergeBlock(v, <<>>[i]) \in V
  OBVIOUS
<1>2. RunEnds(it, 0, V, base, none) BY <1>1, MergeBlockRuns DEF Merged
<1> HIDE DEF none, it
<1>3. it = base BY <1>2 DEF RunEnds, IsRun
<1> QED BY <1>3 DEF it

\* ... and one block more.
LEMMA MergeBlockGrows ==
  ASSUME NEW V, NEW base \in V, NEW seq \in Seq(Blocks), NEW x \in Blocks,
         \A v \in V : \A e \in Blocks : MergeBlock(v, e) \in V
  PROVE  /\ Merged(base, seq) \in V
         /\ StepsTo(Merged(base, Append(seq, x)), MergeBlock(Merged(base, seq), x), V)
<1> DEFINE n == Len(seq)
           m == n + 1
           all == Append(seq, x)
           one == [i \in 1..n |-> [v \in V |-> MergeBlock(v, seq[i])]]
           two == [i \in 1..m |-> [v \in V |-> MergeBlock(v, all[i])]]
           old == Merged(base, seq)
           new == Merged(base, all)
<1>1. n \in Nat /\ DOMAIN seq = 1..n /\ \A i \in 1..n : seq[i] \in Blocks OBVIOUS
<1>2. m \in Nat /\ DOMAIN all = 1..m /\ all[m] = x
      /\ (\A i \in 1..n : all[i] = seq[i]) /\ m = n + 1
  OBVIOUS
<1> HIDE DEF n, all, m
<1>3. \A i \in 1..n : \A v \in V : MergeBlock(v, seq[i]) \in V BY <1>1
<1>4. \A i \in 1..m : \A v \in V : MergeBlock(v, all[i]) \in V
  <2>1. \A i \in 1..m : all[i] \in Blocks
    <3>1. ASSUME NEW i \in 1..m PROVE all[i] \in Blocks
      <4>1. i \in 1..n \/ i = m BY <1>1, <1>2
      <4> QED BY <1>1, <1>2, <4>1
    <3> QED BY <3>1
  <2> QED BY <2>1
<1>5. RunEnds(old, n, V, base, one) BY <1>1, <1>3, MergeBlockRuns DEF Merged
<1>6. RunEnds(new, m, V, base, two) 
  <2>1. m \in Nat /\ DOMAIN all = 1..m BY <1>2
  <2> QED BY <1>4, <2>1, MergeBlockRuns DEF Merged
<1>7. Agree(one, two, n)
  <2>1. ASSUME NEW k \in 1..n PROVE one[k] = two[k]
    <3>1. k \in 1..m /\ all[k] = seq[k] BY <1>1, <1>2
    <3> QED BY <3>1
  <2> QED BY <2>1 DEF Agree
<1>8. \A v \in V : two[m][v] = MergeBlock(v, x)
  <2>1. m \in 1..m BY <1>1, <1>2
  <2> QED BY <1>2, <2>1
<1> HIDE DEF one, two, old, new
<1>9. old \in V /\ new = two[m][old] BY <1>1, <1>2, <1>5, <1>6, <1>7, RunGrows
<1>10. new = MergeBlock(old, x) BY <1>8, <1>9
<1>11. new \in V BY <1>9, <1>10
<1> QED BY <1>9, <1>10, <1>11 DEF old, new, all, StepsTo

\* Merging prose loses nothing.
LEMMA MergeSays ==
  ASSUME NEW t, NEW blocks \in Seq(Blocks)
  PROVE  /\ MergeProse(blocks) \in Seq(Blocks)
         /\ BlocksSay(MergeProse(blocks), t) = BlocksSay(blocks, t)
<1> DEFINE V == Seq(Blocks)
           base == <<>>
           W(u) == BlocksSay(Merged(base, u), t)
           S == {u \in V : Merged(base, u) \in V /\ W(u) = BlocksSay(u, t)}
<1>1. ASSUME NEW v \in V, NEW x \in Blocks
      PROVE  MergeBlock(v, x) \in V
             /\ BlocksSay(MergeBlock(v, x), t) = Then(BlocksSay(v, t), BlockSays(x, t))
  <2>1. CASE x.kind = "prose" /\ v # <<>> /\ Last(v).kind = "prose"
    <3>1. MergeBlock(v, x) = JoinLast(v, x) BY <2>1 DEF MergeBlock
    <3>2. x \in Body BY <2>1 DEF Blocks, Heading
    <3> QED BY <2>1, <3>1, <3>2, JoinSays
  <2>2. CASE ~(x.kind = "prose" /\ v # <<>> /\ Last(v).kind = "prose")
    <3>1. MergeBlock(v, x) = Append(v, x) BY <2>2 DEF MergeBlock
    <3> QED BY <3>1, BlocksSayGrows
  <2> QED BY <2>1, <2>2
<1>2. base \in V /\ <<>> = base OBVIOUS
<1> HIDE DEF base
<1>3. base \in S
  <2>1. Merged(base, <<>>) = base BY MergeBlockNone
  <2> HIDE DEF V
  <2> QED BY <1>2, <2>1
<1>4. ASSUME NEW u \in V, NEW x \in Blocks, u \in S PROVE Append(u, x) \in S
  <2> DEFINE v == Merged(base, u)
             new == Append(u, x)
  <2>1. v \in V /\ BlocksSay(v, t) = BlocksSay(u, t) BY <1>4
  <2>2. StepsTo(Merged(base, new), MergeBlock(v, x), V)
    <3>1. \A w \in V : \A e \in Blocks : MergeBlock(w, e) \in V BY <1>1
    <3> HIDE DEF V
    <3> QED BY <1>2, <3>1, MergeBlockGrows DEF V
  <2>3. BlocksSay(new, t) = Then(BlocksSay(u, t), BlockSays(x, t)) BY BlocksSayGrows
  <2>4. new \in V BY AppendSays
  <2> HIDE DEF V, v, new
  <2>5. BlocksSay(MergeBlock(v, x), t) = Then(BlocksSay(v, t), BlockSays(x, t)) BY <1>1, <2>1
  <2>6. Merged(base, new) \in V /\ BlocksSay(Merged(base, new), t) = BlocksSay(new, t)
    BY <2>1, <2>2, <2>3, <2>5 DEF StepsTo
  <2> QED BY <2>4, <2>6 DEF new
<1>5. blocks \in S
  <2> HIDE DEF S
  <2>1. \A u \in Seq(Blocks) : \A x \in Blocks : u \in S => Append(u, x) \in S BY <1>4
  <2>2. <<>> \in S BY <1>2, <1>3
  <2> QED BY <2>1, <2>2, SeqInduction
<1> QED BY <1>5 DEF MergeProse, Merged, base

-----------------------------------------------------------------------------
(* Reading a manual.                                                       *)

\* What stands on a page, its diagram among it, and what it says.
ReadItem == Item \cup [kind : {"diagram"}, lines : Seq(Line)]

ItemSays(item, t) == IF t /\ item.kind # "table" THEN <<>> ELSE LinesOf(item)

ItemsSay(items, t) == FlattenSeq([i \in DOMAIN items |-> ItemSays(items[i], t)])

\* An item says texts.
LEMMA ItemTyped == ASSUME NEW t, NEW item \in ReadItem PROVE ItemSays(item, t) \in Seq(Ids)
<1>1. <<>> \in Seq(Ids) OBVIOUS
<1>2. CASE item.kind = "prose"
  <2>1. item.line.id \in Ids BY <1>2 DEF ReadItem, Item, Line
  <2> DEFINE id == item.line.id
  <2>2. <<id>> \in Seq(Ids)
    <3> HIDE DEF id
    <3> QED BY <2>1 DEF id
  <2> QED BY <1>1, <1>2, <2>2 DEF ItemSays, LinesOf
<1>3. CASE item.kind = "table"
  <2>1. item.rows \in Seq(Line) BY <1>3 DEF ReadItem, Item
  <2> QED BY <1>1, <1>3, <2>1, TextsTyped DEF ItemSays, LinesOf
<1>4. CASE item.kind = "diagram"
  <2>1. item.lines \in Seq(Line) BY <1>4 DEF ReadItem, Item
  <2> QED BY <1>1, <1>4, <2>1, TextsTyped DEF ItemSays, LinesOf
<1>5. CASE item.kind \notin {"prose", "table", "diagram"} BY <1>1, <1>5 DEF ItemSays, LinesOf
<1> QED BY <1>2, <1>3, <1>4, <1>5

\* What items say, one item more.
LEMMA ItemsSayNone == \A t : ItemsSay(<<>>, t) = <<>>
<1> SUFFICES ASSUME NEW t PROVE ItemsSay(<<>>, t) = <<>> OBVIOUS
<1> DEFINE f == [i \in DOMAIN <<>> |-> ItemSays(<<>>[i], t)]
<1>1. f = <<>> OBVIOUS
<1>2. ItemsSay(<<>>, t) = FlattenSeq(f) BY DEF ItemsSay
<1> HIDE DEF f
<1> QED BY <1>1, <1>2, FlattenNone

\* One more item is said behind the others.
LEMMA ItemsSayGrows ==
  ASSUME NEW t, NEW s \in Seq(ReadItem), NEW x \in ReadItem
  PROVE  ItemsSay(Append(s, x), t) = Then(ItemsSay(s, t), ItemSays(x, t))
<1> DEFINE n == Len(s)
           all == Append(s, x)
           f == [i \in 1..n + 1 |-> ItemSays(all[i], t)]
           one == [i \in 1..n |-> f[i]]
           two == [i \in 1..n + 1 |-> f[i]]
<1>1. n \in Nat /\ DOMAIN s = 1..n /\ \A i \in 1..n : s[i] \in ReadItem OBVIOUS
<1>2. DOMAIN all = 1..n + 1 /\ all[n + 1] = x /\ \A i \in 1..n : all[i] = s[i] OBVIOUS
<1> HIDE DEF n, all
<1>3. \A i \in 1..n + 1 : f[i] \in Seq(Ids)
  <2>1. ASSUME NEW i \in 1..n + 1 PROVE f[i] \in Seq(Ids)
    <3>1. i \in 1..n \/ i = n + 1 BY <1>1
    <3>2. all[i] \in ReadItem BY <1>1, <1>2, <3>1
    <3>3. ItemSays(all[i], t) \in Seq(Ids) BY <3>2, ItemTyped
    <3> QED BY <3>3
  <2> QED BY <2>1
<1>4. ItemsSay(s, t) = FlattenSeq(one)
  <2>1. \A i \in 1..n : f[i] = ItemSays(s[i], t)
    <3>1. \A i \in 1..n : i \in 1..n + 1 BY <1>1
    <3> QED BY <1>2, <3>1
  <2> DEFINE g == [i \in DOMAIN s |-> ItemSays(s[i], t)]
  <2>2. one = g
    <3> HIDE DEF f
    <3> QED BY <1>1, <2>1
  <2>3. ItemsSay(s, t) = FlattenSeq(g) BY DEF ItemsSay
  <2> HIDE DEF one, g
  <2> QED BY <2>2, <2>3
<1>5. ItemsSay(all, t) = FlattenSeq(two)
  <2> DEFINE g == [i \in DOMAIN all |-> ItemSays(all[i], t)]
  <2>1. two = g BY <1>2
  <2>2. ItemsSay(all, t) = FlattenSeq(g) BY DEF ItemsSay
  <2> HIDE DEF two, g
  <2> QED BY <2>1, <2>2
<1>6. FlattenSeq(two) = Then(FlattenSeq(one), f[n + 1])
  <2> HIDE DEF f
  <2> QED BY <1>1, <1>3, FlattenGrows
<1>7. f[n + 1] = ItemSays(x, t)
  <2>1. n + 1 \in 1..n + 1 BY <1>1
  <2> QED BY <1>2, <2>1
<1> HIDE DEF one, two, f
<1> QED BY <1>4, <1>5, <1>6, <1>7 DEF all

\* What they say is a sequence of texts.
LEMMA ItemsSayTyped ==
  ASSUME NEW t, NEW s \in Seq(ReadItem)
  PROVE  ItemsSay(s, t) \in Seq(Ids)
<1> DEFINE S == {u \in Seq(ReadItem) : ItemsSay(u, t) \in Seq(Ids)}
<1>1. <<>> \in S
  <2>1. ItemsSay(<<>>, t) = <<>> BY ItemsSayNone
  <2> DEFINE none == <<>>
  <2>2. none \in Seq(ReadItem) /\ none \in Seq(Ids) /\ ItemsSay(none, t) = none BY <2>1
  <2> HIDE DEF none
  <2>3. none \in S BY <2>2
  <2> QED BY <2>3 DEF none
<1>2. ASSUME NEW u \in Seq(ReadItem), NEW x \in ReadItem, u \in S PROVE Append(u, x) \in S
  <2>1. ItemsSay(u, t) \in Seq(Ids) BY <1>2
  <2>2. ItemSays(x, t) \in Seq(Ids) BY ItemTyped
  <2>3. Then(ItemsSay(u, t), ItemSays(x, t)) \in Seq(Ids) BY <2>1, <2>2, ThenSays
  <2>4. ItemsSay(Append(u, x), t) \in Seq(Ids) BY <2>3, ItemsSayGrows
  <2>5. Append(u, x) \in Seq(ReadItem) BY AppendSays
  <2> QED BY <2>4, <2>5
<1>3. s \in S
  <2> HIDE DEF S
  <2> QED BY <1>1, <1>2, SeqInduction
<1> QED BY <1>3

\* A page says texts.
LEMMA PageTyped == ASSUME NEW t, NEW page \in Readable PROVE PageSays(page, t) \in Seq(Ids)
<1>1. page.items \in Seq(Item) /\ page.diagram \in Seq(Line) BY DEF Readable
<1>2. \A item \in Item : item \in ReadItem BY DEF ReadItem
<1>3. page.items \in Seq(ReadItem) BY <1>1, <1>2
<1> DEFINE diagram == [kind |-> "diagram", lines |-> page.diagram]
           items == PageItems(page)
<1>4. diagram \in ReadItem BY <1>1 DEF ReadItem
<1>5. items = page.items \/ items = Append(page.items, diagram) BY DEF PageItems
<1> HIDE DEF diagram
<1>6. Append(page.items, diagram) \in Seq(ReadItem) BY <1>3, <1>4, AppendSays
<1> HIDE DEF items
<1>7. items \in Seq(ReadItem) BY <1>3, <1>5, <1>6
<1>8. ItemsSay(items, t) \in Seq(Ids) BY <1>7, ItemsSayTyped
<1>9. PageSays(page, t) = ItemsSay(items, t) BY DEF PageSays, ItemsSay, ItemSays, items
<1> QED BY <1>8, <1>9

\* What pages say, one page more.
LEMMA ReadingNone == \A t : Reading(<<>>, t) = <<>>
<1> SUFFICES ASSUME NEW t PROVE Reading(<<>>, t) = <<>> OBVIOUS
<1> DEFINE f == [i \in DOMAIN <<>> |-> PageSays(<<>>[i], t)]
<1>1. f = <<>> OBVIOUS
<1>2. Reading(<<>>, t) = FlattenSeq(f) BY DEF Reading
<1> HIDE DEF f
<1> QED BY <1>1, <1>2, FlattenNone

\* One more page is said behind the others.
LEMMA ReadingGrows ==
  ASSUME NEW t, NEW s \in Seq(Readable), NEW x \in Readable
  PROVE  Reading(Append(s, x), t) = Then(Reading(s, t), PageSays(x, t))
<1> DEFINE n == Len(s)
           all == Append(s, x)
           f == [i \in 1..n + 1 |-> PageSays(all[i], t)]
           one == [i \in 1..n |-> f[i]]
           two == [i \in 1..n + 1 |-> f[i]]
<1>1. n \in Nat /\ DOMAIN s = 1..n /\ \A i \in 1..n : s[i] \in Readable OBVIOUS
<1>2. DOMAIN all = 1..n + 1 /\ all[n + 1] = x /\ \A i \in 1..n : all[i] = s[i] OBVIOUS
<1> HIDE DEF n, all
<1>3. \A i \in 1..n + 1 : f[i] \in Seq(Ids)
  <2>1. ASSUME NEW i \in 1..n + 1 PROVE f[i] \in Seq(Ids)
    <3>1. i \in 1..n \/ i = n + 1 BY <1>1
    <3>2. all[i] \in Readable BY <1>1, <1>2, <3>1
    <3>3. PageSays(all[i], t) \in Seq(Ids) BY <3>2, PageTyped
    <3> QED BY <3>3
  <2> QED BY <2>1
<1>4. Reading(s, t) = FlattenSeq(one)
  <2>1. \A i \in 1..n : f[i] = PageSays(s[i], t)
    <3>1. \A i \in 1..n : i \in 1..n + 1 BY <1>1
    <3> QED BY <1>2, <3>1
  <2> DEFINE g == [i \in DOMAIN s |-> PageSays(s[i], t)]
  <2>2. one = g
    <3> HIDE DEF f
    <3> QED BY <1>1, <2>1
  <2>3. Reading(s, t) = FlattenSeq(g) BY DEF Reading
  <2> HIDE DEF one, g
  <2> QED BY <2>2, <2>3
<1>5. Reading(all, t) = FlattenSeq(two)
  <2> DEFINE g == [i \in DOMAIN all |-> PageSays(all[i], t)]
  <2>1. two = g BY <1>2
  <2>2. Reading(all, t) = FlattenSeq(g) BY DEF Reading
  <2> HIDE DEF two, g
  <2> QED BY <2>1, <2>2
<1>6. FlattenSeq(two) = Then(FlattenSeq(one), f[n + 1])
  <2> HIDE DEF f
  <2> QED BY <1>1, <1>3, FlattenGrows
<1>7. f[n + 1] = PageSays(x, t)
  <2>1. n + 1 \in 1..n + 1 BY <1>1
  <2> QED BY <1>2, <2>1
<1> HIDE DEF one, two, f
<1> QED BY <1>4, <1>5, <1>6, <1>7 DEF all

\* What they say is a sequence of texts.
LEMMA ReadingTyped ==
  ASSUME NEW t, NEW s \in Seq(Readable)
  PROVE  Reading(s, t) \in Seq(Ids)
<1> DEFINE S == {u \in Seq(Readable) : Reading(u, t) \in Seq(Ids)}
<1>1. <<>> \in S
  <2>1. Reading(<<>>, t) = <<>> BY ReadingNone
  <2> DEFINE none == <<>>
  <2>2. none \in Seq(Readable) /\ none \in Seq(Ids) /\ Reading(none, t) = none BY <2>1
  <2> HIDE DEF none
  <2>3. none \in S BY <2>2
  <2> QED BY <2>3 DEF none
<1>2. ASSUME NEW u \in Seq(Readable), NEW x \in Readable, u \in S PROVE Append(u, x) \in S
  <2>1. Reading(u, t) \in Seq(Ids) BY <1>2
  <2>2. PageSays(x, t) \in Seq(Ids) BY PageTyped
  <2>3. Then(Reading(u, t), PageSays(x, t)) \in Seq(Ids) BY <2>1, <2>2, ThenSays
  <2>4. Reading(Append(u, x), t) \in Seq(Ids) BY <2>3, ReadingGrows
  <2>5. Append(u, x) \in Seq(Readable) BY AppendSays
  <2> QED BY <2>4, <2>5
<1>3. s \in S
  <2> HIDE DEF S
  <2> QED BY <1>1, <1>2, SeqInduction
<1> QED BY <1>3

\* An item becomes a block that says what it says.
LEMMA ParseItemSays ==
  ASSUME NEW t, NEW st \in Parsing, NEW item \in Item
  PROVE  BlocksSay(ParseItem(st, item).blocks, t)
           = Then(BlocksSay(st.blocks, t), ItemSays(item, t))
<1> DEFINE old == st.blocks
           new == ParseItem(st, item).blocks
<1>1. old \in Seq(Blocks) BY DEF Parsing, Blocks
<1>2. ASSUME NEW block \in Blocks, new = Append(old, block), BlockSays(block, t) = ItemSays(item, t)
      PROVE  BlocksSay(new, t) = Then(BlocksSay(old, t), ItemSays(item, t))
  <2> HIDE DEF old, new
  <2>1. BlocksSay(Append(old, block), t) = Then(BlocksSay(old, t), BlockSays(block, t))
    BY <1>1, BlocksSayGrows
  <2> QED BY <1>2, <2>1
<1>3. CASE item.kind = "heading"
  <2>1. item \in Blocks BY <1>3 DEF Item, Heading, Blocks
  <2>2. new = Append(old, item) BY <1>3 DEF ParseItem, Parsing
  <2>3. BlockSays(item, t) = ItemSays(item, t) BY <1>3 DEF BlockSays, ItemSays, LinesOf
  <2> QED BY <1>2, <2>1, <2>2, <2>3
<1>4. CASE item.kind = "caption"
  <2>1. new = old BY <1>4 DEF ParseItem, Parsing
  <2>2. ItemSays(item, t) = <<>> BY <1>4 DEF ItemSays, LinesOf
  <2>3. BlocksSay(old, t) \in Seq(Ids) BY <1>1, BlocksSayTyped
  <2> HIDE DEF old, new
  <2>4. Then(BlocksSay(old, t), <<>>) = BlocksSay(old, t) BY <2>3, ThenNone
  <2>5. BlocksSay(new, t) = Then(BlocksSay(old, t), ItemSays(item, t)) BY <2>1, <2>2, <2>4
  <2> QED BY <2>5 DEF old, new
<1>5. CASE item.kind = "prose"
  <2> DEFINE block == [kind |-> "prose", page |-> st.page, lines |-> <<item.line>>]
  <2>1. item.line \in Line BY <1>5 DEF Item
  <2>2. block \in Blocks BY <2>1 DEF Blocks, Body, Prose, Parsing
  <2>3. new = Append(old, block) BY <1>5 DEF ParseItem, Parsing
  <2>4. Texts(<<item.line>>) = <<item.line.id>> BY DEF Texts
  <2>5. BlockSays(block, t) = ItemSays(item, t) BY <1>5, <2>4 DEF BlockSays, ItemSays, LinesOf
  <2> HIDE DEF block
  <2> QED BY <1>2, <2>2, <2>3, <2>5
<1>6. CASE item.kind = "table"
  <2> DEFINE cont    == Continues(st, item)
             caption == IF cont THEN st.last.caption ELSE st.pending
             block   == [kind |-> "table", page |-> st.page, header |-> item.header,
                         caption |-> caption, cont |-> cont, lines |-> item.rows]
  <2>1. item.header \in Line /\ item.rows \in Seq(Line) BY <1>6 DEF Item
  <2>2. cont \in BOOLEAN /\ caption \in Titles BY DEF Continues, Parsing, NoTable, Titles
  <2>3. block \in Blocks
    <3> HIDE DEF cont, caption
    <3> QED BY <2>1, <2>2 DEF Blocks, Body, Table, Parsing
  <2>4. new = Append(old, block)
    <3>1. ParseItem(st, item)
            = [st EXCEPT !.blocks = Append(@, block),
                         !.tables = @ + 1,
                         !.last = IF cont THEN @ ELSE [header |-> item.header, caption |-> caption],
                         !.pending = IF cont THEN @ ELSE NoName]
      BY <1>6 DEF ParseItem, ParseTable
    <3> HIDE DEF block, cont, caption
    <3> QED BY <3>1 DEF Parsing
  <2>5. BlockSays(block, t) = ItemSays(item, t) BY <1>6 DEF BlockSays, ItemSays, LinesOf
  <2> HIDE DEF block
  <2> QED BY <1>2, <2>3, <2>4, <2>5
<1>7. item.kind \in {"heading", "caption", "prose", "table"} BY DEF Item
<1> QED BY <1>3, <1>4, <1>5, <1>6, <1>7

\* Items and pages parsed, after what was.
ItemsOn(base, s) == FoldLeft(ParseItem, base, s)

PagesOn(base, s) == FoldLeft(ParsePage, base, s)

\* No item to parse.
LEMMA ParseItemNone ==
  ASSUME NEW base
  PROVE  ItemsOn(base, <<>>) = base
<1> DEFINE V == {base}
           none == [i \in 1..0 |-> [v \in V |-> ParseItem(v, <<>>[i])]]
           it == ItemsOn(base, <<>>)
<1>1. 0 \in Nat /\ DOMAIN <<>> = 1..0 /\ \A i \in 1..0 : \A v \in V : ParseItem(v, <<>>[i]) \in V
  OBVIOUS
<1>2. RunEnds(it, 0, V, base, none) BY <1>1, ParseItemRuns DEF ItemsOn
<1> HIDE DEF none, it
<1>3. it = base BY <1>2 DEF RunEnds, IsRun
<1> QED BY <1>3 DEF it

\* ... and one item more.
LEMMA ParseItemGrows ==
  ASSUME NEW V, NEW base \in V, NEW seq \in Seq(Item), NEW x \in Item,
         \A v \in V : \A e \in Item : ParseItem(v, e) \in V
  PROVE  /\ ItemsOn(base, seq) \in V
         /\ StepsTo(ItemsOn(base, Append(seq, x)), ParseItem(ItemsOn(base, seq), x), V)
<1> DEFINE n == Len(seq)
           m == n + 1
           all == Append(seq, x)
           one == [i \in 1..n |-> [v \in V |-> ParseItem(v, seq[i])]]
           two == [i \in 1..m |-> [v \in V |-> ParseItem(v, all[i])]]
           old == ItemsOn(base, seq)
           new == ItemsOn(base, all)
<1>1. n \in Nat /\ DOMAIN seq = 1..n /\ \A i \in 1..n : seq[i] \in Item OBVIOUS
<1>2. m \in Nat /\ DOMAIN all = 1..m /\ all[m] = x
      /\ (\A i \in 1..n : all[i] = seq[i]) /\ m = n + 1
  OBVIOUS
<1> HIDE DEF n, all, m
<1>3. \A i \in 1..n : \A v \in V : ParseItem(v, seq[i]) \in V BY <1>1
<1>4. \A i \in 1..m : \A v \in V : ParseItem(v, all[i]) \in V
  <2>1. \A i \in 1..m : all[i] \in Item
    <3>1. ASSUME NEW i \in 1..m PROVE all[i] \in Item
      <4>1. i \in 1..n \/ i = m BY <1>1, <1>2
      <4> QED BY <1>1, <1>2, <4>1
    <3> QED BY <3>1
  <2> QED BY <2>1
<1>5. RunEnds(old, n, V, base, one) BY <1>1, <1>3, ParseItemRuns DEF ItemsOn
<1>6. RunEnds(new, m, V, base, two) 
  <2>1. m \in Nat /\ DOMAIN all = 1..m BY <1>2
  <2> QED BY <1>4, <2>1, ParseItemRuns DEF ItemsOn
<1>7. Agree(one, two, n)
  <2>1. ASSUME NEW k \in 1..n PROVE one[k] = two[k]
    <3>1. k \in 1..m /\ all[k] = seq[k] BY <1>1, <1>2
    <3> QED BY <3>1
  <2> QED BY <2>1 DEF Agree
<1>8. \A v \in V : two[m][v] = ParseItem(v, x)
  <2>1. m \in 1..m BY <1>1, <1>2
  <2> QED BY <1>2, <2>1
<1> HIDE DEF one, two, old, new
<1>9. old \in V /\ new = two[m][old] BY <1>1, <1>2, <1>5, <1>6, <1>7, RunGrows
<1>10. new = ParseItem(old, x) BY <1>8, <1>9
<1>11. new \in V BY <1>9, <1>10
<1> QED BY <1>9, <1>10, <1>11 DEF old, new, all, StepsTo

\* No page to parse.
LEMMA ParsePageNone ==
  ASSUME NEW base
  PROVE  PagesOn(base, <<>>) = base
<1> DEFINE V == {base}
           none == [i \in 1..0 |-> [v \in V |-> ParsePage(v, <<>>[i])]]
           it == PagesOn(base, <<>>)
<1>1. 0 \in Nat /\ DOMAIN <<>> = 1..0 /\ \A i \in 1..0 : \A v \in V : ParsePage(v, <<>>[i]) \in V
  OBVIOUS
<1>2. RunEnds(it, 0, V, base, none) BY <1>1, ParsePageRuns DEF PagesOn
<1> HIDE DEF none, it
<1>3. it = base BY <1>2 DEF RunEnds, IsRun
<1> QED BY <1>3 DEF it

\* ... and one page more.
LEMMA ParsePageGrows ==
  ASSUME NEW V, NEW base \in V, NEW seq \in Seq(Readable), NEW x \in Readable,
         \A v \in V : \A e \in Readable : ParsePage(v, e) \in V
  PROVE  /\ PagesOn(base, seq) \in V
         /\ StepsTo(PagesOn(base, Append(seq, x)), ParsePage(PagesOn(base, seq), x), V)
<1> DEFINE n == Len(seq)
           m == n + 1
           all == Append(seq, x)
           one == [i \in 1..n |-> [v \in V |-> ParsePage(v, seq[i])]]
           two == [i \in 1..m |-> [v \in V |-> ParsePage(v, all[i])]]
           old == PagesOn(base, seq)
           new == PagesOn(base, all)
<1>1. n \in Nat /\ DOMAIN seq = 1..n /\ \A i \in 1..n : seq[i] \in Readable OBVIOUS
<1>2. m \in Nat /\ DOMAIN all = 1..m /\ all[m] = x
      /\ (\A i \in 1..n : all[i] = seq[i]) /\ m = n + 1
  OBVIOUS
<1> HIDE DEF n, all, m
<1>3. \A i \in 1..n : \A v \in V : ParsePage(v, seq[i]) \in V BY <1>1
<1>4. \A i \in 1..m : \A v \in V : ParsePage(v, all[i]) \in V
  <2>1. \A i \in 1..m : all[i] \in Readable
    <3>1. ASSUME NEW i \in 1..m PROVE all[i] \in Readable
      <4>1. i \in 1..n \/ i = m BY <1>1, <1>2
      <4> QED BY <1>1, <1>2, <4>1
    <3> QED BY <3>1
  <2> QED BY <2>1
<1>5. RunEnds(old, n, V, base, one) BY <1>1, <1>3, ParsePageRuns DEF PagesOn
<1>6. RunEnds(new, m, V, base, two) 
  <2>1. m \in Nat /\ DOMAIN all = 1..m BY <1>2
  <2> QED BY <1>4, <2>1, ParsePageRuns DEF PagesOn
<1>7. Agree(one, two, n)
  <2>1. ASSUME NEW k \in 1..n PROVE one[k] = two[k]
    <3>1. k \in 1..m /\ all[k] = seq[k] BY <1>1, <1>2
    <3> QED BY <3>1
  <2> QED BY <2>1 DEF Agree
<1>8. \A v \in V : two[m][v] = ParsePage(v, x)
  <2>1. m \in 1..m BY <1>1, <1>2
  <2> QED BY <1>2, <2>1
<1> HIDE DEF one, two, old, new
<1>9. old \in V /\ new = two[m][old] BY <1>1, <1>2, <1>5, <1>6, <1>7, RunGrows
<1>10. new = ParsePage(old, x) BY <1>8, <1>9
<1>11. new \in V BY <1>9, <1>10
<1> QED BY <1>9, <1>10, <1>11 DEF old, new, all, StepsTo

\* A sequence of items of the layout is one of what stands on a page.
LEMMA ItemsAreRead ==
  ASSUME NEW items \in Seq(Item)
  PROVE  items \in Seq(ReadItem)
<1>1. \A item \in Item : item \in ReadItem BY DEF ReadItem
<1> QED BY <1>1

\* Items are parsed into blocks that say what they say.
LEMMA ItemsOnSay ==
  ASSUME NEW t, NEW base \in Parsing, NEW seq \in Seq(Item)
  PROVE  /\ ItemsOn(base, seq) \in Parsing
         /\ BlocksSay(ItemsOn(base, seq).blocks, t) = Then(BlocksSay(base.blocks, t), ItemsSay(seq, t))
<1> DEFINE V == Parsing
           P == BlocksSay(base.blocks, t)
           W(u) == BlocksSay(ItemsOn(base, u).blocks, t)
           S == {u \in Seq(Item) : ItemsOn(base, u) \in V /\ W(u) = Then(P, ItemsSay(u, t))}
<1>1. \A v \in V : v.blocks \in Seq(Blocks) BY DEF Parsing, Blocks
<1>2. P \in Seq(Ids) BY <1>1, BlocksSayTyped
<1>3. <<>> \in S
  <2>1. ItemsOn(base, <<>>) = base BY ParseItemNone
  <2>2. ItemsSay(<<>>, t) = <<>> BY ItemsSayNone
  <2>3. <<>> \in Seq(Item) OBVIOUS
  <2>4. W(<<>>) = P BY <2>1
  <2> HIDE DEF V, W, P
  <2>5. Then(P, <<>>) = P BY <1>2, ThenNone
  <2>6. ItemsOn(base, <<>>) \in V BY <2>1 DEF V
  <2> QED BY <2>2, <2>3, <2>4, <2>5, <2>6
<1>4. ASSUME NEW u \in Seq(Item), NEW x \in Item, u \in S PROVE Append(u, x) \in S
  <2> DEFINE v == ItemsOn(base, u)
             new == Append(u, x)
  <2>1. v \in V /\ BlocksSay(v.blocks, t) = Then(P, ItemsSay(u, t)) BY <1>4
  <2>2. StepsTo(ItemsOn(base, new), ParseItem(v, x), V)
    <3>1. \A w \in V : \A e \in Item : ParseItem(w, e) \in V BY ParseItemTyped
    <3>2. base \in V OBVIOUS
    <3> HIDE DEF V
    <3> QED BY <3>1, <3>2, ParseItemGrows
  <2>3. ItemsSay(new, t) = Then(ItemsSay(u, t), ItemSays(x, t))
    <3>1. u \in Seq(ReadItem) /\ x \in ReadItem BY ItemsAreRead DEF ReadItem
    <3> QED BY <3>1, ItemsSayGrows
  <2>4. new \in Seq(Item) BY AppendSays
  <2>5. ItemsSay(u, t) \in Seq(Ids) /\ ItemSays(x, t) \in Seq(Ids)
    <3>1. u \in Seq(ReadItem) /\ x \in ReadItem BY ItemsAreRead DEF ReadItem
    <3> QED BY <3>1, ItemsSayTyped, ItemTyped
  <2> HIDE DEF v, new, P
  <2>6. BlocksSay(ParseItem(v, x).blocks, t) = Then(BlocksSay(v.blocks, t), ItemSays(x, t))
    BY <2>1, ParseItemSays
  <2>7. Then(Then(P, ItemsSay(u, t)), ItemSays(x, t)) = Then(P, Then(ItemsSay(u, t), ItemSays(x, t)))
    BY <1>2, <2>5, ThenThen
  <2> HIDE DEF V
  <2>8. ItemsOn(base, new) \in V /\ W(new) = Then(P, ItemsSay(new, t))
    BY <2>1, <2>2, <2>3, <2>6, <2>7 DEF StepsTo
  <2> HIDE DEF W
  <2> QED BY <2>4, <2>8 DEF new
<1>5. seq \in S
  <2> HIDE DEF S
  <2> QED BY <1>3, <1>4, SeqInduction
<1> QED BY <1>5

\* So is a page with its diagram.
LEMMA ParsePageSays ==
  ASSUME NEW t, NEW st \in Parsing, NEW page \in Readable
  PROVE  BlocksSay(ParsePage(st, page).blocks, t)
           = Then(BlocksSay(st.blocks, t), PageSays(page, t))
<1> DEFINE base == [st EXCEPT !.page = @ + 1, !.tables = 0]
           items == page.items
           read == ItemsOn(base, items)
           block == [kind |-> "flowchart", page |-> read.page, lines |-> page.diagram,
                     marked |-> page.marked]
           diagram == [kind |-> "diagram", lines |-> page.diagram]
           P == BlocksSay(st.blocks, t)
           I == ItemsSay(items, t)
           D == ItemSays(diagram, t)
           new == ParsePage(st, page)
<1>1. items \in Seq(Item) /\ page.diagram \in Seq(Line) /\ page.marked \in 0..Len(page.diagram)
  BY DEF Readable
<1>2. base \in Parsing /\ base.blocks = st.blocks
  <2>1. st.page + 1 \in Nat /\ 0 \in Nat BY DEF Parsing
  <2> DEFINE next == st.page + 1
  <2>2. base = [blocks |-> st.blocks, pending |-> st.pending, last |-> st.last,
                page |-> next, tables |-> 0]
    <3>1. base = [st EXCEPT !.page = next, !.tables = 0] OBVIOUS
    <3> HIDE DEF next, base
    <3> QED BY <3>1 DEF Parsing
  <2> QED BY <2>1, <2>2 DEF Parsing
<1>3. st.blocks \in Seq(Blocks) BY DEF Parsing, Blocks
<1>4. PageSays(page, t) = ItemsSay(PageItems(page), t) BY DEF PageSays, ItemsSay, ItemSays
<1>5. new = IF page.diagram = <<>> THEN read
            ELSE [read EXCEPT !.blocks = Append(@, block)]
  BY DEF ParsePage, ItemsOn
<1> HIDE DEF base, items, new
<1>6. read \in Parsing /\ BlocksSay(read.blocks, t) = Then(P, I)
  <2>1. read \in Parsing /\ BlocksSay(read.blocks, t) = Then(BlocksSay(base.blocks, t), I)
    BY <1>1, <1>2, ItemsOnSay
  <2> QED BY <1>2, <2>1
<1> HIDE DEF read
<1>7. CASE page.diagram = <<>>
  <2>1. PageItems(page) = items BY <1>7 DEF PageItems, items
  <2>2. new = read BY <1>5, <1>7
  <2>3. BlocksSay(new.blocks, t) = Then(P, PageSays(page, t)) BY <1>4, <1>6, <2>1, <2>2
  <2> QED BY <2>3 DEF new
<1>8. CASE page.diagram # <<>>
  <2>1. PageItems(page) = Append(items, diagram) BY <1>8 DEF PageItems, items
  <2>2. block \in Blocks BY <1>1, <1>6, <1>8 DEF Flow, Parsing, Blocks, Body
  <2>3. new.blocks = Append(read.blocks, block)
    <3>1. new = [read EXCEPT !.blocks = Append(@, block)] BY <1>5, <1>8
    <3> HIDE DEF block, new
    <3> QED BY <1>6, <3>1 DEF Parsing
  <2>4. BlockSays(block, t) = D BY DEF BlockSays, ItemSays, LinesOf
  <2>5. items \in Seq(ReadItem) /\ diagram \in ReadItem BY <1>1, ItemsAreRead DEF ReadItem
  <2> HIDE DEF block, diagram
  <2>6. read.blocks \in Seq(Blocks) BY <1>6 DEF Parsing, Blocks
  <2>7. BlocksSay(Append(read.blocks, block), t) = Then(BlocksSay(read.blocks, t), BlockSays(block, t))
    BY <2>2, <2>6, BlocksSayGrows
  <2>8. ItemsSay(Append(items, diagram), t) = Then(I, D) BY <2>5, ItemsSayGrows
  <2>9. P \in Seq(Ids) BY <1>3, BlocksSayTyped
  <2>10. I \in Seq(Ids) BY <2>5, ItemsSayTyped
  <2>11. D \in Seq(Ids) BY <2>5, ItemTyped
  <2> HIDE DEF P, I, D
  <2>12. Then(Then(P, I), D) = Then(P, Then(I, D)) BY <2>9, <2>10, <2>11, ThenThen
  <2>13. BlocksSay(new.blocks, t) = Then(P, PageSays(page, t))
    BY <1>4, <1>6, <2>1, <2>3, <2>4, <2>7, <2>8, <2>12
  <2> QED BY <2>13 DEF new, P
<1> QED BY <1>7, <1>8

\* So are the pages of a manual.
LEMMA PagesOnSay ==
  ASSUME NEW t, NEW base \in Parsing, NEW seq \in Seq(Readable)
  PROVE  /\ PagesOn(base, seq) \in Parsing
         /\ BlocksSay(PagesOn(base, seq).blocks, t) = Then(BlocksSay(base.blocks, t), Reading(seq, t))
<1> DEFINE V == Parsing
           P == BlocksSay(base.blocks, t)
           W(u) == BlocksSay(PagesOn(base, u).blocks, t)
           S == {u \in Seq(Readable) : PagesOn(base, u) \in V /\ W(u) = Then(P, Reading(u, t))}
<1>1. \A v \in V : v.blocks \in Seq(Blocks) BY DEF Parsing, Blocks
<1>2. P \in Seq(Ids) BY <1>1, BlocksSayTyped
<1>3. <<>> \in S
  <2>1. PagesOn(base, <<>>) = base BY ParsePageNone
  <2>2. Reading(<<>>, t) = <<>> BY ReadingNone
  <2>3. <<>> \in Seq(Readable) OBVIOUS
  <2>4. W(<<>>) = P BY <2>1
  <2> HIDE DEF V, W, P
  <2>5. Then(P, <<>>) = P BY <1>2, ThenNone
  <2>6. PagesOn(base, <<>>) \in V BY <2>1 DEF V
  <2> QED BY <2>2, <2>3, <2>4, <2>5, <2>6
<1>4. ASSUME NEW u \in Seq(Readable), NEW x \in Readable, u \in S PROVE Append(u, x) \in S
  <2> DEFINE v == PagesOn(base, u)
             new == Append(u, x)
  <2>1. v \in V /\ BlocksSay(v.blocks, t) = Then(P, Reading(u, t)) BY <1>4
  <2>2. StepsTo(PagesOn(base, new), ParsePage(v, x), V)
    <3>1. \A w \in V : \A e \in Readable : ParsePage(w, e) \in V BY ParsePageTyped
    <3>2. base \in V OBVIOUS
    <3> HIDE DEF V
    <3> QED BY <3>1, <3>2, ParsePageGrows
  <2>3. Reading(new, t) = Then(Reading(u, t), PageSays(x, t))
    BY ReadingGrows
  <2>4. new \in Seq(Readable) BY AppendSays
  <2>5. Reading(u, t) \in Seq(Ids) /\ PageSays(x, t) \in Seq(Ids)
    BY ReadingTyped, PageTyped
  <2> HIDE DEF v, new, P
  <2>6. BlocksSay(ParsePage(v, x).blocks, t) = Then(BlocksSay(v.blocks, t), PageSays(x, t))
    BY <2>1, ParsePageSays
  <2>7. Then(Then(P, Reading(u, t)), PageSays(x, t)) = Then(P, Then(Reading(u, t), PageSays(x, t)))
    BY <1>2, <2>5, ThenThen
  <2> HIDE DEF V
  <2>8. PagesOn(base, new) \in V /\ W(new) = Then(P, Reading(new, t))
    BY <2>1, <2>2, <2>3, <2>6, <2>7 DEF StepsTo
  <2> HIDE DEF W
  <2> QED BY <2>4, <2>8 DEF new
<1>5. seq \in S
  <2> HIDE DEF S
  <2> QED BY <1>3, <1>4, SeqInduction
<1> QED BY <1>5

\* The blocks of a manual say what its pages say.
LEMMA ParseSays ==
  ASSUME NEW t, NEW pages \in Seq(Readable)
  PROVE  /\ Parse(pages) \in Seq(Blocks)
         /\ BlocksSay(Parse(pages), t) = Reading(pages, t)
<1> DEFINE base == [blocks |-> <<>>, pending |-> NoName, last |-> NoTable, page |-> 0, tables |-> 0]
           blocks == PagesOn(base, pages).blocks
<1>1. base \in Parsing /\ base.blocks = <<>> BY DEF Parsing, Titles
<1>2. Parse(pages) = MergeProse(blocks) BY DEF Parse, PagesOn
<1> HIDE DEF base
<1>3. PagesOn(base, pages) \in Parsing
      /\ BlocksSay(blocks, t) = Then(BlocksSay(base.blocks, t), Reading(pages, t))
  BY <1>1, PagesOnSay
<1>4. blocks \in Seq(Blocks) BY <1>3 DEF Parsing, Blocks
<1> HIDE DEF blocks
<1>5. BlocksSay(base.blocks, t) = <<>>
  <2>1. BlocksSay(<<>>, t) = <<>> BY BlocksSayNone
  <2> QED BY <1>1, <2>1
<1>6. Then(<<>>, Reading(pages, t)) = Reading(pages, t)
  <2>1. Reading(pages, t) \in Seq(Ids) BY ReadingTyped
  <2> QED BY <2>1, ThenNone
<1>7. BlocksSay(blocks, t) = Reading(pages, t) BY <1>3, <1>5, <1>6
<1>8. /\ MergeProse(blocks) \in Seq(Blocks)
      /\ BlocksSay(MergeProse(blocks), t) = BlocksSay(blocks, t)
  BY <1>4, MergeSays
<1> QED BY <1>2, <1>7, <1>8

\* The chunks say what their pieces say.
LEMMA ChunkedSays ==
  ASSUME NEW t, NEW pieces \in Seq(Piece)
  PROVE  Said(Chunked(pieces), t) = PiecesSay(pieces, t)
<1> DEFINE n == Len(pieces)
           chunks == Chunked(pieces)
           f == [i \in DOMAIN pieces |-> PieceSays(pieces[i], t)]
           g == [i \in DOMAIN chunks |->
                   IF t /\ chunks[i].kind # "table" THEN <<>> ELSE chunks[i].text]
<1>1. DOMAIN pieces = 1..n /\ DOMAIN chunks = 1..n
      /\ \A i \in 1..n : pieces[i] \in Piece
                         /\ chunks[i] = ChunkOf(pieces[i], i - 1, Lineage(pieces, i))
  BY DEF Chunked
<1> HIDE DEF n, chunks
<1>2. ASSUME NEW i \in 1..n
      PROVE  PieceSays(pieces[i], t)
               = IF t /\ chunks[i].kind # "table" THEN <<>> ELSE chunks[i].text
  <2> DEFINE p == pieces[i]
             c == chunks[i]
  <2>1. c.text = Texts(p.lines) /\ c.kind = ChunkKind(p) BY <1>1 DEF ChunkOf
  <2>2. c.kind = "table" <=> p.block.kind = "table" BY <2>1 DEF ChunkKind, SectionKind
  <2> HIDE DEF p, c
  <2>3. PieceSays(p, t) = IF t /\ c.kind # "table" THEN <<>> ELSE c.text
    BY <2>1, <2>2 DEF PieceSays
  <2> QED BY <2>3 DEF p, c
<1>3. f = g BY <1>1, <1>2
<1>4. Said(chunks, t) = FlattenSeq(g) BY DEF Said
<1>5. PiecesSay(pieces, t) = FlattenSeq(f) BY DEF PiecesSay
<1> HIDE DEF f, g
<1> QED BY <1>3, <1>4, <1>5 DEF chunks

\* Whatever the layout of a manual, its chunks say all that it says, in its order, if
\* what is said twice counts once, and no row of a table twice (chunk, parse).
THEOREM ChunkSaysAll ==
  ASSUME NEW pages \in Seq(Readable)
  PROVE  SaysAll(Chunk(pages), pages)
<1> DEFINE blocks == Parse(pages)
           groups == Group(blocks)
           pieces == Pieces(pages)
<1>1. ASSUME NEW t \in BOOLEAN PROVE Same(Said(Chunk(pages), t), Reading(pages, t), t)
  <2>1. blocks \in Seq(Blocks) /\ BlocksSay(blocks, t) = Reading(pages, t) BY ParseSays
  <2>2. groups \in Seq(Grouped) BY <2>1, GroupTyped DEF Blocks
  <2>3. pieces = PiecesOf(<<>>, groups) BY DEF Pieces, PiecesOf
  <2>4. pieces \in Seq(Piece) BY PiecesTyped
  <2>5. Chunk(pages) = Chunked(pieces) BY DEF Chunk
  <2> HIDE DEF blocks, pieces
  <2>6. GroupsSay(groups, t) = BlocksSay(blocks, t) BY <2>1, GroupSays
  <2> HIDE DEF groups
  <2>7. Same(PiecesSay(PiecesOf(<<>>, groups), t), GroupsSay(groups, t), t) BY <2>2, PiecesOfSays
  <2>8. Said(Chunked(pieces), t) = PiecesSay(pieces, t) BY <2>4, ChunkedSays
  <2> QED BY <2>1, <2>3, <2>5, <2>6, <2>7, <2>8
<1>2. FirstOccurrences(Said(Chunk(pages), FALSE)) = FirstOccurrences(Reading(pages, FALSE))
  <2>1. Same(Said(Chunk(pages), FALSE), Reading(pages, FALSE), FALSE) BY <1>1
  <2> QED BY <2>1 DEF Same
<1>3. Said(Chunk(pages), TRUE) = Reading(pages, TRUE)
  <2>1. Same(Said(Chunk(pages), TRUE), Reading(pages, TRUE), TRUE) BY <1>1
  <2> QED BY <2>1 DEF Same
<1> QED BY <1>2, <1>3 DEF SaysAll

-----------------------------------------------------------------------------
(* Whole documents.                                                        *)

\* Every document of some chunk is there from its first chunk to its last.
Whole(chunks, src) ==
  \A c \in ToSet(chunks) : \A k \in 1..Len(DraftAt(src[c.doc])) :
    \E b \in ToSet(chunks) : b.doc = c.doc /\ b.pos = k - 1

\* Before anything is read, nothing is missing.
LEMMA NoneWhole == ASSUME NEW src PROVE Whole(<<>>, src)
<1>1. ToSet(<<>>) = {} BY DEF ToSet
<1> QED BY <1>1 DEF Whole

\* A document that is read is put behind the others as a whole.
LEMMA WholeAppend ==
  ASSUME NEW out, NEW src \in Sources, FromSource(out, src), Whole(out, src), NEW d \in Documents,
         NEW e \in OnDisk, NEW cap \in Caps, \A c \in ToSet(out) : c.doc # d,
         NEW new, new = Filed(Draft(e, cap), d, e)
  PROVE  Whole(out \o new, [src EXCEPT ![d] = [edition |-> e, cap |-> cap]])
<1> DEFINE s == [edition |-> e, cap |-> cap]
           src2 == [src EXCEPT ![d] = s]
           draft == Draft(e, cap)
           m == Len(draft)
           all == out \o new
<1>1. WellChunked(draft) BY DraftWell
<1> HIDE DEF draft
<1>2. m \in Nat /\ DOMAIN draft = 1..m
      /\ \A i \in 1..m : DOMAIN draft[i] = Fields /\ draft[i].pos = i - 1
  <2>1. IsSeq(draft) BY <1>1 DEF WellChunked
  <2> QED BY <1>1, <2>1, SeqFacts DEF WellChunked, Fields
<1> HIDE DEF m
<1>3. new = [i \in 1..m |-> [draft[i] EXCEPT !.doc = d, !.edition = e]]
  BY <1>2 DEF draft, Filed
<1>4. IsSeq(new) /\ Len(new) = m BY <1>2, <1>3, SeqMade
<1>5. \A i \in 1..m : new[i].doc = d /\ new[i].pos = i - 1
  <2> SUFFICES ASSUME NEW i \in 1..m PROVE new[i].doc = d /\ new[i].pos = i - 1 OBVIOUS
  <2> DEFINE x == draft[i]
  <2>1. new[i] = [x EXCEPT !.doc = d, !.edition = e] BY <1>3
  <2>2. DOMAIN x = Fields /\ x.pos = i - 1 BY <1>2
  <2> HIDE DEF x
  <2> QED BY <2>1, <2>2 DEF Fields
<1>6. IsSeq(out) BY DEF FromSource
<1>7. ToSet(all) = ToSet(out) \cup ToSet(new) BY <1>4, <1>6, SetJoined
<1>8. \A c \in ToSet(new) : c.doc = d BY <1>4, <1>5, SeqFacts
<1>9. \A i \in 1..m : new[i] \in ToSet(new) BY <1>4, SeqFacts
<1> HIDE DEF all
<1>10. src2[d] = s /\ \A x \in Documents \ {d} : src2[x] = src[x] BY DEF Sources
<1>11. DraftAt(s) = draft BY DEF DraftAt, draft
<1> HIDE DEF src2, s
<1>12. \A c \in ToSet(out) : c.doc \in Documents \ {d}
  <2>1. \A i \in 1..Len(out) : out[i].doc \in Documents BY DEF FromSource
  <2> QED BY <1>6, <2>1, SeqFacts
<1>13. ASSUME NEW c \in ToSet(all), NEW k \in 1..Len(DraftAt(src2[c.doc]))
       PROVE  \E b \in ToSet(all) : b.doc = c.doc /\ b.pos = k - 1
  <2>1. CASE c \in ToSet(out)
    <3>1. src2[c.doc] = src[c.doc] BY <1>10, <1>12, <2>1
    <3>2. \E b \in ToSet(out) : b.doc = c.doc /\ b.pos = k - 1 BY <2>1, <3>1 DEF Whole
    <3> QED BY <1>7, <3>2
  <2>2. CASE c \in ToSet(new)
    <3>1. c.doc = d BY <1>8, <2>2
    <3>2. k \in 1..m BY <1>10, <1>11, <3>1 DEF m
    <3>3. new[k].doc = d /\ new[k].pos = k - 1 /\ new[k] \in ToSet(new) BY <1>5, <1>9, <3>2
    <3> QED BY <1>7, <3>1, <3>3
  <2> QED BY <1>7, <2>1, <2>2
<1>14. Whole(all, src2) BY <1>13 DEF Whole
<1> QED BY <1>14 DEF all, src2, s

\* Numbering the revisions takes nothing away.
LEMMA RevisedWhole ==
  ASSUME NEW chunks, NEW src \in Sources, FromSource(chunks, src), Whole(chunks, src)
  PROVE  Whole(Revised(chunks), src)
<1> DEFINE rev == Revised(chunks)
           n == Len(chunks)
<1>1. FromSource(rev, src) BY RevisedSource
<1>2. Len(rev) = n BY RevisedSource
<1>3. \A i \in 1..n : /\ rev[i] = [chunks[i] EXCEPT !.revision = rev[i].revision]
                      /\ DOMAIN chunks[i] = Fields
  BY RevisedSource
<1>4. IsSeq(chunks) /\ IsSeq(rev) BY <1>1 DEF FromSource
<1>5. \A i \in 1..n : rev[i] \in ToSet(rev) BY <1>2, <1>4, SeqFacts
<1>6. \A c \in ToSet(rev) : \E i \in 1..n : c = rev[i] BY <1>2, <1>4, SeqFacts
<1>7. \A c \in ToSet(chunks) : \E i \in 1..n : c = chunks[i] BY <1>4, SeqFacts
<1>8. \A i \in 1..n : chunks[i] \in ToSet(chunks) BY <1>4, SeqFacts
<1> HIDE DEF rev, n
<1>9. \A i \in 1..n : rev[i].doc = chunks[i].doc /\ rev[i].pos = chunks[i].pos
  BY <1>3 DEF Fields
<1>10. ASSUME NEW c \in ToSet(rev), NEW k \in 1..Len(DraftAt(src[c.doc]))
       PROVE  \E b \in ToSet(rev) : b.doc = c.doc /\ b.pos = k - 1
  <2>1. PICK i \in 1..n : c = rev[i] BY <1>6
  <2>2. c.doc = chunks[i].doc /\ chunks[i] \in ToSet(chunks) BY <1>8, <1>9, <2>1
  <2>3. PICK b \in ToSet(chunks) : b.doc = c.doc /\ b.pos = k - 1 BY <2>2 DEF Whole
  <2>4. PICK j \in 1..n : b = chunks[j] BY <1>7
  <2>5. rev[j] \in ToSet(rev) /\ rev[j].doc = c.doc /\ rev[j].pos = k - 1 BY <1>5, <1>9, <2>3, <2>4
  <2> QED BY <2>5
<1>11. Whole(rev, src) BY <1>10 DEF Whole
<1> QED BY <1>11 DEF rev

\* What a document's chunks say depends on their kinds and texts alone.
LEMMA SaidSame ==
  ASSUME NEW a, NEW b, IsSeq(a), IsSeq(b), Len(a) = Len(b),
         \A j \in 1..Len(b) : a[j].text = b[j].text /\ a[j].kind = b[j].kind, NEW t
  PROVE  Said(a, t) = Said(b, t)
<1> DEFINE n == Len(b)
           f == [i \in 1..n |-> IF t /\ a[i].kind # "table" THEN <<>> ELSE a[i].text]
           g == [i \in 1..n |-> IF t /\ b[i].kind # "table" THEN <<>> ELSE b[i].text]
<1>1. DOMAIN a = 1..n /\ DOMAIN b = 1..n BY SeqFacts
<1>2. Said(a, t) = FlattenSeq(f) BY <1>1 DEF Said
<1>3. Said(b, t) = FlattenSeq(g) BY <1>1 DEF Said
<1> HIDE DEF n
<1>4. f = g BY DEF n
<1> QED BY <1>2, <1>3, <1>4

\* The chunks of a document are its draft.
LEMMA DocumentWhole ==
  ASSUME NEW chunks, NEW src \in Sources, FromSource(chunks, src), Whole(chunks, src),
         NEW c \in ToSet(chunks), NEW d, d = c.doc,
         NEW s, s = ChunksIn(chunks, d), NEW draft, draft = DraftAt(src[d])
  PROVE  /\ IsSeq(s) /\ IsSeq(draft) /\ Len(s) = Len(draft)
         /\ \A j \in 1..Len(draft) : s[j].text = draft[j].text /\ s[j].kind = draft[j].kind
<1>1. InOrder(s, d, chunks) BY ChunksInOrder
<1>2. IsSeq(s) /\ \A j \in 1..Len(s) : s[j].pos = j - 1 /\ s[j].doc = d /\ s[j] \in ToSet(chunks)
  BY <1>1 DEF InOrder
<1>3. IsSeq(chunks) BY DEF FromSource
<1>4. \A x \in ToSet(chunks) : \E i \in 1..Len(chunks) : x = chunks[i] BY <1>3, SeqFacts
<1>5. Len(s) \in Nat BY <1>2, SeqFacts
<1>6. d \in Documents
  <2>1. \A i \in 1..Len(chunks) : chunks[i].doc \in Documents BY DEF FromSource
  <2> QED BY <1>4, <2>1
<1>7. IsSeq(draft) /\ Len(draft) \in Nat
  <2>1. src[d].edition \in OnDisk /\ src[d].cap \in Caps BY <1>6 DEF Sources
  <2>2. WellChunked(draft) BY <2>1, DraftWell DEF DraftAt
  <2> QED BY <2>2, SeqFacts DEF WellChunked
<1>8. ASSUME NEW j \in 1..Len(s)
      PROVE  j \in 1..Len(draft) /\ s[j].text = draft[j].text /\ s[j].kind = draft[j].kind
  <2>1. PICK i \in 1..Len(chunks) : s[j] = chunks[i] BY <1>2, <1>4
  <2>2. chunks[i].doc = d /\ chunks[i].pos + 1 = j BY <1>2, <1>5, <2>1
  <2>3. chunks[i].pos + 1 \in 1..Len(DraftAt(src[chunks[i].doc])) BY DEF FromSource
  <2>4. chunks[i].text = DraftAt(src[chunks[i].doc])[chunks[i].pos + 1].text BY SourceChunk
  <2>5. chunks[i].kind = DraftAt(src[chunks[i].doc])[chunks[i].pos + 1].kind BY SourceChunk
  <2> QED BY <2>1, <2>2, <2>3, <2>4, <2>5
<1>9. ASSUME NEW k \in 1..Len(draft) PROVE k \in 1..Len(s)
  <2>1. PICK b \in ToSet(chunks) : b.doc = d /\ b.pos = k - 1 BY <1>9 DEF Whole
  <2>2. b \in ToSet(s) BY <1>3, <2>1, ChunksInAll
  <2>3. PICK j \in 1..Len(s) : b = s[j] BY <1>2, <2>2, SeqFacts
  <2>4. k - 1 = j - 1 BY <1>2, <2>1, <2>3
  <2>5. k = j BY <1>5, <1>7, <2>4
  <2> QED BY <2>5
<1>10. Len(s) = Len(draft)
  <2>1. Len(s) > Len(draft) => Len(s) \in 1..Len(draft)
    <3>1. Len(s) > Len(draft) => Len(s) \in 1..Len(s) BY <1>5, <1>7
    <3> QED BY <1>8, <3>1
  <2>2. Len(draft) > Len(s) => Len(draft) \in 1..Len(s)
    <3>1. Len(draft) > Len(s) => Len(draft) \in 1..Len(draft) BY <1>5, <1>7
    <3> QED BY <1>9, <3>1
  <2> QED BY <1>5, <1>7, <2>1, <2>2
<1> QED BY <1>2, <1>7, <1>8, <1>10

\* The chunks of a document say all that it says.
LEMMA DocumentSaysAll ==
  ASSUME NEW chunks, NEW src \in Sources, FromSource(chunks, src), Whole(chunks, src),
         NEW c \in ToSet(chunks)
  PROVE  /\ src[c.doc].edition = c.edition /\ src[c.doc].cap \in Caps
         /\ SaysAll(ChunksIn(chunks, c.doc), ShownPages(src[c.doc].edition, src[c.doc].cap))
<1> DEFINE d == c.doc
           s == ChunksIn(chunks, d)
           e == src[d].edition
           cap == src[d].cap
           draft == DraftAt(src[d])
           pages == ShownPages(e, cap)
<1>1. PICK i \in 1..Len(chunks) : c = chunks[i] BY SeqFacts DEF FromSource
<1>2. e \in OnDisk /\ cap \in Caps /\ c.edition = e BY <1>1, SourceChunk
<1>3. pages \in Seq(Readable) BY <1>2, ShownReadable
<1>4. draft = Chunk(pages) BY DEF DraftAt, Draft
<1> HIDE DEF pages
<1>5. SaysAll(draft, pages)
  <2>1. SaysAll(Chunk(pages), pages) BY <1>3, ChunkSaysAll
  <2> QED BY <1>4, <2>1
<1> HIDE DEF s, draft, e, cap, d
<1>6. d = c.doc /\ s = ChunksIn(chunks, d) /\ draft = DraftAt(src[d]) BY DEF s, draft, d
<1>7. /\ IsSeq(s) /\ IsSeq(draft) /\ Len(s) = Len(draft)
      /\ \A j \in 1..Len(draft) : s[j].text = draft[j].text /\ s[j].kind = draft[j].kind
  BY <1>6, DocumentWhole
<1>8. \A t \in BOOLEAN : Said(s, t) = Said(draft, t) BY <1>7, SaidSame
<1>9. SaysAll(s, pages) BY <1>5, <1>8 DEF SaysAll
<1> QED BY <1>2, <1>9 DEF d, s, e, cap, pages

\* Chunks that were read, document by document, from manuals on disk.
DrawnFrom(chunks, src) == FromSource(chunks, src) /\ Whole(chunks, src)

Drawn(chunks) == \E src \in Sources : DrawnFrom(chunks, src)

-----------------------------------------------------------------------------
(* Groups and points that make up whole documents.                         *)

\* Points, one for each chunk of their documents but those that are still in groups.
OnePointEach(chunks, groups, points) ==
  /\ {p.chunk : p \in points} \cup In(groups) = ToSet(chunks)
  /\ {p.chunk : p \in points} \cap In(groups) = {} /\ Apart(groups)
  /\ \A p, q \in points : p.chunk = q.chunk => p = q

Stands(chunks) == Drawn(chunks) /\ Shelved(chunks)

MakeUp(groups, points) == \E chunks : Stands(chunks) /\ OnePointEach(chunks, groups, points)

\* When a group is embedded, each of its chunks gets one point.
LEMMA GroupBecomesPoints ==
  ASSUME NEW groups, IsSeq(groups), groups # <<>>, NEW points, MakeUp(groups, points), NEW context,
         NEW g, g = Head(groups), IsSeq(g)
  PROVE  MakeUp(Tail(groups), points \cup Points(g, context))
<1> DEFINE rest == Tail(groups)
           new == Points(g, context)
           old == {p.chunk : p \in points}
           all == {p.chunk : p \in points \cup new}
           n == Len(groups)
           m == Len(rest)
<1>1. PICK chunks : Stands(chunks) /\ OnePointEach(chunks, groups, points) BY DEF MakeUp
<1>2. n \in Nat /\ n # 0 /\ g = groups[1] /\ m = n - 1 /\ IsSeq(rest)
      /\ \A i \in 1..m : rest[i] = groups[i + 1]
  <2>1. n \in Nat BY SeqFacts
  <2>2. n # 0 BY DEF IsSeq
  <2> QED BY <2>1, <2>2, SeqTail
<1> HIDE DEF n, m, rest
<1>3. {p.chunk : p \in new} = ToSet(g)
  <2>1. DOMAIN g = 1..Len(g) BY SeqFacts
  <2>2. \A p \in new : \E i \in 1..Len(g) : p.chunk = g[i] BY <2>1 DEF Points
  <2>3. \A i \in 1..Len(g) : \E p \in new : p.chunk = g[i]
    <3> SUFFICES ASSUME NEW i \in 1..Len(g) PROVE \E p \in new : p.chunk = g[i] OBVIOUS
    <3> DEFINE p == [id |-> <<g[i].doc, g[i].pos>>, chunk |-> g[i], context |-> context]
    <3>1. p \in new BY <2>1 DEF Points
    <3>2. p.chunk = g[i] OBVIOUS
    <3> HIDE DEF p, new
    <3> QED BY <3>1, <3>2
  <2> HIDE DEF new
  <2>4. \A x \in ToSet(g) : \E i \in 1..Len(g) : x = g[i] BY SeqFacts
  <2>5. \A i \in 1..Len(g) : g[i] \in ToSet(g) BY SeqFacts
  <2> DEFINE C == {p.chunk : p \in new}
  <2>6. (\A x \in C : \E p \in new : x = p.chunk) /\ \A p \in new : p.chunk \in C OBVIOUS
  <2> HIDE DEF C
  <2>7. \A x : x \in C => x \in ToSet(g) BY <2>2, <2>5, <2>6
  <2>8. \A x : x \in ToSet(g) => x \in C BY <2>3, <2>4, <2>6
  <2>9. C = ToSet(g) BY <2>7, <2>8
  <2> QED BY <2>9 DEF C
<1>4. \A p, q \in new : p.chunk = q.chunk => p = q
  <2> SUFFICES ASSUME NEW p \in new, NEW q \in new, p.chunk = q.chunk PROVE p = q OBVIOUS
  <2>1. PICK i \in DOMAIN g :
          p = [id |-> <<g[i].doc, g[i].pos>>, chunk |-> g[i], context |-> context]
    BY DEF Points
  <2>2. PICK j \in DOMAIN g :
          q = [id |-> <<g[j].doc, g[j].pos>>, chunk |-> g[j], context |-> context]
    BY DEF Points
  <2>3. g[i] = g[j] BY <2>1, <2>2
  <2> QED BY <2>1, <2>2, <2>3
<1> HIDE DEF new
<1>5. all = old \cup ToSet(g) BY <1>3
<1>6. In(groups) = ToSet(g) \cup In(rest) /\ ToSet(g) \cap In(rest) = {} /\ Apart(rest)
  <2>1. Apart(groups) BY <1>1 DEF OnePointEach
  <2>2. \A i, j \in 1..n : \A c : c \in ToSet(groups[i]) /\ c \in ToSet(groups[j]) => i = j
    BY <2>1 DEF Apart, n
  <2>3. \A c : c \in In(groups) <=> \E i \in 1..n : c \in ToSet(groups[i]) BY DEF In, n
  <2>4. \A c : c \in In(rest) <=> \E i \in 1..m : c \in ToSet(rest[i]) BY DEF In, m
  <2>5. 1 \in 1..n /\ \A i \in 1..m : i + 1 \in 1..n /\ i + 1 # 1 BY <1>2
  <2>6. \A i \in 1..n : i = 1 \/ (i - 1 \in 1..m /\ (i - 1) + 1 = i) BY <1>2
  <2>7. ToSet(g) \cap In(rest) = {} BY <1>2, <2>2, <2>4, <2>5
  <2>8. In(groups) = ToSet(g) \cup In(rest)
    <3>1. \A c : c \in In(groups) => c \in ToSet(g) \cup In(rest)
      <4> SUFFICES ASSUME NEW c, c \in In(groups) PROVE c \in ToSet(g) \cup In(rest) OBVIOUS
      <4>1. PICK i \in 1..n : c \in ToSet(groups[i]) BY <2>3
      <4>2. CASE i = 1 BY <1>2, <4>1, <4>2
      <4>3. CASE i # 1
        <5>1. rest[i - 1] = groups[i] /\ i - 1 \in 1..m BY <1>2, <2>6, <4>3
        <5> QED BY <2>4, <4>1, <5>1
      <4> QED BY <4>2, <4>3
    <3>2. \A c : c \in ToSet(g) => c \in In(groups) BY <1>2, <2>3, <2>5
    <3>3. \A c : c \in In(rest) => c \in In(groups) BY <1>2, <2>3, <2>4, <2>5
    <3> QED BY <3>1, <3>2, <3>3
  <2>9. Apart(rest)
    <3>1. ASSUME NEW i \in 1..m, NEW j \in 1..m, NEW c, c \in ToSet(rest[i]), c \in ToSet(rest[j])
          PROVE  i = j
      <4>1. i + 1 = j + 1 BY <1>2, <2>2, <2>5, <3>1
      <4> QED BY <1>2, <4>1
    <3> QED BY <3>1 DEF Apart, m
  <2> QED BY <2>7, <2>8, <2>9
<1>7. OnePointEach(chunks, rest, points \cup new)
  <2>1. old \cup In(groups) = ToSet(chunks) /\ old \cap In(groups) = {}
        /\ \A p, q \in points : p.chunk = q.chunk => p = q
    BY <1>1 DEF OnePointEach
  <2>2. \A p \in points : p.chunk \notin ToSet(g)
    <3>1. \A p \in points : p.chunk \in old OBVIOUS
    <3> HIDE DEF old
    <3> QED BY <1>6, <2>1, <3>1
  <2>3. \A p \in new : p.chunk \in ToSet(g)
    <3>1. \A p \in new : p.chunk \in {x.chunk : x \in new} OBVIOUS
    <3> QED BY <1>3, <3>1
  <2>4. \A p, q \in points \cup new : p.chunk = q.chunk => p = q BY <1>4, <2>1, <2>2, <2>3
  <2> HIDE DEF old
  <2>5. all \cup In(rest) = ToSet(chunks) /\ all \cap In(rest) = {} BY <1>5, <1>6, <2>1
  <2> QED BY <1>6, <2>4, <2>5 DEF OnePointEach
<1> QED BY <1>1, <1>7 DEF MakeUp, rest, new
\* The chunks of n points at their positions, and what BuildIsWhole says of them.
AtPositions(points, n) == [k \in 1..n |-> (CHOOSE p \in points : p.chunk.pos = k - 1).chunk]

OneEdition(d, points, n, said) ==
  /\ {p.chunk.pos : p \in points} = 0..n - 1
  /\ \E e \in Editions[d], cap \in AnyCaptions :
       (\A p \in points : p.chunk.edition = e) /\ SaysAll(said, ShownPages(e, cap))

\* Points for whole documents are, document by document, what one edition says.
LEMMA PointsSayAll ==
  ASSUME NEW all, MakeUp(<<>>, all), NEW d, NEW points, points = {p \in all : p.chunk.doc = d},
         points # {}, NEW n, n = Cardinality(points), NEW said, said = AtPositions(points, n)
  PROVE  OneEdition(d, points, n, said)
<1>1. PICK chunks : Stands(chunks) /\ OnePointEach(chunks, <<>>, all) BY DEF MakeUp
<1>2. PICK src \in Sources : FromSource(chunks, src) /\ Whole(chunks, src)
  BY <1>1 DEF Stands, Drawn, DrawnFrom
<1> DEFINE C == ToSet(chunks)
           s == ChunksIn(chunks, d)
           m == Len(s)
           e == src[d].edition
           cap == src[d].cap
<1>3. /\ \A p \in all : p.chunk \in C
      /\ \A c \in C : \E p \in all : p.chunk = c
      /\ \A p, q \in all : p.chunk = q.chunk => p = q
  <2> DEFINE A == {p.chunk : p \in all}
  <2>1. (\A x \in A : \E p \in all : x = p.chunk) /\ \A p \in all : p.chunk \in A OBVIOUS
  <2>2. A \cup In(<<>>) = C /\ \A p, q \in all : p.chunk = q.chunk => p = q
    BY <1>1 DEF OnePointEach
  <2> HIDE DEF A, C
  <2>3. A = C BY <2>2, InNone
  <2> QED BY <2>1, <2>2, <2>3
<1>4. IsSeq(chunks) BY <1>2 DEF FromSource
<1>5. \A c \in C : \E i \in 1..Len(chunks) : c = chunks[i] BY <1>4, SeqFacts
<1>6. \A c \in C, b \in C : c.doc = b.doc /\ c.pos = b.pos => c = b
  <2>1. \A i, j \in 1..Len(chunks) :
          chunks[i].doc = chunks[j].doc /\ chunks[i].pos = chunks[j].pos => i = j
    BY <1>2 DEF FromSource
  <2> HIDE DEF C
  <2> QED BY <1>5, <2>1
<1>7. PICK p0 \in points : TRUE OBVIOUS
<1>8. p0.chunk \in C /\ p0.chunk.doc = d BY <1>3
<1>9. /\ src[d].edition = p0.chunk.edition /\ cap \in Caps
      /\ SaysAll(s, ShownPages(e, cap))
  BY <1>2, <1>8, DocumentSaysAll
<1>10. InOrder(s, d, chunks) BY <1>2, ChunksInOrder
<1>11. IsSeq(s) /\ m \in Nat
       /\ \A j \in 1..m : s[j].pos = j - 1 /\ s[j].doc = d /\ s[j] \in C
  BY <1>10, SeqFacts DEF InOrder
<1>12. \A c \in C : c.doc = d => \E j \in 1..m : c = s[j]
  <2>1. \A c \in C : c.doc = d => c \in ToSet(s) BY <1>4, ChunksInAll
  <2>2. \A c \in ToSet(s) : \E j \in 1..m : c = s[j] BY <1>11, SeqFacts
  <2> HIDE DEF C, s, m
  <2> QED BY <2>1, <2>2
<1>13. ASSUME NEW p \in points PROVE p.chunk.edition = e /\ e \in Editions[d]
  <2>1. p.chunk \in C /\ p.chunk.doc = d BY <1>3
  <2>2. src[p.chunk.doc].edition = p.chunk.edition BY <1>2, <2>1, DocumentSaysAll
  <2>3. p.chunk.edition \in Editions[p.chunk.doc] BY <1>1, <2>1 DEF Stands, Shelved
  <2> QED BY <2>1, <2>2, <2>3
<1> HIDE DEF C, s, m, e, cap
<1>14. \A p \in points : p \in all /\ p.chunk.doc = d OBVIOUS
<1>15. \A j \in 1..m : \E p \in points : p.chunk = s[j]
  <2> SUFFICES ASSUME NEW j \in 1..m PROVE \E p \in points : p.chunk = s[j] OBVIOUS
  <2>1. PICK p \in all : p.chunk = s[j] BY <1>3, <1>11
  <2>2. p \in points BY <1>11, <2>1
  <2> QED BY <2>1, <2>2
<1>16. \A p \in points : \E j \in 1..m : p.chunk = s[j]
  <2> SUFFICES ASSUME NEW p \in points PROVE \E j \in 1..m : p.chunk = s[j] OBVIOUS
  <2>1. p.chunk \in C /\ p.chunk.doc = d BY <1>3, <1>14
  <2> QED BY <1>12, <2>1
<1> DEFINE f == [j \in 1..m |-> CHOOSE p \in points : p.chunk.pos = j - 1]
<1>17. ASSUME NEW j \in 1..m PROVE f[j] \in points /\ f[j].chunk = s[j]
  <2>1. PICK p \in points : p.chunk = s[j] BY <1>15
  <2>2. p.chunk.pos = j - 1 BY <1>11, <2>1
  <2>3. f[j] \in points /\ f[j].chunk.pos = j - 1 BY <2>1, <2>2
  <2> HIDE DEF f
  <2>4. f[j].chunk \in C /\ f[j].chunk.doc = d BY <1>3, <1>14, <2>3
  <2>5. f[j].chunk = s[j] BY <1>6, <1>11, <2>3, <2>4
  <2> QED BY <2>3, <2>5
<1>18. m = n
  <2>1. f \in [1..m -> points] BY <1>17
  <2>2. ASSUME NEW i \in 1..m, NEW j \in 1..m, f[i] = f[j] PROVE i = j
    <3>1. s[i].pos = s[j].pos
      <4> HIDE DEF f
      <4> QED BY <1>17, <2>2
    <3>2. i - 1 = j - 1 BY <1>11, <3>1
    <3> QED BY <3>2
  <2>3. ASSUME NEW p \in points PROVE \E j \in 1..m : f[j] = p
    <3>1. PICK j \in 1..m : p.chunk = s[j] BY <1>16
    <3> HIDE DEF f
    <3>2. f[j] \in points /\ f[j].chunk = p.chunk BY <1>17, <3>1
    <3> QED BY <1>3, <1>14, <3>2
  <2> HIDE DEF f
  <2>4. f \in Bijection(1..m, points)
    <3>1. IsInjective(f) BY <2>1, <2>2 DEF IsInjective
    <3> QED BY <2>1, <2>3, <3>1 DEF Bijection, Injection, Surjection
  <2>5. ExistsBijection(1..m, points) BY <2>4 DEF ExistsBijection
  <2>6. Cardinality(points) = m BY <1>11, <2>5, FS_CountingElements
  <2> QED BY <2>6
<1>19. {p.chunk.pos : p \in points} = 0..n - 1
  <2> DEFINE P == {p.chunk.pos : p \in points}
  <2>1. (\A x \in P : \E p \in points : x = p.chunk.pos) /\ \A p \in points : p.chunk.pos \in P OBVIOUS
  <2> HIDE DEF P
  <2>2. \A x : x \in P => x \in 0..n - 1
    <3> SUFFICES ASSUME NEW x, x \in P PROVE x \in 0..n - 1 OBVIOUS
    <3>1. PICK p \in points : x = p.chunk.pos BY <2>1
    <3>2. PICK j \in 1..m : p.chunk = s[j] BY <1>16
    <3>3. x = j - 1 BY <1>11, <3>1, <3>2
    <3> QED BY <1>11, <1>18, <3>3
  <2>3. \A x : x \in 0..n - 1 => x \in P
    <3> SUFFICES ASSUME NEW x, x \in 0..n - 1 PROVE x \in P OBVIOUS
    <3>1. x + 1 \in 1..m /\ (x + 1) - 1 = x BY <1>11, <1>18
    <3>2. PICK p \in points : p.chunk = s[x + 1] BY <1>15, <3>1
    <3>3. p.chunk.pos = x BY <1>11, <3>1, <3>2
    <3> QED BY <2>1, <3>3
  <2>4. P = 0..n - 1 BY <2>2, <2>3
  <2> QED BY <2>4 DEF P
<1>20. SaysAll(said, ShownPages(e, cap))
  <2>1. \A j \in 1..m : said[j] = s[j]
    <3> SUFFICES ASSUME NEW j \in 1..m PROVE said[j] = s[j] OBVIOUS
    <3>1. said[j] = (CHOOSE p \in points : p.chunk.pos = j - 1).chunk BY <1>18 DEF AtPositions
    <3>2. said[j] = f[j].chunk BY <3>1
    <3> HIDE DEF f
    <3> QED BY <1>17, <3>2
  <2>2. said = [k \in 1..m |-> said[k]] BY <1>18 DEF AtPositions
  <2>3. s = [k \in 1..m |-> s[k]] BY <1>11 DEF IsSeq, m
  <2>4. said = s BY <2>1, <2>2, <2>3
  <2> QED BY <1>9, <2>4
<1>21. e \in Editions[d] /\ cap \in AnyCaptions /\ \A p \in points : p.chunk.edition = e
  BY <1>7, <1>9, <1>13 DEF Caps, AnyCaptions
<1> QED BY <1>19, <1>20, <1>21 DEF OneEdition

-----------------------------------------------------------------------------
(* The headings and captions above a place.                                *)

\* The last of some places, and what stands there if it is one of K.
LastIn(s) == CHOOSE j \in s : \A k \in s : k <= j

Marked(h, i, K) == {j \in 1..i - 1 : h[j] \in K}

Nearest(h, i, K) == IF Marked(h, i, K) = {} THEN {} ELSE {h[LastIn(Marked(h, i, K))]}

\* Places up to n have a last one.
LEMMA LastPlace ==
  ASSUME NEW n \in Nat, NEW s \in SUBSET (1..n)
  PROVE  /\ s # {} => LastIn(s) \in s
         /\ n \in s => LastIn(s) = n
<1>1. ASSUME s # {} PROVE \E j \in s : \A k \in s : k <= j
  <2> DEFINE bounds == {k \in Nat : \A x \in s : x <= k}
  <2>1. bounds \in SUBSET Nat /\ n \in bounds OBVIOUS
  <2>2. PICK k \in bounds : \A j \in bounds : k <= j
    <3> HIDE DEF bounds
    <3> QED BY <2>1, LeastNat
  <2>3. ASSUME k \notin s PROVE FALSE
    <3>1. PICK x \in s : TRUE BY <1>1
    <3>2. k - 1 \in Nat /\ \A y \in s : y <= k - 1 BY <2>2, <2>3, <3>1
    <3>3. k - 1 \in bounds BY <3>2
    <3>4. k <= k - 1 BY <2>2, <3>3
    <3> QED BY <2>2, <3>4
  <2> QED BY <2>2, <2>3
<1>2. ASSUME n \in s PROVE LastIn(s) = n
  <2>1. \A k \in s : k <= n OBVIOUS
  <2>2. \A j \in s : (\A k \in s : k <= j) => j = n BY <1>2
  <2> QED BY <1>2, <2>1, <2>2 DEF LastIn
<1>3. ASSUME s # {} PROVE LastIn(s) \in s BY <1>1, <1>3 DEF LastIn
<1> QED BY <1>2, <1>3

\* all is h with x behind it, as far as the nearest ones of K go.
Further(h, all, x, n, K) ==
  /\ \A i \in 1..n + 1 : Nearest(all, i, K) = Nearest(h, i, K)
  /\ Nearest(all, n + 2, K) = IF x \in K THEN {x} ELSE Nearest(h, n + 1, K)

\* One element more changes nothing above the places there were, and is itself the
\* nearest of K for the place behind it, if it is of K.
LEMMA NearestGrows ==
  ASSUME NEW T, NEW h \in Seq(T), NEW x \in T, NEW K, NEW n, n = Len(h)
  PROVE  Further(h, Append(h, x), x, n, K)
<1> DEFINE all == Append(h, x)
<1>1. n \in Nat /\ all[n + 1] = x /\ \A j \in 1..n : all[j] = h[j] OBVIOUS
<1> HIDE DEF all
<1>2. ASSUME NEW i \in 1..n + 1, NEW s \in SUBSET (1..i - 1), s # {} PROVE all[LastIn(s)] = h[LastIn(s)]
  <2>1. i - 1 \in Nat /\ \A j \in 1..i - 1 : j \in 1..n BY <1>1
  <2>2. LastIn(s) \in s BY <1>2, <2>1, LastPlace
  <2> QED BY <1>1, <2>1, <2>2
<1>3. ASSUME NEW i \in 1..n + 1 PROVE Marked(all, i, K) = Marked(h, i, K)
  <2>1. \A j \in 1..i - 1 : all[j] = h[j]
    <3>1. \A j \in 1..i - 1 : j \in 1..n BY <1>1
    <3> QED BY <1>1, <3>1
  <2> QED BY <2>1 DEF Marked
<1>4. ASSUME NEW i \in 1..n + 1 PROVE Nearest(all, i, K) = Nearest(h, i, K)
  <2>1. Marked(h, i, K) \in SUBSET (1..i - 1) BY DEF Marked
  <2>2. Marked(h, i, K) # {} => all[LastIn(Marked(h, i, K))] = h[LastIn(Marked(h, i, K))]
    BY <1>2, <2>1
  <2> QED BY <1>3, <2>2 DEF Nearest
<1>5. n + 1 \in 1..n + 1 /\ (n + 2) - 1 = n + 1 /\ (n + 1) - 1 = n BY <1>1
<1>6. CASE x \in K
  <2> DEFINE s == Marked(all, n + 2, K)
  <2>1. s \in SUBSET (1..n + 1) /\ n + 1 \in s BY <1>1, <1>5, <1>6 DEF Marked
  <2>2. n + 1 \in Nat BY <1>1
  <2>3. LastIn(s) = n + 1 /\ s # {}
    <3> HIDE DEF s
    <3> QED BY <2>1, <2>2, LastPlace
  <2> QED BY <1>1, <1>4, <1>6, <2>3 DEF Nearest, all, Further
<1>7. CASE x \notin K
  <2>1. Marked(all, n + 2, K) = Marked(all, n + 1, K)
    <3>1. \A j : j \in 1..n + 1 <=> j \in 1..n \/ j = n + 1 BY <1>1
    <3>2. \A j : j \in Marked(all, n + 2, K) <=> j \in 1..n + 1 /\ all[j] \in K
      BY <1>5 DEF Marked
    <3>3. \A j : j \in Marked(all, n + 1, K) <=> j \in 1..n /\ all[j] \in K
      BY <1>5 DEF Marked
    <3>4. \A j : j \in Marked(all, n + 2, K) <=> j \in Marked(all, n + 1, K)
      BY <1>1, <1>7, <3>1, <3>2, <3>3
    <3> QED BY <3>4
  <2>2. Nearest(all, n + 2, K) = Nearest(all, n + 1, K) BY <2>1 DEF Nearest
  <2>3. Nearest(all, n + 1, K) = Nearest(h, n + 1, K) BY <1>4, <1>5
  <2> QED BY <1>4, <1>7, <2>2, <2>3 DEF all, Further
<1> QED BY <1>4, <1>6, <1>7 DEF all, Further

\* What the nearest one makes the name of the section, the subsection and the caption.
One(s) == CHOOSE y \in s : TRUE

SectionName(s) == IF s = {} THEN NoName ELSE One(s).name

SubName(s) == IF s = {} \/ One(s).level \in {1, 2} THEN NoName ELSE One(s).name

CaptionName(s) == IF s = {} \/ One(s).kind # "caption" THEN NoName ELSE One(s).name

Heads(T) == {y \in T : y.kind = "heading"}
Tops(T)  == {y \in T : y.kind = "heading" /\ y.level \in {1, 2}}
Marks(T) == {y \in T : y.kind \in {"caption", "heading", "table"}}

LEMMA NamesAbove ==
  ASSUME NEW T, NEW h \in Seq(T), NEW i \in 1..Len(h) + 1
  PROVE  /\ SectionAt(h, i) = SectionName(Nearest(h, i, Tops(T)))
         /\ SubAt(h, i) = SubName(Nearest(h, i, Heads(T)))
         /\ CaptionAt(h, i) = CaptionName(Nearest(h, i, Marks(T)))
<1> DEFINE tops == {j \in 1..i - 1 : h[j].kind = "heading" /\ h[j].level \in {1, 2}}
           heads == {j \in 1..i - 1 : h[j].kind = "heading"}
           marks == {j \in 1..i - 1 : h[j].kind \in {"caption", "heading", "table"}}
<1>1. \A j \in 1..i - 1 : h[j] \in T
  <2>1. \A j \in 1..i - 1 : j \in 1..Len(h) OBVIOUS
  <2> QED BY <2>1
<1>2. tops = Marked(h, i, Tops(T)) /\ heads = Marked(h, i, Heads(T)) /\ marks = Marked(h, i, Marks(T))
  BY <1>1 DEF Marked, Tops, Heads, Marks
<1>3. \A y : One({y}) = y BY DEF One
<1>4. SectionAt(h, i) = IF tops = {} THEN NoName ELSE h[LastIn(tops)].name
  BY DEF SectionAt, LastIn
<1>5. SubAt(h, i) = IF heads = {} \/ h[LastIn(heads)].level \in {1, 2} THEN NoName
                    ELSE h[LastIn(heads)].name
  BY DEF SubAt, LastIn
<1>6. CaptionAt(h, i) = IF marks = {} \/ h[LastIn(marks)].kind # "caption" THEN NoName
                        ELSE h[LastIn(marks)].name
  BY DEF CaptionAt, LastIn
<1> HIDE DEF tops, heads, marks
<1>7. SectionAt(h, i) = SectionName(Nearest(h, i, Tops(T)))
  BY <1>2, <1>3, <1>4 DEF SectionName, Nearest
<1>8. SubAt(h, i) = SubName(Nearest(h, i, Heads(T))) BY <1>2, <1>3, <1>5 DEF SubName, Nearest
<1>9. CaptionAt(h, i) = CaptionName(Nearest(h, i, Marks(T)))
  <2>1. CASE marks = {} BY <1>2, <1>6, <2>1 DEF CaptionName, Nearest
  <2>2. CASE marks # {}
    <3> DEFINE y == h[LastIn(marks)]
    <3>1. Nearest(h, i, Marks(T)) = {y} BY <1>2, <2>2 DEF Nearest
    <3>2. CaptionAt(h, i) = IF y.kind # "caption" THEN NoName ELSE y.name BY <1>6, <2>2
    <3> HIDE DEF y
    <3> QED BY <1>3, <3>1, <3>2 DEF CaptionName
  <2> QED BY <2>1, <2>2
<1> QED BY <1>7, <1>8, <1>9

\* What governs the place behind all that stands.
SectionAfter(h) == SectionAt(h, Len(h) + 1)
SubAfter(h) == SubAt(h, Len(h) + 1)
CaptionAfter(h) == CaptionAt(h, Len(h) + 1)

Top(x) == x.level \in {1, 2}

\* At first nothing does.
LEMMA NothingAbove == SectionAfter(<<>>) = NoName /\ SubAfter(<<>>) = NoName /\ CaptionAfter(<<>>) = NoName
<1> DEFINE h == <<>>
<1>1. h \in Seq({}) /\ Len(h) = 0 OBVIOUS
<1> HIDE DEF h
<1>2. 1 \in 1..Len(h) + 1 /\ Len(h) + 1 = 1 BY <1>1
<1>3. \A K : Marked(h, 1, K) = {} BY DEF Marked
<1>4. \A K : Nearest(h, 1, K) = {} BY <1>3 DEF Nearest
<1>5. SectionAt(h, 1) = NoName /\ SubAt(h, 1) = NoName /\ CaptionAt(h, 1) = NoName
  <2>1. /\ SectionAt(h, 1) = SectionName(Nearest(h, 1, Tops({})))
        /\ SubAt(h, 1) = SubName(Nearest(h, 1, Heads({})))
        /\ CaptionAt(h, 1) = CaptionName(Nearest(h, 1, Marks({})))
    BY <1>1, <1>2, NamesAbove
  <2>2. SectionName({}) = NoName /\ SubName({}) = NoName /\ CaptionName({}) = NoName
    BY DEF SectionName, SubName, CaptionName
  <2> QED BY <1>4, <2>1, <2>2
<1> QED BY <1>2, <1>5 DEF h, SectionAfter, SubAfter, CaptionAfter

\* What one element more changes: nothing above the others, and behind it what it heads.
LEMMA AboveGrows ==
  ASSUME NEW T, NEW h \in Seq(T), NEW x \in T
  PROVE  /\ \A i \in 1..Len(h) + 1 : /\ SectionAt(Append(h, x), i) = SectionAt(h, i)
                                     /\ SubAt(Append(h, x), i) = SubAt(h, i)
                                     /\ CaptionAt(Append(h, x), i) = CaptionAt(h, i)
         /\ SectionAfter(Append(h, x))
              = IF x.kind = "heading" /\ Top(x) THEN x.name ELSE SectionAfter(h)
         /\ SubAfter(Append(h, x))
              = IF x.kind = "heading" THEN IF Top(x) THEN NoName ELSE x.name ELSE SubAfter(h)
         /\ CaptionAfter(Append(h, x))
              = IF x.kind = "caption" THEN x.name
                ELSE IF x.kind \in {"heading", "table"} THEN NoName ELSE CaptionAfter(h)
<1> DEFINE n == Len(h)
           all == Append(h, x)
<1>1. n \in Nat /\ all \in Seq(T) /\ Len(all) = n + 1 /\ n = Len(h) OBVIOUS
<1>2. \A K : /\ \A i \in 1..n + 1 : Nearest(all, i, K) = Nearest(h, i, K)
             /\ Nearest(all, n + 2, K) = IF x \in K THEN {x} ELSE Nearest(h, n + 1, K)
  <2> SUFFICES ASSUME NEW K PROVE Further(h, all, x, n, K) BY DEF Further
  <2> HIDE DEF n
  <2> QED BY <1>1, NearestGrows
<1>3. \A y : One({y}) = y /\ {y} # {} BY DEF One
<1> HIDE DEF n, all
<1>4. /\ n + 1 \in 1..n + 1 /\ n + 2 \in 1..Len(all) + 1 /\ Len(all) + 1 = n + 2
      /\ \A i \in 1..n + 1 : i \in 1..Len(all) + 1
  BY <1>1
<1>5. ASSUME NEW i \in 1..n + 1
      PROVE  /\ SectionAt(all, i) = SectionAt(h, i) /\ SubAt(all, i) = SubAt(h, i)
             /\ CaptionAt(all, i) = CaptionAt(h, i)
  <2>1. /\ SectionAt(all, i) = SectionName(Nearest(all, i, Tops(T)))
        /\ SubAt(all, i) = SubName(Nearest(all, i, Heads(T)))
        /\ CaptionAt(all, i) = CaptionName(Nearest(all, i, Marks(T)))
    BY <1>1, <1>4, NamesAbove
  <2>2. /\ SectionAt(h, i) = SectionName(Nearest(h, i, Tops(T)))
        /\ SubAt(h, i) = SubName(Nearest(h, i, Heads(T)))
        /\ CaptionAt(h, i) = CaptionName(Nearest(h, i, Marks(T)))
    BY <1>1, NamesAbove
  <2> QED BY <1>2, <2>1, <2>2
<1>6. /\ SectionAt(all, n + 2) = SectionName(Nearest(all, n + 2, Tops(T)))
      /\ SubAt(all, n + 2) = SubName(Nearest(all, n + 2, Heads(T)))
      /\ CaptionAt(all, n + 2) = CaptionName(Nearest(all, n + 2, Marks(T)))
  BY <1>1, <1>4, NamesAbove
<1>7. /\ SectionAt(h, n + 1) = SectionName(Nearest(h, n + 1, Tops(T)))
      /\ SubAt(h, n + 1) = SubName(Nearest(h, n + 1, Heads(T)))
      /\ CaptionAt(h, n + 1) = CaptionName(Nearest(h, n + 1, Marks(T)))
  BY <1>1, <1>4, NamesAbove
<1>8. /\ x \in Tops(T) <=> x.kind = "heading" /\ Top(x)
      /\ x \in Heads(T) <=> x.kind = "heading"
      /\ x \in Marks(T) <=> x.kind \in {"caption", "heading", "table"}
  BY DEF Tops, Heads, Marks, Top
<1>9. SectionAt(all, n + 2) = IF x.kind = "heading" /\ Top(x) THEN x.name ELSE SectionAt(h, n + 1)
  BY <1>2, <1>3, <1>6, <1>7, <1>8 DEF SectionName
<1>10. SubAt(all, n + 2) = IF x.kind = "heading" THEN IF Top(x) THEN NoName ELSE x.name
                           ELSE SubAt(h, n + 1)
  BY <1>2, <1>3, <1>6, <1>7, <1>8 DEF SubName, Top
<1>11. CaptionAt(all, n + 2) = IF x.kind = "caption" THEN x.name
                               ELSE IF x.kind \in {"heading", "table"} THEN NoName
                               ELSE CaptionAt(h, n + 1)
  BY <1>2, <1>3, <1>6, <1>7, <1>8 DEF CaptionName
<1> QED BY <1>1, <1>4, <1>5, <1>9, <1>10, <1>11 DEF all, SectionAfter, SubAfter, CaptionAfter
-----------------------------------------------------------------------------
(* Where the lines of a block come from.                                   *)

\* A line comes from an item it is filed from.
Traced(h, x, c) == \E i \in 1..Len(h) : FiledFrom(h, i, x, c)

\* How a block is filed: a table that goes on has no caption of its own.
OwnCaption(b) == IF b.kind = "table" /\ ~b.cont THEN b.caption ELSE NoName

Place(b, section, sub) ==
  [kind |-> b.kind, section |-> section, sub |-> sub, table |-> OwnCaption(b)]

BlockTraced(h, b, section, sub) ==
  \A x \in ToSet(Texts(b.lines)) : Traced(h, x, Place(b, section, sub))

AllTraced(h, blocks) ==
  \A j \in 1..Len(blocks) : blocks[j].kind # "heading" =>
    BlockTraced(h, blocks[j], SectionAt(blocks, j), SubAt(blocks, j))

\* The same headings govern what comes next.
Aligned(a, b) == SectionAfter(a) = SectionAfter(b) /\ SubAfter(a) = SubAfter(b)

\* A line stays traced when it is filed in the same place, with the caption it had,
\* or with any if it had none.
LEMMA TracedAs ==
  ASSUME NEW h, NEW x, NEW c, NEW e, Traced(h, x, c),
         c.section = e.section, c.sub = e.sub, (c.kind = "table") = (e.kind = "table"),
         c.table \in {e.table, NoName}
  PROVE  Traced(h, x, e)
<1>1. PICK i \in 1..Len(h) : FiledFrom(h, i, x, c) BY DEF Traced
<1>2. FiledFrom(h, i, x, e) BY <1>1 DEF FiledFrom
<1> QED BY <1>1, <1>2 DEF Traced

\* ... and when more is read.
LEMMA TracedMore ==
  ASSUME NEW h \in Seq(ReadItem), NEW y \in ReadItem, NEW x, NEW c, Traced(h, x, c)
  PROVE  Traced(Append(h, y), x, c)
<1> DEFINE all == Append(h, y)
           n == Len(h)
<1>1. n \in Nat /\ Len(all) = n + 1 /\ \A i \in 1..n : all[i] = h[i] OBVIOUS
<1>2. \A i \in 1..n + 1 : /\ SectionAt(all, i) = SectionAt(h, i) /\ SubAt(all, i) = SubAt(h, i)
                          /\ CaptionAt(all, i) = CaptionAt(h, i)
  BY AboveGrows
<1>3. PICK i \in 1..n : FiledFrom(h, i, x, c) BY DEF Traced
<1> HIDE DEF all, n
<1>4. i \in 1..n + 1 /\ i \in 1..Len(all) BY <1>1, <1>3
<1>5. FiledFrom(all, i, x, c) BY <1>1, <1>2, <1>3, <1>4 DEF FiledFrom
<1> QED BY <1>4, <1>5 DEF Traced, all

\* A line of the item that is read last is traced to it.
LEMMA TracedLast ==
  ASSUME NEW h \in Seq(ReadItem), NEW y \in ReadItem, NEW x \in ToSet(LinesOf(y)), NEW c,
         (c.kind = "table") = (y.kind = "table"), c.section = SectionAfter(h), c.sub = SubAfter(h),
         y.kind = "table" => c.table = CaptionAfter(h) \/ CaptionAfter(h) = NoName
  PROVE  Traced(Append(h, y), x, c)
<1> DEFINE all == Append(h, y)
           n == Len(h)
<1>1. n \in Nat /\ Len(all) = n + 1 /\ all[n + 1] = y OBVIOUS
<1>2. \A i \in 1..n + 1 : /\ SectionAt(all, i) = SectionAt(h, i) /\ SubAt(all, i) = SubAt(h, i)
                          /\ CaptionAt(all, i) = CaptionAt(h, i)
  BY AboveGrows
<1>3. SectionAfter(h) = SectionAt(h, n + 1) /\ SubAfter(h) = SubAt(h, n + 1)
      /\ CaptionAfter(h) = CaptionAt(h, n + 1)
  BY DEF SectionAfter, SubAfter, CaptionAfter
<1> HIDE DEF all, n
<1>4. n + 1 \in 1..n + 1 /\ n + 1 \in 1..Len(all) BY <1>1
<1>5. FiledFrom(all, n + 1, x, c) BY <1>1, <1>2, <1>3, <1>4 DEF FiledFrom
<1> QED BY <1>4, <1>5 DEF Traced, all

\* The blocks are traced, one more among them.
LEMMA AllTracedGrows ==
  ASSUME NEW h, NEW T, NEW blocks \in Seq(T), NEW b \in T
  PROVE  AllTraced(h, Append(blocks, b))
           <=> /\ AllTraced(h, blocks)
               /\ b.kind # "heading" => BlockTraced(h, b, SectionAfter(blocks), SubAfter(blocks))
<1> DEFINE all == Append(blocks, b)
           n == Len(blocks)
           Good(s, j) == s[j].kind # "heading" => BlockTraced(h, s[j], SectionAt(s, j), SubAt(s, j))
<1>1. n \in Nat /\ Len(all) = n + 1 /\ all[n + 1] = b /\ \A i \in 1..n : all[i] = blocks[i] OBVIOUS
<1>2. \A i \in 1..n + 1 : /\ SectionAt(all, i) = SectionAt(blocks, i) /\ SubAt(all, i) = SubAt(blocks, i)
  BY AboveGrows
<1>3. SectionAfter(blocks) = SectionAt(blocks, n + 1) /\ SubAfter(blocks) = SubAt(blocks, n + 1)
  BY DEF SectionAfter, SubAfter
<1>4. AllTraced(h, all) <=> \A j \in 1..Len(all) : Good(all, j) BY DEF AllTraced
<1>5. AllTraced(h, blocks) <=> \A j \in 1..n : Good(blocks, j) BY DEF AllTraced
<1> HIDE DEF all, n
<1>6. (\A j \in 1..n : j \in 1..n + 1) /\ n + 1 \in 1..n + 1
      /\ \A j \in 1..n + 1 : j \in 1..n \/ j = n + 1
  BY <1>1
<1>7. \A j \in 1..n : Good(all, j) <=> Good(blocks, j) BY <1>1, <1>2, <1>6
<1>8. Good(all, n + 1)
        <=> (b.kind # "heading" => BlockTraced(h, b, SectionAfter(blocks), SubAfter(blocks)))
  BY <1>1, <1>2, <1>3, <1>6
<1> HIDE DEF Good
<1> QED BY <1>1, <1>4, <1>5, <1>6, <1>7, <1>8 DEF all

\* ... and when more is read.
LEMMA AllTracedMore ==
  ASSUME NEW h \in Seq(ReadItem), NEW y \in ReadItem, NEW blocks, AllTraced(h, blocks)
  PROVE  AllTraced(Append(h, y), blocks)
<1>1. \A x, c : Traced(h, x, c) => Traced(Append(h, y), x, c) BY TracedMore
<1> QED BY <1>1 DEF AllTraced, BlockTraced

\* What a sequence of lines says, two of them joined among others.
LEMMA TextsOf ==
  ASSUME NEW lines, NEW x
  PROVE  x \in ToSet(Texts(lines)) <=> \E l \in ToSet(lines) : x = l.id
BY DEF Texts, ToSet

\* The lines of both blocks are traced when they are joined.
LEMMA JoinTraced ==
  ASSUME NEW h, NEW last, NEW b, NEW section, NEW sub, NEW lines,
         \A l \in ToSet(lines) : l \in ToSet(last.lines) \/ l \in ToSet(b.lines),
         BlockTraced(h, last, section, sub), BlockTraced(h, b, section, sub),
         last.kind = b.kind, OwnCaption(b) = NoName, NEW joined,
         joined.kind = last.kind, OwnCaption(joined) = OwnCaption(last), joined.lines = lines
  PROVE  BlockTraced(h, joined, section, sub)
<1> SUFFICES ASSUME NEW x \in ToSet(Texts(lines)) PROVE Traced(h, x, Place(joined, section, sub))
  BY DEF BlockTraced
<1>1. x \in ToSet(Texts(last.lines)) \/ x \in ToSet(Texts(b.lines)) BY TextsOf
<1>2. CASE x \in ToSet(Texts(last.lines))
  <2>1. Traced(h, x, Place(last, section, sub)) BY <1>2 DEF BlockTraced
  <2>2. Place(last, section, sub) = Place(joined, section, sub) BY DEF Place
  <2> QED BY <2>1, <2>2
<1>3. CASE x \in ToSet(Texts(b.lines))
  <2> DEFINE c == Place(b, section, sub)
             e == Place(joined, section, sub)
  <2>1. Traced(h, x, c) BY <1>3 DEF BlockTraced
  <2>2. /\ c.section = e.section /\ c.sub = e.sub /\ (c.kind = "table") = (e.kind = "table")
        /\ c.table \in {e.table, NoName}
    BY DEF Place
  <2> HIDE DEF c, e
  <2>3. Traced(h, x, e) BY <2>1, <2>2, TracedAs
  <2> QED BY <2>3 DEF e
<1> QED BY <1>1, <1>2, <1>3
\* What the parser has made of the items read so far: the caption that waits is the
\* one a table would have next, and every line is traced.
ReadUpTo(st, h) ==
  /\ st \in Parsing /\ h \in Seq(ReadItem)
  /\ st.pending = CaptionAfter(h)
  /\ Aligned(st.blocks, h)
  /\ AllTraced(h, st.blocks)

\* One block more for one item more.
LEMMA BlockRead ==
  ASSUME NEW h \in Seq(ReadItem), NEW y \in ReadItem, NEW blocks \in Seq(Blocks), NEW b \in Blocks,
         Aligned(blocks, h), AllTraced(h, blocks),
         b.kind = "heading" <=> y.kind = "heading", b.kind = "heading" => b = y,
         b.kind # "heading" => BlockTraced(Append(h, y), b, SectionAfter(h), SubAfter(h))
  PROVE  Aligned(Append(blocks, b), Append(h, y)) /\ AllTraced(Append(h, y), Append(blocks, b))
<1>1. Aligned(Append(blocks, b), Append(h, y))
  <2>1. /\ SectionAfter(Append(blocks, b))
             = IF b.kind = "heading" /\ Top(b) THEN b.name ELSE SectionAfter(blocks)
        /\ SubAfter(Append(blocks, b))
             = IF b.kind = "heading" THEN IF Top(b) THEN NoName ELSE b.name ELSE SubAfter(blocks)
    BY AboveGrows
  <2>2. /\ SectionAfter(Append(h, y))
             = IF y.kind = "heading" /\ Top(y) THEN y.name ELSE SectionAfter(h)
        /\ SubAfter(Append(h, y))
             = IF y.kind = "heading" THEN IF Top(y) THEN NoName ELSE y.name ELSE SubAfter(h)
    BY AboveGrows
  <2>3. CASE b.kind = "heading" BY <2>1, <2>2, <2>3 DEF Aligned
  <2>4. CASE b.kind # "heading" BY <2>1, <2>2, <2>4 DEF Aligned
  <2> QED BY <2>3, <2>4
<1>2. AllTraced(Append(h, y), blocks) BY AllTracedMore
<1>3. AllTraced(Append(h, y), Append(blocks, b))
  <2>1. SectionAfter(blocks) = SectionAfter(h) /\ SubAfter(blocks) = SubAfter(h) BY DEF Aligned
  <2> QED BY <1>2, <2>1, AllTracedGrows
<1> QED BY <1>1, <1>3

\* The parser reads one item more.
LEMMA ItemRead ==
  ASSUME NEW st, NEW h, ReadUpTo(st, h), NEW item \in Item
  PROVE  ReadUpTo(ParseItem(st, item), Append(h, item))
<1> DEFINE all == Append(h, item)
           new == ParseItem(st, item)
           section == SectionAfter(h)
           sub == SubAfter(h)
<1>1. st \in Parsing /\ h \in Seq(ReadItem) /\ st.pending = CaptionAfter(h) /\ Aligned(st.blocks, h)
      /\ AllTraced(h, st.blocks)
  BY DEF ReadUpTo
<1>2. st.blocks \in Seq(Blocks) /\ item \in ReadItem BY <1>1 DEF Parsing, Blocks, ReadItem
<1>3. new \in Parsing BY <1>1, ParseItemTyped
<1>4. all \in Seq(ReadItem) BY <1>1, <1>2, AppendSays
<1>5. CaptionAfter(all) = IF item.kind = "caption" THEN item.name
                          ELSE IF item.kind \in {"heading", "table"} THEN NoName ELSE CaptionAfter(h)
  BY <1>1, <1>2, AboveGrows
<1>6. CASE item.kind = "heading"
  <2>1. item \in Blocks BY <1>6 DEF Item, Heading, Blocks
  <2>2. new.blocks = Append(st.blocks, item) /\ new.pending = NoName BY <1>1, <1>6 DEF ParseItem, Parsing
  <2>3. Aligned(Append(st.blocks, item), all) /\ AllTraced(all, Append(st.blocks, item))
    BY <1>1, <1>2, <1>6, <2>1, BlockRead
  <2> QED BY <1>3, <1>4, <1>5, <1>6, <2>2, <2>3 DEF ReadUpTo
<1>7. CASE item.kind = "caption"
  <2>1. new.blocks = st.blocks /\ new.pending = item.name BY <1>1, <1>7 DEF ParseItem, Parsing
  <2>2. SectionAfter(all) = SectionAfter(h) /\ SubAfter(all) = SubAfter(h)
    BY <1>1, <1>2, <1>7, AboveGrows
  <2>3. Aligned(st.blocks, all) BY <1>1, <2>2 DEF Aligned
  <2>4. AllTraced(all, st.blocks) BY <1>1, <1>2, AllTracedMore
  <2> QED BY <1>3, <1>4, <1>5, <1>7, <2>1, <2>3, <2>4 DEF ReadUpTo
<1>8. CASE item.kind = "prose"
  <2> DEFINE block == [kind |-> "prose", page |-> st.page, lines |-> <<item.line>>]
             c == Place(block, section, sub)
  <2>1. block \in Blocks BY <1>1, <1>8 DEF Item, Blocks, Body, Prose, Parsing
  <2>2. new.blocks = Append(st.blocks, block) /\ new.pending = st.pending
    BY <1>1, <1>8 DEF ParseItem, Parsing
  <2>3. Texts(block.lines) = LinesOf(item) BY <1>8 DEF Texts, LinesOf
  <2>4. c.kind = "prose" /\ c.section = section /\ c.sub = sub BY DEF Place
  <2>5. block.kind = "prose" OBVIOUS
  <2> HIDE DEF c, block
  <2>6. \A x \in ToSet(LinesOf(item)) : Traced(all, x, c)
    BY <1>1, <1>2, <1>8, <2>4, TracedLast
  <2>7. BlockTraced(all, block, section, sub) BY <2>3, <2>6 DEF BlockTraced, c
  <2>8. Aligned(Append(st.blocks, block), all) /\ AllTraced(all, Append(st.blocks, block))
    BY <1>1, <1>2, <1>8, <2>1, <2>5, <2>7, BlockRead
  <2> QED BY <1>1, <1>3, <1>4, <1>5, <1>8, <2>2, <2>8 DEF ReadUpTo
<1>9. CASE item.kind = "table"
  <2> DEFINE cont    == Continues(st, item)
             caption == IF cont THEN st.last.caption ELSE st.pending
             block   == [kind |-> "table", page |-> st.page, header |-> item.header,
                         caption |-> caption, cont |-> cont, lines |-> item.rows]
             c == Place(block, section, sub)
  <2>1. item.header \in Line /\ item.rows \in Seq(Line) BY <1>9 DEF Item
  <2>2. cont \in BOOLEAN /\ caption \in Titles BY <1>1 DEF Continues, Parsing, NoTable, Titles
  <2>3. cont => st.pending = NoName BY DEF Continues
  <2>4. OwnCaption(block) = st.pending
    <3> HIDE DEF cont
    <3> QED BY <2>2, <2>3 DEF OwnCaption
  <2>5. block \in Blocks /\ block.kind = "table"
    <3> HIDE DEF cont, caption
    <3> QED BY <1>1, <2>1, <2>2 DEF Blocks, Body, Table, Parsing
  <2>6. new.blocks = Append(st.blocks, block) /\ new.pending = NoName
    <3>1. new = [st EXCEPT !.blocks = Append(@, block),
                           !.tables = @ + 1,
                           !.last = IF cont THEN @ ELSE [header |-> item.header, caption |-> caption],
                           !.pending = IF cont THEN @ ELSE NoName]
      BY <1>9 DEF ParseItem, ParseTable
    <3> HIDE DEF block, cont, caption, new
    <3> QED BY <1>1, <2>3, <3>1 DEF Parsing
  <2>7. Texts(block.lines) = LinesOf(item) BY <1>9 DEF LinesOf
  <2> HIDE DEF block
  <2>8. c.kind = "table" /\ c.section = section /\ c.sub = sub /\ c.table = st.pending
    BY <2>4, <2>5 DEF Place
  <2> HIDE DEF c
  <2>9. \A x \in ToSet(LinesOf(item)) : Traced(all, x, c)
    BY <1>1, <1>2, <1>9, <2>8, TracedLast
  <2>10. BlockTraced(all, block, section, sub) BY <2>7, <2>9 DEF BlockTraced, c
  <2>11. Aligned(Append(st.blocks, block), all) /\ AllTraced(all, Append(st.blocks, block))
    BY <1>1, <1>2, <1>9, <2>5, <2>10, BlockRead
  <2> QED BY <1>3, <1>4, <1>5, <1>9, <2>6, <2>11 DEF ReadUpTo
<1>10. item.kind \in {"heading", "caption", "prose", "table"} BY DEF Item
<1> QED BY <1>6, <1>7, <1>8, <1>9, <1>10

\* ... all items of a page.
LEMMA ItemsRead ==
  ASSUME NEW st, NEW h, ReadUpTo(st, h), NEW items \in Seq(Item)
  PROVE  ReadUpTo(ItemsOn(st, items), Then(h, items))
<1> DEFINE S == {u \in Seq(Item) : ReadUpTo(ItemsOn(st, u), Then(h, u))}
<1>1. st \in Parsing /\ h \in Seq(ReadItem) BY DEF ReadUpTo
<1>2. <<>> \in S
  <2>1. ItemsOn(st, <<>>) = st BY ParseItemNone
  <2>2. Then(h, <<>>) = h BY <1>1, ThenNone
  <2>3. <<>> \in Seq(Item) OBVIOUS
  <2> QED BY <2>1, <2>2, <2>3
<1>3. ASSUME NEW u \in Seq(Item), NEW x \in Item, u \in S PROVE Append(u, x) \in S
  <2> DEFINE v == ItemsOn(st, u)
             new == Append(u, x)
  <2>1. ReadUpTo(v, Then(h, u)) BY <1>3
  <2>2. StepsTo(ItemsOn(st, new), ParseItem(v, x), Parsing)
    <3>1. \A w \in Parsing : \A e \in Item : ParseItem(w, e) \in Parsing BY ParseItemTyped
    <3> QED BY <1>1, <3>1, ParseItemGrows
  <2>3. new \in Seq(Item) BY AppendSays
  <2>4. Then(h, new) = Append(Then(h, u), x)
    <3>1. u \in Seq(ReadItem) /\ x \in ReadItem BY ItemsAreRead DEF ReadItem
    <3> QED BY <1>1, <3>1, ThenAppend
  <2> HIDE DEF v, new
  <2>5. ReadUpTo(ParseItem(v, x), Append(Then(h, u), x)) BY <2>1, ItemRead
  <2>6. ReadUpTo(ItemsOn(st, new), Then(h, new)) BY <2>2, <2>4, <2>5 DEF StepsTo
  <2> QED BY <2>3, <2>6 DEF new
<1>4. items \in S
  <2> HIDE DEF S
  <2> QED BY <1>2, <1>3, SeqInduction
<1> QED BY <1>4
\* What stands on a page.
LEMMA PageItemsTyped ==
  ASSUME NEW page \in Readable
  PROVE  PageItems(page) \in Seq(ReadItem)
<1>1. page.items \in Seq(Item) /\ page.diagram \in Seq(Line) BY DEF Readable
<1> DEFINE diagram == [kind |-> "diagram", lines |-> page.diagram]
<1>2. diagram \in ReadItem BY <1>1 DEF ReadItem
<1>3. page.items \in Seq(ReadItem) BY <1>1, ItemsAreRead
<1>4. PageItems(page) = page.items \/ PageItems(page) = Append(page.items, diagram) BY DEF PageItems
<1> HIDE DEF diagram
<1>5. Append(page.items, diagram) \in Seq(ReadItem) BY <1>2, <1>3, AppendSays
<1> QED BY <1>3, <1>4, <1>5

\* The items of no page, and those of one page more.
LEMMA ItemsNone == Items(<<>>) = <<>>
<1> DEFINE f == [i \in DOMAIN <<>> |-> PageItems(<<>>[i])]
<1>1. f = <<>> OBVIOUS
<1>2. Items(<<>>) = FlattenSeq(f) BY DEF Items
<1> HIDE DEF f
<1> QED BY <1>1, <1>2, FlattenNone

\* ... come behind the others.
LEMMA ItemsGrows ==
  ASSUME NEW s \in Seq(Readable), NEW x \in Readable
  PROVE  Items(Append(s, x)) = Then(Items(s), PageItems(x))
<1> DEFINE n == Len(s)
           all == Append(s, x)
           f == [i \in 1..n + 1 |-> PageItems(all[i])]
           one == [i \in 1..n |-> f[i]]
           two == [i \in 1..n + 1 |-> f[i]]
<1>1. n \in Nat /\ DOMAIN s = 1..n /\ \A i \in 1..n : s[i] \in Readable OBVIOUS
<1>2. DOMAIN all = 1..n + 1 /\ all[n + 1] = x /\ \A i \in 1..n : all[i] = s[i] OBVIOUS
<1> HIDE DEF n, all
<1>3. \A i \in 1..n + 1 : f[i] \in Seq(ReadItem)
  <2>1. ASSUME NEW i \in 1..n + 1 PROVE f[i] \in Seq(ReadItem)
    <3>1. i \in 1..n \/ i = n + 1 BY <1>1
    <3>2. all[i] \in Readable BY <1>1, <1>2, <3>1
    <3>3. PageItems(all[i]) \in Seq(ReadItem) BY <3>2, PageItemsTyped
    <3> QED BY <3>3
  <2> QED BY <2>1
<1>4. Items(s) = FlattenSeq(one)
  <2>1. \A i \in 1..n : f[i] = PageItems(s[i])
    <3>1. \A i \in 1..n : i \in 1..n + 1 BY <1>1
    <3> QED BY <1>2, <3>1
  <2> DEFINE g == [i \in DOMAIN s |-> PageItems(s[i])]
  <2>2. one = g
    <3> HIDE DEF f
    <3> QED BY <1>1, <2>1
  <2>3. Items(s) = FlattenSeq(g) BY DEF Items
  <2> HIDE DEF one, g
  <2> QED BY <2>2, <2>3
<1>5. Items(all) = FlattenSeq(two)
  <2> DEFINE g == [i \in DOMAIN all |-> PageItems(all[i])]
  <2>1. two = g BY <1>2
  <2>2. Items(all) = FlattenSeq(g) BY DEF Items
  <2> HIDE DEF two, g
  <2> QED BY <2>1, <2>2
<1>6. FlattenSeq(two) = Then(FlattenSeq(one), f[n + 1])
  <2> HIDE DEF f
  <2> QED BY <1>1, <1>3, FlattenGrows
<1>7. f[n + 1] = PageItems(x)
  <2>1. n + 1 \in 1..n + 1 BY <1>1
  <2> QED BY <1>2, <2>1
<1> HIDE DEF one, two, f
<1> QED BY <1>4, <1>5, <1>6, <1>7 DEF all

\* The parser reads a page, with its diagram.
LEMMA PageRead ==
  ASSUME NEW st, NEW h, ReadUpTo(st, h), NEW page \in Readable
  PROVE  ReadUpTo(ParsePage(st, page), Then(h, PageItems(page)))
<1> DEFINE base == [st EXCEPT !.page = @ + 1, !.tables = 0]
           items == page.items
           read == ItemsOn(base, items)
           block == [kind |-> "flowchart", page |-> read.page, lines |-> page.diagram,
                     marked |-> page.marked]
           diagram == [kind |-> "diagram", lines |-> page.diagram]
           new == ParsePage(st, page)
<1>1. items \in Seq(Item) /\ page.diagram \in Seq(Line) /\ page.marked \in 0..Len(page.diagram)
  BY DEF Readable
<1>2. st \in Parsing BY DEF ReadUpTo
<1>3. base \in Parsing /\ base.blocks = st.blocks /\ base.pending = st.pending
  <2>1. st.page + 1 \in Nat /\ 0 \in Nat BY <1>2 DEF Parsing
  <2> DEFINE next == st.page + 1
  <2>2. base = [blocks |-> st.blocks, pending |-> st.pending, last |-> st.last,
                page |-> next, tables |-> 0]
    <3>1. base = [st EXCEPT !.page = next, !.tables = 0] OBVIOUS
    <3> HIDE DEF next, base
    <3> QED BY <1>2, <3>1 DEF Parsing
  <2> QED BY <1>2, <2>1, <2>2 DEF Parsing
<1>4. new = IF page.diagram = <<>> THEN read
            ELSE [read EXCEPT !.blocks = Append(@, block)]
  BY DEF ParsePage, ItemsOn
<1> HIDE DEF base, items, new
<1>5. ReadUpTo(base, h) BY <1>3 DEF ReadUpTo
<1>6. ReadUpTo(read, Then(h, items)) BY <1>1, <1>5, ItemsRead
<1> HIDE DEF read
<1>7. CASE page.diagram = <<>>
  <2>1. PageItems(page) = items BY <1>7 DEF PageItems, items
  <2>2. new = read BY <1>4, <1>7
  <2>3. ReadUpTo(new, Then(h, PageItems(page))) BY <1>6, <2>1, <2>2
  <2> QED BY <2>3 DEF new
<1>8. CASE page.diagram # <<>>
  <2> DEFINE old == Then(h, items)
             section == SectionAfter(old)
             sub == SubAfter(old)
             all == Append(old, diagram)
             c == Place(block, section, sub)
  <2>1. PageItems(page) = Append(items, diagram) BY <1>8 DEF PageItems, items
  <2>2. read \in Parsing /\ old \in Seq(ReadItem) /\ read.pending = CaptionAfter(old)
        /\ Aligned(read.blocks, old) /\ AllTraced(old, read.blocks)
    BY <1>6 DEF ReadUpTo
  <2>3. block \in Blocks /\ block.kind = "flowchart"
    BY <1>1, <1>8, <2>2 DEF Flow, Parsing, Blocks, Body
  <2>4. [read EXCEPT !.blocks = Append(@, block)] \in Parsing
        /\ new.blocks = Append(read.blocks, block) /\ new.pending = read.pending
    <3>1. new = [read EXCEPT !.blocks = Append(@, block)] BY <1>4, <1>8
    <3>2. read.blocks \in Seq(Blocks) BY <2>2 DEF Parsing, Blocks
    <3> DEFINE more == Append(read.blocks, block)
    <3>3. more \in Seq(Blocks)
      <4> HIDE DEF block
      <4> QED BY <2>3, <3>2, AppendSays
    <3>4. new = [read EXCEPT !.blocks = more] BY <3>1
    <3> HIDE DEF block, new, more
    <3> QED BY <2>2, <3>1, <3>3, <3>4 DEF Parsing, Blocks, more
  <2>5. diagram \in ReadItem /\ diagram.kind = "diagram" BY <1>1 DEF ReadItem
  <2>6. Texts(block.lines) = LinesOf(diagram) BY DEF LinesOf
  <2> HIDE DEF block
  <2>7. c.kind = "flowchart" /\ c.section = section /\ c.sub = sub BY <2>3 DEF Place
  <2>8. Then(h, Append(items, diagram)) = all
    <3>1. items \in Seq(ReadItem) BY <1>1, ItemsAreRead
    <3>2. h \in Seq(ReadItem) BY DEF ReadUpTo
    <3> HIDE DEF diagram
    <3> QED BY <2>5, <3>1, <3>2, ThenAppend
  <2> HIDE DEF c, diagram, old
  <2>9. \A x \in ToSet(LinesOf(diagram)) : Traced(all, x, c) BY <2>2, <2>5, <2>7, TracedLast
  <2>10. BlockTraced(all, block, section, sub) BY <2>6, <2>9 DEF BlockTraced, c
  <2>11. read.blocks \in Seq(Blocks) BY <2>2 DEF Parsing, Blocks
  <2>12. Aligned(Append(read.blocks, block), all) /\ AllTraced(all, Append(read.blocks, block))
    BY <2>2, <2>3, <2>5, <2>10, <2>11, BlockRead
  <2>13. CaptionAfter(all) = CaptionAfter(old) BY <2>2, <2>5, AboveGrows
  <2>14. new \in Parsing BY <1>4, <1>8, <2>4
  <2>15. all \in Seq(ReadItem) BY <2>2, <2>5, AppendSays
  <2>16. ReadUpTo(new, all) BY <2>2, <2>4, <2>12, <2>13, <2>14, <2>15 DEF ReadUpTo
  <2> QED BY <2>1, <2>8, <2>16 DEF new
<1> QED BY <1>7, <1>8

\* ... and all pages.
LEMMA PagesRead ==
  ASSUME NEW pages \in Seq(Readable), NEW base \in Parsing, ReadUpTo(base, <<>>)
  PROVE  ReadUpTo(PagesOn(base, pages), Items(pages))
<1> DEFINE S == {u \in Seq(Readable) : ReadUpTo(PagesOn(base, u), Items(u))}
<1>1. <<>> \in S
  <2>1. PagesOn(base, <<>>) = base BY ParsePageNone
  <2>2. Items(<<>>) = <<>> BY ItemsNone
  <2>3. <<>> \in Seq(Readable) OBVIOUS
  <2> QED BY <2>1, <2>2, <2>3
<1>2. ASSUME NEW u \in Seq(Readable), NEW x \in Readable, u \in S PROVE Append(u, x) \in S
  <2> DEFINE v == PagesOn(base, u)
             new == Append(u, x)
  <2>1. ReadUpTo(v, Items(u)) BY <1>2
  <2>2. StepsTo(PagesOn(base, new), ParsePage(v, x), Parsing)
    <3>1. \A w \in Parsing : \A e \in Readable : ParsePage(w, e) \in Parsing BY ParsePageTyped
    <3> QED BY <3>1, ParsePageGrows
  <2>3. new \in Seq(Readable) BY AppendSays
  <2>4. Items(new) = Then(Items(u), PageItems(x)) BY ItemsGrows
  <2> HIDE DEF v, new
  <2>5. ReadUpTo(ParsePage(v, x), Then(Items(u), PageItems(x))) BY <2>1, PageRead
  <2>6. ReadUpTo(PagesOn(base, new), Items(new)) BY <2>2, <2>4, <2>5 DEF StepsTo
  <2> QED BY <2>3, <2>6 DEF new
<1>3. pages \in S
  <2> HIDE DEF S
  <2> QED BY <1>1, <1>2, SeqInduction
<1> QED BY <1>3
-----------------------------------------------------------------------------
(* Traced through merging, grouping, stitching and splitting.              *)

\* A sequence is all but its last, and the last.
Fronted(out, T) ==
  \E front \in Seq(T) : /\ out = Append(front, out[Len(out)])
                        /\ \A y \in T : [out EXCEPT ![Len(out)] = y] = Append(front, y)

LEMMA FrontOf ==
  ASSUME NEW T, NEW out \in Seq(T), out # <<>>
  PROVE  Fronted(out, T) /\ Len(out) \in 1..Len(out) /\ out[Len(out)] \in T
         /\ out[Len(out)] = Last(out)
BY LastOf DEF Fronted

\* A block more is merged.
LEMMA MergeBlockTraced ==
  ASSUME NEW h, NEW v \in Seq(Blocks), NEW u \in Seq(Blocks), NEW x \in Blocks,
         Aligned(v, u), AllTraced(h, v), AllTraced(h, Append(u, x))
  PROVE  /\ MergeBlock(v, x) \in Seq(Blocks)
         /\ Aligned(MergeBlock(v, x), Append(u, x)) /\ AllTraced(h, MergeBlock(v, x))
<1>1. x.kind # "heading" => BlockTraced(h, x, SectionAfter(v), SubAfter(v))
  BY AllTracedGrows DEF Aligned
<1>2. /\ SectionAfter(Append(u, x))
           = IF x.kind = "heading" /\ Top(x) THEN x.name ELSE SectionAfter(u)
      /\ SubAfter(Append(u, x))
           = IF x.kind = "heading" THEN IF Top(x) THEN NoName ELSE x.name ELSE SubAfter(u)
  BY AboveGrows
<1>3. CASE x.kind = "prose" /\ v # <<>> /\ Last(v).kind = "prose"
  <2> DEFINE n == Len(v)
             last == v[n]
             lines == last.lines \o x.lines
             joined == [last EXCEPT !.lines = lines]
             new == MergeBlock(v, x)
  <2>0. n = Len(v) /\ v # <<>> BY <1>3
  <2> HIDE DEF n
  <2>1. n \in 1..n /\ last \in Blocks /\ last = Last(v) BY <2>0, LastOf
  <2>2. PICK front \in Seq(Blocks) : /\ v = Append(front, last)
                                     /\ \A y \in Blocks : [v EXCEPT ![n] = y] = Append(front, y)
    BY <2>0, FrontOf DEF Fronted
  <2>3. new = [v EXCEPT ![n] = joined] BY <1>3, <2>0, <2>1 DEF MergeBlock, JoinLast
  <2> HIDE DEF last, new
  <2>4. last \in Prose /\ x \in Prose /\ last.kind = "prose"
    BY <1>3, <2>1 DEF Blocks, Heading, Body, Prose, Table, Flow
  <2>5. last.lines \in Seq(Line) /\ x.lines \in Seq(Line) BY <2>4 DEF Prose
  <2>6. lines \in Seq(Line) /\ ToSet(lines) = ToSet(last.lines) \cup ToSet(x.lines)
    <3>1. lines = Then(last.lines, x.lines) BY DEF Then
    <3> HIDE DEF lines
    <3> QED BY <2>5, <3>1, ThenSays
  <2> HIDE DEF lines
  <2>7. joined \in Blocks /\ joined.kind = "prose" /\ joined.lines = lines
    BY <2>4, <2>6 DEF Prose, Body, Blocks
  <2> HIDE DEF joined
  <2>8. new = Append(front, joined) BY <2>2, <2>3, <2>7
  <2>9. AllTraced(h, front) /\ BlockTraced(h, last, SectionAfter(front), SubAfter(front))
    <3>1. AllTraced(h, Append(front, last)) BY <2>2
    <3>2. last.kind # "heading" BY <2>4
    <3> QED BY <2>1, <3>1, <3>2, AllTracedGrows
  <2>10. \A y \in Blocks : y.kind = "prose" => /\ SectionAfter(Append(front, y)) = SectionAfter(front)
                                               /\ SubAfter(Append(front, y)) = SubAfter(front)
    <3> SUFFICES ASSUME NEW y \in Blocks, y.kind = "prose"
                 PROVE  /\ SectionAfter(Append(front, y)) = SectionAfter(front)
                        /\ SubAfter(Append(front, y)) = SubAfter(front)
      OBVIOUS
    <3>1. y.kind # "heading" OBVIOUS
    <3>2. /\ SectionAfter(Append(front, y))
               = IF y.kind = "heading" /\ Top(y) THEN y.name ELSE SectionAfter(front)
          /\ SubAfter(Append(front, y))
               = IF y.kind = "heading" THEN IF Top(y) THEN NoName ELSE y.name ELSE SubAfter(front)
      BY AboveGrows
    <3> QED BY <3>1, <3>2
  <2>11. SectionAfter(v) = SectionAfter(front) /\ SubAfter(v) = SubAfter(front)
    BY <2>1, <2>2, <2>4, <2>10
  <2>12. SectionAfter(new) = SectionAfter(front) /\ SubAfter(new) = SubAfter(front)
    BY <2>7, <2>8, <2>10
  <2>13. BlockTraced(h, joined, SectionAfter(front), SubAfter(front))
    <3>1. BlockTraced(h, x, SectionAfter(front), SubAfter(front)) BY <1>1, <1>3, <2>11
    <3>2. OwnCaption(x) = NoName /\ OwnCaption(joined) = NoName /\ OwnCaption(last) = NoName
      BY <1>3, <2>4, <2>7 DEF OwnCaption
    <3>3. \A l \in ToSet(lines) : l \in ToSet(last.lines) \/ l \in ToSet(x.lines) BY <2>6
    <3> QED BY <1>3, <2>4, <2>7, <2>9, <3>1, <3>2, <3>3, JoinTraced
  <2>14. AllTraced(h, Append(front, joined)) BY <2>7, <2>9, <2>13, AllTracedGrows
  <2>15. Append(front, joined) \in Seq(Blocks) BY <2>7, AppendSays
  <2>16. Aligned(new, Append(u, x)) BY <1>2, <1>3, <2>11, <2>12 DEF Aligned
  <2> QED BY <2>8, <2>14, <2>15, <2>16 DEF new
<1>4. CASE ~(x.kind = "prose" /\ v # <<>> /\ Last(v).kind = "prose")
  <2>1. MergeBlock(v, x) = Append(v, x) BY <1>4 DEF MergeBlock
  <2>2. /\ SectionAfter(Append(v, x))
             = IF x.kind = "heading" /\ Top(x) THEN x.name ELSE SectionAfter(v)
        /\ SubAfter(Append(v, x))
             = IF x.kind = "heading" THEN IF Top(x) THEN NoName ELSE x.name ELSE SubAfter(v)
    BY AboveGrows
  <2>3. Aligned(Append(v, x), Append(u, x)) BY <1>2, <2>2 DEF Aligned
  <2>4. AllTraced(h, Append(v, x)) BY <1>1, AllTracedGrows
  <2>5. Append(v, x) \in Seq(Blocks) BY AppendSays
  <2> QED BY <2>1, <2>3, <2>4, <2>5
<1> QED BY <1>3, <1>4

\* All blocks are.
LEMMA MergeTraced ==
  ASSUME NEW h, NEW blocks \in Seq(Blocks), AllTraced(h, blocks)
  PROVE  AllTraced(h, MergeProse(blocks))
<1> DEFINE V == Seq(Blocks)
           base == <<>>
           Fine(u) == /\ Merged(base, u) \in V
                      /\ Aligned(Merged(base, u), u) /\ AllTraced(h, Merged(base, u))
           S == {u \in V : AllTraced(h, u) => Fine(u)}
<1>1. base \in V /\ <<>> = base /\ Len(base) = 0 OBVIOUS
<1> HIDE DEF base
<1>2. base \in S
  <2>1. Merged(base, <<>>) = base BY MergeBlockNone
  <2>2. AllTraced(h, base) BY <1>1 DEF AllTraced
  <2>3. Fine(base) BY <1>1, <2>1, <2>2 DEF Aligned
  <2> QED BY <1>1, <2>3
<1>3. ASSUME NEW u \in V, NEW x \in Blocks, u \in S PROVE Append(u, x) \in S
  <2> DEFINE v == Merged(base, u)
             new == Append(u, x)
  <2>1. new \in V BY AppendSays
  <2>2. StepsTo(Merged(base, new), MergeBlock(v, x), V)
    <3>1. \A w \in V : \A e \in Blocks : MergeBlock(w, e) \in V
      <4> SUFFICES ASSUME NEW w \in V, NEW e \in Blocks PROVE MergeBlock(w, e) \in V OBVIOUS
      <4>1. MergeBlock(w, e) = Append(w, e) \/ (e.kind = "prose" /\ w # <<>> /\ Last(w).kind = "prose")
        BY DEF MergeBlock
      <4>2. Append(w, e) \in V BY AppendSays
      <4>3. ASSUME e.kind = "prose", w # <<>>, Last(w).kind = "prose" PROVE MergeBlock(w, e) \in V
        <5>1. MergeBlock(w, e) = JoinLast(w, e) BY <4>3 DEF MergeBlock
        <5>2. e \in Body BY <4>3 DEF Blocks, Heading
        <5> QED BY <4>3, <5>1, <5>2, JoinSays
      <4> QED BY <4>1, <4>2, <4>3
    <3> HIDE DEF V
    <3> QED BY <1>1, <3>1, MergeBlockGrows DEF V
  <2> HIDE DEF v, new
  <2>3. ASSUME AllTraced(h, new) PROVE Fine(new)
    <3>1. AllTraced(h, u) BY <2>3, AllTracedGrows DEF new
    <3>2. v \in V /\ Aligned(v, u) /\ AllTraced(h, v) BY <1>3, <3>1 DEF v
    <3>3. MergeBlock(v, x) \in V /\ Aligned(MergeBlock(v, x), new) /\ AllTraced(h, MergeBlock(v, x))
      BY <2>3, <3>2, MergeBlockTraced DEF new
    <3> QED BY <2>2, <3>3 DEF StepsTo
  <2> HIDE DEF Fine
  <2> QED BY <2>1, <2>3 DEF new
<1>4. blocks \in S
  <2> HIDE DEF S
  <2> QED BY <1>1, <1>2, <1>3, SeqInduction
<1> QED BY <1>4 DEF MergeProse, Merged, base

\* The blocks of a group are traced under its headings.
GroupTraced(h, g) == \A b \in ToSet(g.blocks) : BlockTraced(h, b, g.section, g.sub)

\* The groups so far: the last one has the headings that govern what comes next.
GroupsTraced(h, acc, u) ==
  /\ acc.section = SectionAfter(u)
  /\ acc.groups = <<>> => SubAfter(u) = NoName
  /\ acc.groups # <<>> => /\ acc.groups[Len(acc.groups)].section = SectionAfter(u)
                          /\ acc.groups[Len(acc.groups)].sub = SubAfter(u)
  /\ \A g \in ToSet(acc.groups) : GroupTraced(h, g)

\* A block more comes into its group.
LEMMA GroupBlockTraced ==
  ASSUME NEW h, NEW v \in Grouping, NEW u \in Seq(Blocks), NEW x \in Blocks,
         GroupsTraced(h, v, u), AllTraced(h, Append(u, x))
  PROVE  GroupsTraced(h, GroupBlock(v, x), Append(u, x))
<1> DEFINE old == v.groups
           new == GroupBlock(v, x)
           all == Append(u, x)
<1>1. old \in Seq(Grouped) /\ v.section \in Titles BY DEF Grouping
<1>2. /\ SectionAfter(all) = IF x.kind = "heading" /\ Top(x) THEN x.name ELSE SectionAfter(u)
      /\ SubAfter(all) = IF x.kind = "heading" THEN IF Top(x) THEN NoName ELSE x.name
                         ELSE SubAfter(u)
  BY AboveGrows
<1>3. v.section = SectionAfter(u) /\ \A g \in ToSet(old) : GroupTraced(h, g) BY DEF GroupsTraced
<1>4. CASE x.kind = "heading"
  <2> DEFINE top == x.level \in {1, 2}
             section == IF top THEN x.name ELSE v.section
             sub == IF top THEN NoName ELSE x.name
             g == NewGroup(section, sub)
             more == Append(old, g)
  <2>1. x.name \in Names BY <1>4 DEF Blocks, Heading, Body, Prose, Table, Flow
  <2>2. section \in Titles /\ sub \in Titles BY <1>1, <2>1 DEF Titles
  <2>3. new.groups = more /\ new.section = section BY <1>4 DEF GroupBlock
  <2>4. section = SectionAfter(all) /\ sub = SubAfter(all) BY <1>2, <1>3, <1>4 DEF Top
  <2> HIDE DEF section, sub, old, all, new
  <2>5. g \in Grouped /\ g.blocks = <<>> /\ g.section = section /\ g.sub = sub
    BY <2>2 DEF NewGroup, Grouped
  <2> HIDE DEF g
  <2>6. more \in Seq(Grouped) /\ ToSet(more) = ToSet(old) \cup {g} BY <1>1, <2>5, AppendSays
  <2>7. more # <<>> /\ more[Len(more)] = g BY <1>1, <2>5
  <2> HIDE DEF more
  <2>8. GroupTraced(h, g) BY <2>5 DEF GroupTraced, ToSet
  <2>9. \A f \in ToSet(more) : GroupTraced(h, f) BY <1>3, <2>6, <2>8 DEF old
  <2>10. GroupsTraced(h, new, all) BY <2>3, <2>4, <2>5, <2>7, <2>9 DEF GroupsTraced
  <2> QED BY <2>10 DEF new, all
<1>5. CASE x.kind # "heading"
  <2> DEFINE none == <<>>
             g == NewGroup(v.section, NoName)
             groups == IF old = none THEN <<g>> ELSE old
             n == Len(groups)
             last == groups[n]
             blocks == Append(last.blocks, x)
             filled == [last EXCEPT !.blocks = blocks]
  <2>1. x \in Body BY <1>5 DEF Blocks, Heading
  <2>2. g \in Grouped /\ g.section = v.section /\ g.sub = NoName /\ g.blocks = <<>>
    BY <1>1 DEF NewGroup, Grouped, Titles
  <2>3. new.groups = [groups EXCEPT ![n] = filled] /\ new.section = v.section
    BY <1>5 DEF GroupBlock, Grouping
  <2>4. groups \in Seq(Grouped) /\ groups # <<>> BY <1>1, <2>2
  <2>5. /\ last.section = SectionAfter(u) /\ last.sub = SubAfter(u)
        /\ \A f \in ToSet(groups) : GroupTraced(h, f)
    <3>1. CASE old = none
      <4>1. last = g BY <3>1
      <4>2. \A f \in ToSet(groups) : f = g BY <3>1 DEF ToSet
      <4>3. GroupTraced(h, g)
        <5> HIDE DEF g
        <5> QED BY <2>2 DEF GroupTraced, ToSet
      <4>4. SubAfter(u) = NoName BY <3>1 DEF GroupsTraced
      <4> HIDE DEF groups, last, g
      <4> QED BY <1>3, <2>2, <4>1, <4>2, <4>3, <4>4
    <3>2. CASE old # none BY <1>3, <3>2 DEF GroupsTraced
    <3> QED BY <3>1, <3>2
  <2> HIDE DEF groups, new, all
  <2>0. n = Len(groups) OBVIOUS
  <2> HIDE DEF n, g
  <2>6. n \in 1..n /\ last \in Grouped BY <2>0, <2>4, LastOf
  <2>7. PICK front \in Seq(Grouped) : /\ groups = Append(front, last)
                                      /\ \A y \in Grouped : [groups EXCEPT ![n] = y] = Append(front, y)
    <3>1. Fronted(groups, Grouped) BY <2>4, FrontOf
    <3> QED BY <2>0, <3>1 DEF Fronted
  <2> HIDE DEF last
  <2>8. last.blocks \in Seq(Body) BY <2>6 DEF Grouped
  <2>9. blocks \in Seq(Body) /\ ToSet(blocks) = ToSet(last.blocks) \cup {x} BY <2>1, <2>8, AppendSays
  <2> HIDE DEF blocks
  <2>10. filled \in Grouped /\ filled.blocks = blocks /\ filled.section = last.section
         /\ filled.sub = last.sub
    BY <2>6, <2>9 DEF Grouped
  <2> HIDE DEF filled
  <2> DEFINE more == Append(front, filled)
  <2>11. new.groups = more BY <2>3, <2>7, <2>10
  <2>12. ToSet(more) = ToSet(front) \cup {filled} /\ ToSet(groups) = ToSet(front) \cup {last}
    BY <2>6, <2>7, <2>10, AppendSays
  <2>13. more # <<>> /\ more[Len(more)] = filled BY <2>10
  <2> HIDE DEF more
  <2>14. BlockTraced(h, x, SectionAfter(u), SubAfter(u)) BY <1>5, AllTracedGrows
  <2>15. GroupTraced(h, filled)
    <3>1. GroupTraced(h, last) BY <2>5, <2>12
    <3> QED BY <2>5, <2>9, <2>10, <2>14, <3>1 DEF GroupTraced
  <2>16. \A f \in ToSet(more) : GroupTraced(h, f) BY <2>5, <2>12, <2>15
  <2>17. SectionAfter(all) = SectionAfter(u) /\ SubAfter(all) = SubAfter(u) BY <1>2, <1>5
  <2>18. GroupsTraced(h, new, all)
    BY <1>3, <2>3, <2>5, <2>10, <2>11, <2>13, <2>16, <2>17 DEF GroupsTraced
  <2> QED BY <2>18 DEF new, all
<1> QED BY <1>4, <1>5

\* All blocks do.
LEMMA GroupingTraced ==
  ASSUME NEW h, NEW blocks \in Seq(Blocks), AllTraced(h, blocks), NEW g \in ToSet(Group(blocks))
  PROVE  GroupTraced(h, g)
<1> DEFINE V == Grouping
           base == [section |-> NoName, groups |-> <<>>]
           Fine(u) == GroupedOn(base, u) \in V /\ GroupsTraced(h, GroupedOn(base, u), u)
           S == {u \in Seq(Blocks) : AllTraced(h, u) => Fine(u)}
<1>1. base \in V /\ base.groups = <<>> /\ base.section = NoName BY DEF Grouping, Titles
<1> HIDE DEF base
<1>2. <<>> \in S
  <2>1. GroupedOn(base, <<>>) = base BY GroupBlockNone
  <2>2. \A f : f \notin ToSet(<<>>) BY DEF ToSet
  <2>3. GroupsTraced(h, base, <<>>) BY <1>1, <2>2, NothingAbove DEF GroupsTraced
  <2>4. Fine(<<>>) BY <1>1, <2>1, <2>3
  <2>5. <<>> \in Seq(Blocks) OBVIOUS
  <2> HIDE DEF Fine
  <2> QED BY <2>4, <2>5
<1>3. ASSUME NEW u \in Seq(Blocks), NEW x \in Blocks, u \in S PROVE Append(u, x) \in S
  <2> DEFINE v == GroupedOn(base, u)
             new == Append(u, x)
  <2>1. new \in Seq(Blocks) BY AppendSays
  <2>2. StepsTo(GroupedOn(base, new), GroupBlock(v, x), V)
    <3>1. \A w \in V : \A e \in Blocks : GroupBlock(w, e) \in V BY GroupBlockTyped DEF Blocks
    <3> HIDE DEF V
    <3> QED BY <1>1, <3>1, GroupBlockGrows
  <2> HIDE DEF v, new
  <2>3. ASSUME AllTraced(h, new) PROVE Fine(new)
    <3>1. AllTraced(h, u) BY <2>3, AllTracedGrows DEF new
    <3>2. v \in V /\ GroupsTraced(h, v, u) BY <1>3, <3>1 DEF v
    <3>3. GroupsTraced(h, GroupBlock(v, x), new) BY <2>3, <3>2, GroupBlockTraced DEF new
    <3> QED BY <2>2, <3>3 DEF StepsTo
  <2> HIDE DEF Fine
  <2> QED BY <2>1, <2>3 DEF new
<1>4. blocks \in S
  <2> HIDE DEF S
  <2> QED BY <1>2, <1>3, SeqInduction
<1>5. Group(blocks) = GroupedOn(base, blocks).groups BY DEF Group, GroupedOn, base
<1> QED BY <1>4, <1>5 DEF GroupsTraced
-----------------------------------------------------------------------------
(* Traced through stitching and splitting.                                 *)

\* Blocks that are traced under the headings of their group.
TracedBlock(h, section, sub) == {b \in Body : BlockTraced(h, b, section, sub)}

\* They stay so when they are stitched: a continuation has no caption of its own.
LEMMA StitchTraced ==
  ASSUME NEW h, NEW section, NEW sub, NEW blocks \in Seq(TracedBlock(h, section, sub))
  PROVE  Stitch(blocks) \in Seq(TracedBlock(h, section, sub))
<1> DEFINE T == TracedBlock(h, section, sub)
           V == Seq(T)
<1>1. \A b : b \in T <=> b \in Body /\ BlockTraced(h, b, section, sub) BY DEF TracedBlock
<1> HIDE DEF T
<1>2. ASSUME NEW v \in V, NEW x \in T PROVE StitchBlock(v, x) \in V
  <2>1. CASE x.kind = "table" /\ x.cont /\ v # <<>> /\ Last(v).kind = "table"
    <3> DEFINE n == Len(v)
               last == v[n]
               lines == last.lines \o x.lines
               joined == [last EXCEPT !.lines = lines]
               new == StitchBlock(v, x)
    <3>1. n = Len(v) /\ v # <<>> BY <2>1
    <3>2. new = [v EXCEPT ![n].lines = @ \o x.lines] BY <2>1 DEF StitchBlock, JoinLast
    <3> HIDE DEF n
    <3>3. n \in 1..n /\ last \in T /\ last = Last(v) BY <3>1, LastOf
    <3>4. PICK front \in Seq(T) : /\ v = Append(front, last)
                                  /\ \A y \in T : [v EXCEPT ![n] = y] = Append(front, y)
      <4>1. Fronted(v, T) BY <3>1, FrontOf
      <4> QED BY <3>1, <4>1 DEF Fronted
    <3>5. new = [v EXCEPT ![n] = joined] BY <3>1, <3>2, <3>3
    <3> HIDE DEF last, new
    <3>6. last \in Table /\ x \in Table /\ last.kind = "table"
      BY <1>1, <2>1, <3>3 DEF Body, Prose, Table, Flow
    <3>7. last.lines \in Seq(Line) /\ x.lines \in Seq(Line) BY <3>6 DEF Table
    <3>8. lines \in Seq(Line) /\ ToSet(lines) = ToSet(last.lines) \cup ToSet(x.lines)
      <4>1. lines = Then(last.lines, x.lines) BY DEF Then
      <4> HIDE DEF lines
      <4> QED BY <3>7, <4>1, ThenSays
    <3> HIDE DEF lines
    <3>9. joined \in Body /\ joined.kind = "table" /\ joined.lines = lines
          /\ joined.cont = last.cont /\ joined.caption = last.caption
      BY <3>6, <3>8 DEF Table, Body
    <3> HIDE DEF joined
    <3>10. OwnCaption(x) = NoName /\ OwnCaption(joined) = OwnCaption(last)
      BY <2>1, <3>6, <3>9 DEF OwnCaption
    <3>11. \A l \in ToSet(lines) : l \in ToSet(last.lines) \/ l \in ToSet(x.lines) BY <3>8
    <3>12. BlockTraced(h, last, section, sub) /\ BlockTraced(h, x, section, sub)
      BY <1>1, <3>3
    <3>13. BlockTraced(h, joined, section, sub)
      BY <2>1, <3>6, <3>9, <3>10, <3>11, <3>12, JoinTraced
    <3>14. joined \in T BY <1>1, <3>9, <3>13
    <3>15. new = Append(front, joined) BY <3>4, <3>5, <3>14
    <3>16. Append(front, joined) \in Seq(T) BY <3>14, AppendSays
    <3> QED BY <3>15, <3>16 DEF new
  <2>2. CASE ~(x.kind = "table" /\ x.cont /\ v # <<>> /\ Last(v).kind = "table")
    BY <2>2 DEF StitchBlock
  <2> QED BY <2>1, <2>2
<1>3. <<>> \in V /\ Len(blocks) \in Nat /\ DOMAIN blocks = 1..Len(blocks)
      /\ \A i \in 1..Len(blocks) : blocks[i] \in T
  BY DEF T
<1> HIDE DEF V
<1>4. \A i \in 1..Len(blocks) : \A v \in V : StitchBlock(v, blocks[i]) \in V BY <1>2, <1>3
<1>5. FoldLeft(StitchBlock, <<>>, blocks) \in V BY <1>3, <1>4, StitchBlockRuns, RunStays
<1> QED BY <1>5 DEF Stitch, V, T

\* Prose is split into sentences of its own.
LEMMA SplitProseParts ==
  ASSUME NEW L, L \subseteq Line, NEW lines \in Seq(L)
  PROVE  SplitProse(lines) \in Seq(Seq(L))
<1> DEFINE V == [out : Seq(Seq(L)), cur : Seq(L)]
           base == [out |-> <<>>, cur |-> <<>>]
<1>1. CASE Tokens(lines) <= MaxTokens BY <1>1 DEF SplitProse
<1>2. CASE ~(Tokens(lines) <= MaxTokens)
  <2>1. base \in V OBVIOUS
  <2>2. ASSUME NEW v \in V, NEW line \in L PROVE AddSentence(v, line) \in V
    <3>1. v = [out |-> v.out, cur |-> v.cur] /\ v.cur \in Seq(L) /\ v.out \in Seq(Seq(L)) OBVIOUS
    <3>2. Carry(v.cur) \in Seq(L)
      <4> DEFINE cur == v.cur
      <4>1. cur \in Seq(Line) /\ cur \in Seq(L) BY <3>1
      <4> HIDE DEF cur
      <4>2. PICK first \in 1..Len(cur) + 1 : Carry(cur) = SubSeq(cur, first, Len(cur))
        BY <4>1, CarryEnds
      <4>3. SubSeq(cur, first, Len(cur)) \in Seq(L) BY <4>1
      <4> QED BY <4>2, <4>3 DEF cur
    <3>3. Append(Carry(v.cur), line) \in Seq(L) /\ Append(v.out, v.cur) \in Seq(Seq(L))
          /\ Append(v.cur, line) \in Seq(L)
      BY <3>1, <3>2
    <3>4. CASE v.cur # <<>> /\ Tokens(v.cur) + line.size > MaxTokens
      BY <3>3, <3>4 DEF AddSentence
    <3>5. CASE ~(v.cur # <<>> /\ Tokens(v.cur) + line.size > MaxTokens)
      <4> HIDE DEF V
      <4>1. AddSentence(v, line) = [v EXCEPT !.cur = Append(v.cur, line)] BY <3>5 DEF AddSentence
      <4> QED BY <3>1, <3>3, <4>1 DEF V
    <3> QED BY <3>4, <3>5
  <2> HIDE DEF V
  <2>3. DOMAIN lines = 1..Len(lines) /\ Len(lines) \in Nat
        /\ \A i \in 1..Len(lines) : \A v \in V : AddSentence(v, lines[i]) \in V
    BY <2>2
  <2>4. FoldLeft(AddSentence, base, lines) \in V
    <3> HIDE DEF base
    <3> QED BY <2>1, <2>3, AddSentenceRuns, RunStays
  <2> QED BY <1>2, <2>4 DEF SplitProse, V
<1> QED BY <1>1, <1>2

\* A table is split into rows of its own.
LEMMA SplitTableParts ==
  ASSUME NEW block, NEW L, L \subseteq Line, block.lines \in Seq(L)
  PROVE  SplitTable(block) \in Seq(Seq(L))
<1> DEFINE lines == block.lines
           prefix == Prefix(block)
           V == [out : Seq(Seq(L)), cur : Seq(L)]
           base == [out |-> <<>>, cur |-> <<>>]
           end == Rows(prefix, base, lines)
<1>1. CASE prefix + Tokens(lines) <= MaxTokens BY <1>1 DEF SplitTable
<1>2. CASE ~(prefix + Tokens(lines) <= MaxTokens)
  <2>1. base \in V OBVIOUS
  <2>2. ASSUME NEW v \in V, NEW row \in L PROVE AddRow(v, row, prefix) \in V
    <3> HIDE DEF prefix
    <3>1. v = [out |-> v.out, cur |-> v.cur] /\ v.cur \in Seq(L) /\ v.out \in Seq(Seq(L)) OBVIOUS
    <3>2. <<row>> \in Seq(L) /\ Append(v.out, v.cur) \in Seq(Seq(L)) /\ Append(v.cur, row) \in Seq(L)
      BY <3>1
    <3>3. CASE v.cur # <<>> /\ prefix + Tokens(v.cur) + row.size > MaxTokens
      BY <3>2, <3>3 DEF AddRow
    <3>4. CASE ~(v.cur # <<>> /\ prefix + Tokens(v.cur) + row.size > MaxTokens)
      <4> HIDE DEF V
      <4>1. AddRow(v, row, prefix) = [v EXCEPT !.cur = Append(v.cur, row)] BY <3>4 DEF AddRow
      <4> QED BY <3>1, <3>2, <4>1 DEF V
    <3> QED BY <3>3, <3>4
  <2> HIDE DEF V
  <2>3. DOMAIN lines = 1..Len(lines) /\ Len(lines) \in Nat
        /\ \A i \in 1..Len(lines) : \A v \in V : AddRow(v, lines[i], prefix) \in V
    BY <2>2
  <2>4. end \in V
    <3> HIDE DEF base
    <3> QED BY <2>1, <2>3, AddRowRuns, RunStays
  <2>5. SplitTable(block) = IF end.cur = <<>> THEN end.out ELSE Append(end.out, end.cur)
    BY <1>2 DEF SplitTable, Rows
  <2> HIDE DEF end
  <2> QED BY <2>4, <2>5 DEF V
<1> QED BY <1>1, <1>2

\* Every block is split into lines of its own.
LEMMA SplitParts ==
  ASSUME NEW b \in Body, NEW L, L = ToSet(b.lines)
  PROVE  Split(b) \in Seq(Seq(L))
<1> DEFINE lines == b.lines
<1>1. lines \in Seq(Line) BY DEF Body, Prose, Table, Flow
<1> HIDE DEF lines
<1>2. lines \in Seq(L) /\ L \subseteq Line BY <1>1 DEF lines, ToSet
<1>3. CASE b \in Prose
  <2>1. Split(b) = SplitProse(lines) BY <1>3 DEF Split, Prose, lines
  <2> QED BY <1>2, <2>1, SplitProseParts
<1>4. CASE b \in Table
  <2>1. Split(b) = SplitTable(b) BY <1>4 DEF Split, Table
  <2> QED BY <1>2, <2>1, SplitTableParts DEF lines
<1>5. CASE b \in Flow
  <2>1. Split(b) = SplitFlowchart(b) /\ b.marked \in 0..Len(lines) /\ lines # <<>>
    BY <1>5 DEF Split, Flow, lines
  <2>2. CASE Tokens(lines) <= MaxTokens
    <3>1. SplitFlowchart(b) = <<lines>> BY <2>2 DEF SplitFlowchart, lines
    <3> QED BY <1>2, <2>1, <3>1
  <2>3. CASE ~(Tokens(lines) <= MaxTokens) /\ b.marked = 0
    <3>1. SplitFlowchart(b) = SplitProse(lines) BY <2>3 DEF SplitFlowchart, lines
    <3> QED BY <1>2, <2>1, <3>1, SplitProseParts
  <2>4. CASE ~(Tokens(lines) <= MaxTokens) /\ b.marked # 0
    <3> DEFINE one == SubSeq(lines, 1, b.marked)
               two == <<Head(lines)>> \o SubSeq(lines, b.marked + 1, Len(lines))
    <3>1. one \in Seq(L) /\ two \in Seq(L) BY <1>2, <2>1
    <3>2. SplitFlowchart(b) = SplitProse(one) \o SplitProse(two) BY <2>4 DEF SplitFlowchart, lines
    <3> HIDE DEF one, two
    <3>3. SplitProse(one) \in Seq(Seq(L)) /\ SplitProse(two) \in Seq(Seq(L))
      BY <1>2, <3>1, SplitProseParts
    <3> QED BY <2>1, <3>2, <3>3
  <2> QED BY <2>2, <2>3, <2>4
<1> QED BY <1>3, <1>4, <1>5 DEF Body
\* The lines of a piece are traced.
TracedPiece(h) ==
  {p \in Piece : \A x \in ToSet(Texts(p.lines)) :
                   Traced(h, x, Place(p.block, p.group.section, p.group.sub))}

\* So are the lines of every piece that a block is cut into.
LEMMA CutTraced ==
  ASSUME NEW h, NEW g \in Grouped, NEW b \in TracedBlock(h, g.section, g.sub)
  PROVE  Cut(g, b, Split(b)) \in Seq(TracedPiece(h))
<1> DEFINE parts == Split(b)
           pieces == Cut(g, b, parts)
           L == ToSet(b.lines)
           n == Len(parts)
           place == Place(b, g.section, g.sub)
<1>1. b \in Body /\ BlockTraced(h, b, g.section, g.sub) BY DEF TracedBlock
<1>2. parts \in Seq(Seq(L)) BY <1>1, SplitParts
<1>3. pieces \in Seq(Piece) BY <1>1, CutTyped
<1> HIDE DEF parts, L
<1>4. n \in Nat /\ pieces = [k \in 1..n |-> [group |-> g, block |-> b, lines |-> parts[k]]]
      /\ \A k \in 1..n : parts[k] \in Seq(L)
  BY <1>2 DEF Cut
<1> HIDE DEF n, pieces
<1>5. Len(pieces) = n /\ \A k \in 1..n : pieces[k] \in Piece BY <1>3, <1>4
<1>6. \A k \in 1..n : pieces[k].group = g /\ pieces[k].block = b /\ pieces[k].lines = parts[k]
  BY <1>4
<1>7. ASSUME NEW k \in 1..n PROVE pieces[k] \in TracedPiece(h)
  <2> DEFINE p == pieces[k]
             lines == parts[k]
  <2>1. p \in Piece /\ p.group = g /\ p.block = b /\ p.lines = lines BY <1>5, <1>6
  <2>2. \A l \in ToSet(lines) : l \in ToSet(b.lines)
    <3>1. lines \in Seq(L) BY <1>4
    <3> HIDE DEF lines
    <3>2. ToSet(lines) \subseteq L BY <3>1 DEF ToSet
    <3> QED BY <3>2 DEF L
  <2> HIDE DEF lines, p
  <2>3. ASSUME NEW x \in ToSet(Texts(lines)) PROVE Traced(h, x, place)
    <3>1. \E l \in ToSet(lines) : x = l.id BY TextsOf
    <3>2. \E l \in ToSet(b.lines) : x = l.id BY <2>2, <3>1
    <3>3. x \in ToSet(Texts(b.lines)) BY <3>2, TextsOf
    <3> QED BY <1>1, <3>3 DEF BlockTraced
  <2>4. p \in TracedPiece(h) BY <2>1, <2>3 DEF TracedPiece
  <2> QED BY <2>4 DEF p
<1>8. pieces \in Seq(TracedPiece(h)) BY <1>3, <1>5, <1>7
<1> QED BY <1>8 DEF pieces, parts

\* ... that a group is cut into ...
LEMMA GroupPiecesTraced ==
  ASSUME NEW h, NEW g \in Grouped, GroupTraced(h, g)
  PROVE  GroupPieces(g) \in Seq(TracedPiece(h))
<1> DEFINE V == Seq(TracedPiece(h))
           T == TracedBlock(h, g.section, g.sub)
           blocks == Stitch(g.blocks)
<1>1. g.blocks \in Seq(Body) BY DEF Grouped
<1>2. g.blocks \in Seq(T)
  <2>1. \A i \in 1..Len(g.blocks) : g.blocks[i] \in T
    BY <1>1 DEF GroupTraced, TracedBlock, ToSet
  <2> HIDE DEF T
  <2> QED BY <1>1, <2>1
<1>3. blocks \in Seq(T) BY <1>2, StitchTraced
<1>4. GroupPieces(g) = CutAll(g, <<>>, blocks) BY DEF GroupPieces, CutAll
<1> HIDE DEF blocks
<1>5. \A b \in T : Cut(g, b, Split(b)) \in V BY CutTraced
<1> HIDE DEF T
<1>6. <<>> \in V /\ Len(blocks) \in Nat /\ DOMAIN blocks = 1..Len(blocks)
      /\ \A i \in 1..Len(blocks) : blocks[i] \in T
  BY <1>3
<1>7. \A i \in 1..Len(blocks) : \A v \in V : CutOn(g, v, blocks[i]) \in V
  <2>1. \A i \in 1..Len(blocks) : Cut(g, blocks[i], Split(blocks[i])) \in V BY <1>5, <1>6
  <2> QED BY <2>1 DEF CutOn
<1> HIDE DEF V
<1>8. CutAll(g, <<>>, blocks) \in V BY <1>6, <1>7, CutAllRuns, RunStays
<1> QED BY <1>4, <1>8 DEF V

\* ... and that a manual is cut into.
LEMMA PiecesTraced ==
  ASSUME NEW pages \in Seq(Readable)
  PROVE  Items(pages) \in Seq(ReadItem) /\ Pieces(pages) \in Seq(TracedPiece(Items(pages)))
<1> DEFINE h == Items(pages)
           V == Seq(TracedPiece(h))
           base == [blocks |-> <<>>, pending |-> NoName, last |-> NoTable, page |-> 0, tables |-> 0]
           blocks == PagesOn(base, pages).blocks
           merged == Parse(pages)
           groups == Group(merged)
           none == <<>>
<1>1. base \in Parsing /\ base.blocks = none /\ base.pending = NoName /\ base.last = NoTable
  BY DEF Parsing, Titles
<1>2. merged = MergeProse(blocks) BY DEF Parse, PagesOn
<1>3. Pieces(pages) = PiecesOf(none, groups) BY DEF Pieces, PiecesOf
<1>4. groups \in Seq(Grouped) BY ParseTyped, GroupTyped
<1>5. merged \in Seq(Blocks) BY ParseTyped DEF Blocks
<1> HIDE DEF base, merged, groups
<1>6. ReadUpTo(base, <<>>)
  <2>1. none \in Seq(ReadItem) /\ Len(none) = 0 OBVIOUS
  <2>2. CaptionAfter(none) = NoName BY NothingAbove
  <2> HIDE DEF none
  <2>3. AllTraced(none, none) BY <2>1 DEF AllTraced
  <2>4. ReadUpTo(base, none) BY <1>1, <2>1, <2>2, <2>3 DEF ReadUpTo, Aligned
  <2> QED BY <2>4 DEF none
<1>7. PagesOn(base, pages) \in Parsing /\ ReadUpTo(PagesOn(base, pages), h)
  <2>1. ReadUpTo(PagesOn(base, pages), h) BY <1>1, <1>6, PagesRead
  <2> QED BY <2>1 DEF ReadUpTo
<1>8. h \in Seq(ReadItem) /\ blocks \in Seq(Blocks) /\ AllTraced(h, blocks) BY <1>7 DEF Parsing, Blocks, ReadUpTo
<1> HIDE DEF h, blocks
<1>9. AllTraced(h, merged) BY <1>2, <1>8, MergeTraced
<1>10. \A g \in ToSet(groups) : GroupTraced(h, g) BY <1>5, <1>9, GroupingTraced DEF groups
<1>11. none \in V /\ Len(groups) \in Nat /\ DOMAIN groups = 1..Len(groups)
       /\ \A i \in 1..Len(groups) : groups[i] \in Grouped /\ groups[i] \in ToSet(groups)
  BY <1>4 DEF ToSet
<1> HIDE DEF none
<1>12. \A i \in 1..Len(groups) : \A v \in V : PiecesOn(v, groups[i]) \in V
  <2>1. \A i \in 1..Len(groups) : GroupPieces(groups[i]) \in V BY <1>10, <1>11, GroupPiecesTraced
  <2> QED BY <2>1 DEF PiecesOn
<1> HIDE DEF V
<1>13. PiecesOf(none, groups) \in V BY <1>11, <1>12, PiecesOfRuns, RunStays
<1> QED BY <1>3, <1>8, <1>13 DEF V, h

\* A chunk is filed as its piece is.
LEMMA ChunkOfFiled ==
  ASSUME NEW items, items \in Seq(ReadItem), NEW p \in TracedPiece(items), NEW pos,
         NEW lineage, NEW c, c = ChunkOf(p, pos, lineage), NEW x \in ToSet(c.text)
  PROVE  Traced(items, x, c)
<1> DEFINE place == Place(p.block, p.group.section, p.group.sub)
<1>1. c.text = Texts(p.lines) /\ c.kind = ChunkKind(p) /\ c.section = p.group.section
      /\ c.sub = p.group.sub
      /\ c.table = IF p.block.kind = "table" THEN p.block.caption ELSE NoName
  BY DEF ChunkOf
<1>2. Traced(items, x, place) BY <1>1 DEF TracedPiece
<1>3. place.kind = p.block.kind /\ place.section = p.group.section /\ place.sub = p.group.sub
      /\ place.table = OwnCaption(p.block)
  BY DEF Place
<1>4. (c.kind = "table") = (place.kind = "table") BY <1>1, <1>3 DEF ChunkKind, SectionKind
<1>5. place.table \in {c.table, NoName} BY <1>1, <1>3 DEF OwnCaption
<1> HIDE DEF place
<1> QED BY <1>1, <1>2, <1>3, <1>4, <1>5, TracedAs

\* Whatever the layout of a manual, every line of every chunk comes from an item
\* under whose headings, and among or beside whose tables, the chunk is filed (chunk, parse).
THEOREM ChunkWellFiled ==
  ASSUME NEW pages \in Seq(Readable)
  PROVE  WellFiled(Chunk(pages), Items(pages))
<1> DEFINE pieces == Pieces(pages)
           chunks == Chunk(pages)
           items == Items(pages)
           n == Len(pieces)
<1>1. pieces \in Seq(TracedPiece(items)) BY PiecesTraced
<1>2. items \in Seq(ReadItem) BY PiecesTraced
<1> HIDE DEF pieces, items
<1>3. n \in Nat /\ DOMAIN pieces = 1..n /\ \A i \in 1..n : pieces[i] \in TracedPiece(items) BY <1>1
<1>4. chunks = [i \in 1..n |-> ChunkOf(pieces[i], i - 1, Lineage(pieces, i))]
  BY <1>3 DEF Chunk, Chunked, pieces
<1> HIDE DEF chunks, n
<1>5. \A c \in ToSet(chunks) : \E i \in 1..n : c = chunks[i] BY <1>4 DEF ToSet
<1>6. ASSUME NEW c \in ToSet(chunks), NEW x \in ToSet(c.text)
      PROVE  \E i \in DOMAIN items : FiledFrom(items, i, x, c)
  <2>1. PICK i \in 1..n : c = chunks[i] BY <1>5
  <2>2. c = ChunkOf(pieces[i], i - 1, Lineage(pieces, i)) BY <1>4, <2>1
  <2>3. Traced(items, x, c) BY <1>2, <1>3, <2>2, ChunkOfFiled
  <2>4. DOMAIN items = 1..Len(items) BY <1>2
  <2> QED BY <2>3, <2>4 DEF Traced
<1> QED BY <1>6 DEF WellFiled, chunks, items

\* A line that a manual says once is in chunks with the place of that item only (chunk, parse).
COROLLARY LineWellFiled ==
  ASSUME NEW pages \in Seq(Readable), NEW c \in ToSet(Chunk(pages)), NEW x \in ToSet(c.text),
         NEW i \in DOMAIN Items(pages),
         \A j \in DOMAIN Items(pages) : x \in ToSet(LinesOf(Items(pages)[j])) => j = i
  PROVE  FiledFrom(Items(pages), i, x, c)
<1>1. PICK j \in DOMAIN Items(pages) : FiledFrom(Items(pages), j, x, c)
  BY ChunkWellFiled DEF WellFiled
<1>2. j = i BY <1>1 DEF FiledFrom
<1> QED BY <1>1, <1>2

\* The chunks of a document are filed as those of its draft.
LEMMA DocumentFiled ==
  ASSUME NEW chunks, NEW src \in Sources, FromSource(chunks, src), NEW d \in Documents
  PROVE  WellFiled(ChunksIn(chunks, d), Items(ShownPages(src[d].edition, src[d].cap)))
<1> DEFINE s == ChunksIn(chunks, d)
           e == src[d].edition
           cap == src[d].cap
           draft == DraftAt(src[d])
           items == Items(ShownPages(e, cap))
<1>1. InOrder(s, d, chunks) BY ChunksInOrder
<1>2. IsSeq(s) /\ \A j \in 1..Len(s) : s[j].doc = d /\ s[j] \in ToSet(chunks)
  BY <1>1 DEF InOrder
<1>3. IsSeq(chunks) BY DEF FromSource
<1>4. \A x \in ToSet(chunks) : \E i \in 1..Len(chunks) : x = chunks[i] BY <1>3, SeqFacts
<1>5. e \in OnDisk /\ cap \in Caps BY DEF Sources
<1>6. WellFiled(draft, items)
  <2>1. ShownPages(e, cap) \in Seq(Readable) BY <1>5, ShownReadable
  <2>2. WellFiled(Chunk(ShownPages(e, cap)), items) BY <2>1, ChunkWellFiled
  <2> QED BY <2>2 DEF DraftAt, Draft
<1>7. IsSeq(draft)
  <2>1. WellChunked(draft) BY <1>5, DraftWell DEF DraftAt
  <2> QED BY <2>1 DEF WellChunked
<1> HIDE DEF s, items, draft, e, cap
<1>8. ASSUME NEW c \in ToSet(s), NEW x \in ToSet(c.text)
      PROVE  \E i \in DOMAIN items : FiledFrom(items, i, x, c)
  <2>1. PICK j \in 1..Len(s) : c = s[j] BY <1>2, SeqFacts
  <2>2. PICK k \in 1..Len(chunks) : c = chunks[k] BY <1>2, <1>4, <2>1
  <2>3. c.doc = d BY <1>2, <2>1
  <2> DEFINE at == c.pos + 1
             o == draft[at]
  <2>4. at \in 1..Len(draft)
    <3>1. chunks[k].pos + 1 \in 1..Len(DraftAt(src[chunks[k].doc])) BY DEF FromSource
    <3> QED BY <2>2, <2>3, <3>1 DEF draft
  <2>5. o = DraftAt(src[chunks[k].doc])[chunks[k].pos + 1] BY <2>2, <2>3 DEF draft
  <2> HIDE DEF at, o
  <2>6. c.text = o.text /\ c.kind = o.kind /\ c.section = o.section /\ c.sub = o.sub
        /\ c.table = o.table
    BY <2>2, <2>5, SourceChunk
  <2>7. o \in ToSet(draft) BY <1>7, <2>4, SeqFacts DEF o
  <2>8. PICK i \in DOMAIN items : FiledFrom(items, i, x, o) BY <1>6, <2>6, <2>7 DEF WellFiled
  <2>9. FiledFrom(items, i, x, c) BY <2>6, <2>8 DEF FiledFrom
  <2> QED BY <2>9
<1> QED BY <1>8 DEF WellFiled, s, items, e, cap

-----------------------------------------------------------------------------
(* The inductive invariant.                                                *)

\* What VectorsInContext says of one point, and of which manual it is.
WellPoint(p) ==
  /\ p.chunk.doc \in Documents /\ p.chunk.edition \in UNION {Editions[d] : d \in Documents}
  /\ \E chunks \in Drafts[p.chunk.edition] : \E first \in 0..p.chunk.pos :
       /\ p.chunk.pos < first + Len(p.context)
       /\ first + Len(p.context) <= Len(chunks)
       /\ \A k \in DOMAIN p.context : chunks[first + k].text = p.context[k]
       /\ chunks[p.chunk.pos + 1].text = p.chunk.text

\* The steps of the two scripts.
Steps == {"idle", "read", "write", "embed", "look", "drop", "create", "upsert", "send"}

\* The job that goes with a step.
JobFits(step, j) ==
  /\ DOMAIN j = {"kind", "docs", "out", "groups", "points", "flag"}
  /\ step = "idle" <=> j = NoJob
  /\ step \in {"read", "write"} => j.kind = "chunk"
  /\ step = "embed" => j.kind \in {"load", "prepare"}
  /\ step \in {"look", "drop", "create", "upsert", "send"} => j.kind = "load"

\* Documents still to be read: each once, and none that has been read.
ToRead(docs, out) ==
  /\ IsSeq(docs)
  /\ \A d \in ToSet(docs) : d \in Documents
  /\ \A i, j \in 1..Len(docs) : docs[i] = docs[j] => i = j
  /\ \A c \in ToSet(out) : c.doc \notin ToSet(docs)

\* Until a manual is put on disk that no edition lists, what was read stays usable.
OutWell(step, out, shelved) ==
  /\ Drawn(out)
  /\ shelved => Shelved(out)
  /\ step = "write" => shelved /\ Named(out)

\* Groups and points are good ones, and between them they are a whole chunk file.
GroupsAndPoints(groups, points) ==
  /\ IsSeq(groups) /\ \A g \in ToSet(groups) : WellGroup(g)
  /\ \A p \in points : WellPoint(p)
  /\ MakeUp(groups, points)

JobWell(step, j, shelved) ==
  /\ JobFits(step, j)
  /\ ToRead(j.docs, j.out)
  /\ OutWell(step, j.out, shelved)
  /\ GroupsAndPoints(j.groups, j.points)

JobsInv ==
  /\ pc \in [Operators -> Steps] /\ DOMAIN job = Operators /\ job = [o \in Operators |-> job[o]]
  /\ \A o \in Operators : JobWell(pc[o], job[o], OnShelf)

ManualsInv == DOMAIN manual = Documents /\ \A d \in Documents : manual[d] \in OnDisk

CaptionsInv == captions \in Caps

\* The chunk file holds usable chunks, or none.
FileInv ==
  /\ file.state \in {"none", "torn", "whole"} /\ (file.state # "whole" => file.chunks = <<>>)
  /\ Drawn(file.chunks) /\ Shelved(file.chunks) /\ Named(file.chunks)

\* A whole cache file holds the vectors of the texts it is filed under.
VectorsInv ==
  \A key \in DOMAIN vectors : /\ vectors[key].state \in {"torn", "whole"}
                              /\ vectors[key].state = "whole" => vectors[key].texts = key

\* A prepared build has a point for every chunk of a file, and a file of the whole corpus.
PreparedWhole(b) ==
  (b # NoBuild /\ b.kind = "prepared") => MakeUp(<<>>, b.points) /\ CoversCorpus(b.points)

IndexInv ==
  /\ coll = NoCollection \/ \A p \in coll : WellPoint(p)
  /\ aliased \in BOOLEAN
  /\ build = NoBuild \/ (build.kind \in {"prepared", "captured"} /\ \A p \in build.points : WellPoint(p))
  /\ PreparedWhole(build)

Bounds == jobs \in 0..MaxJobs /\ edits \in 0..MaxEdits /\ faults \in 0..MaxFaults

IInv == /\ ManualsInv /\ CaptionsInv /\ FileInv /\ VectorsInv /\ IndexInv /\ JobsInv /\ Bounds

\* Before anything is read, all of it is from the manuals on disk.
LEMMA NoneDrawn ==
  ASSUME ManualsInv
  PROVE  Drawn(<<>>)
<1> DEFINE cap == [i \in Images |-> "none"]
           src == [d \in Documents |-> [edition |-> manual[d], cap |-> cap]]
<1>1. cap \in Caps BY DEF Caps
<1> HIDE DEF cap
<1>2. src \in Sources BY <1>1 DEF Sources, ManualsInv
<1> HIDE DEF src
<1>3. DrawnFrom(<<>>, src) BY NoChunks, NoneWhole DEF DrawnFrom
<1> QED BY <1>2, <1>3 DEF Drawn

\* Nothing is made up of nothing.
LEMMA NothingMadeUp ==
  ASSUME ManualsInv
  PROVE  MakeUp(<<>>, {})
<1>1. ToSet(<<>>) = {} BY DEF ToSet
<1>2. Stands(<<>>) BY <1>1, NoneDrawn DEF Stands, Shelved
<1>3. Apart(<<>>)
  <2>1. Len(<<>>) = 0 /\ 1..0 = {} OBVIOUS
  <2> QED BY <2>1 DEF Apart
<1>4. OnePointEach(<<>>, <<>>, {}) BY <1>1, <1>3, InNone DEF OnePointEach
<1> QED BY <1>2, <1>4 DEF MakeUp

\* No job has a job's locals.
LEMMA NoJobWell ==
  ASSUME ManualsInv, NEW shelved \in BOOLEAN
  PROVE  JobWell("idle", NoJob, shelved)
<1>1. JobFits("idle", NoJob) BY DEF JobFits, NoJob
<1>2. ToSet(<<>>) = {} BY DEF ToSet
<1>3. IsSeq(<<>>) BY DEF IsSeq
<1>4. ToRead(<<>>, <<>>)
  <2>1. Len(<<>>) = 0 /\ 1..0 = {} OBVIOUS
  <2> QED BY <1>2, <1>3, <2>1 DEF ToRead
<1>5. OutWell("idle", <<>>, shelved)
  <2>1. Drawn(<<>>) BY NoneDrawn
  <2>2. Shelved(<<>>) BY <1>2 DEF Shelved
  <2> QED BY <2>1, <2>2 DEF OutWell
<1>6. GroupsAndPoints(<<>>, {}) BY <1>2, <1>3, NothingMadeUp DEF GroupsAndPoints
<1>7. NoJob.docs = <<>> /\ NoJob.out = <<>> /\ NoJob.groups = <<>> /\ NoJob.points = {} BY DEF NoJob
<1> QED BY <1>1, <1>4, <1>5, <1>6, <1>7 DEF JobWell

\* A step of an operator leaves the jobs of the others alone.
LEMMA JobStep ==
  ASSUME JobsInv, NEW o \in Operators, NEW step \in Steps, NEW j,
         pc' = [pc EXCEPT ![o] = step], job' = [job EXCEPT ![o] = j],
         OnShelf' = OnShelf, JobWell(step, j, OnShelf)
  PROVE  JobsInv'
<1>1. pc' \in [Operators -> Steps] /\ DOMAIN job' = Operators
      /\ job' = [x \in Operators |-> job'[x]]
  BY DEF JobsInv
<1>2. ASSUME NEW x \in Operators PROVE JobWell(pc'[x], job'[x], OnShelf')
  <2>1. CASE x = o
    <3>1. pc'[x] = step /\ job'[x] = j BY <2>1 DEF JobsInv
    <3> QED BY <3>1
  <2>2. CASE x # o
    <3>1. pc'[x] = pc[x] /\ job'[x] = job[x] BY <2>2 DEF JobsInv
    <3>2. JobWell(pc[x], job[x], OnShelf) BY DEF JobsInv
    <3> QED BY <3>1, <3>2
  <2> QED BY <2>1, <2>2
<1> QED BY <1>1, <1>2 DEF JobsInv

\* So does an operator that leaves its command.
LEMMA JobLeft ==
  ASSUME ManualsInv, JobsInv, NEW o \in Operators, Leave(o), OnShelf' = OnShelf
  PROVE  JobsInv'
<1>1. OnShelf \in BOOLEAN BY DEF OnShelf
<1>2. JobWell("idle", NoJob, OnShelf) BY <1>1, NoJobWell
<1>3. "idle" \in Steps BY DEF Steps
<1>4. pc' = [pc EXCEPT ![o] = "idle"] /\ job' = [job EXCEPT ![o] = NoJob] BY DEF Leave, Goto
<1> QED BY <1>2, <1>3, <1>4, JobStep

\* The shelf is what the manuals on disk make it.
LEMMA ShelfKept == ASSUME UNCHANGED manual PROVE OnShelf' = OnShelf
  BY DEF OnShelf

\* At first nothing is read, and every operator is idle.
LEMMA InitInv == Init => IInv
<1> SUFFICES ASSUME Init PROVE IInv OBVIOUS
<1>1. ManualsInv BY ManualsAreRead DEF Init, ManualsInv, OnDisk
<1>2. CaptionsInv BY DEF Init, CaptionsInv, Caps
<1>3. FileInv
  <2>1. file.state = "none" /\ file.chunks = <<>> BY DEF Init
  <2>2. Drawn(<<>>) BY <1>1, NoneDrawn
  <2>3. ToSet(<<>>) = {} BY DEF ToSet
  <2> QED BY <2>1, <2>2, <2>3 DEF FileInv, Shelved, Named
<1>4. VectorsInv
  <2>1. DOMAIN vectors = {} BY DEF Init
  <2> QED BY <2>1 DEF VectorsInv
<1>5. IndexInv BY DEF Init, IndexInv, PreparedWhole
<1>6. JobsInv
  <2>1. OnShelf \in BOOLEAN BY DEF OnShelf
  <2>2. JobWell("idle", NoJob, OnShelf) BY <1>1, <2>1, NoJobWell
  <2>3. \A o \in Operators : pc[o] = "idle" /\ job[o] = NoJob BY DEF Init
  <2>4. pc \in [Operators -> Steps] BY DEF Init, Steps
  <2>5. DOMAIN job = Operators /\ job = [o \in Operators |-> job[o]] BY DEF Init
  <2> QED BY <2>2, <2>3, <2>4, <2>5 DEF JobsInv
<1>7. Bounds BY IngestionBounds DEF Init, Bounds
<1> QED BY <1>1, <1>2, <1>3, <1>4, <1>5, <1>6, <1>7 DEF IInv

-----------------------------------------------------------------------------
(* run_chunking.                                                           *)

\* run_chunking begins with nothing read and each document of the list to be read once.
LEMMA Chunking ==
  ASSUME IInv, NEW o \in Operators, StartChunking(o)
  PROVE  IInv'
<1> USE DEF IInv
<1>1. PICK docs \in {Manifest} \cup {<<d>> : d \in Documents}, allowMissing \in BOOLEAN :
        Begin(o, [NoJob EXCEPT !.kind = "chunk", !.docs = docs, !.flag = allowMissing], "read")
  BY DEF StartChunking
<1> DEFINE j == [NoJob EXCEPT !.kind = "chunk", !.docs = docs, !.flag = allowMissing]
<1>2. /\ pc' = [pc EXCEPT ![o] = "read"] /\ job' = [job EXCEPT ![o] = j]
      /\ jobs < MaxJobs /\ jobs' = jobs + 1
      /\ UNCHANGED <<manual, captions, file, vectors, coll, aliased, build, edits, faults>>
  BY <1>1 DEF Begin, Goto
<1>3. /\ j.kind = "chunk" /\ j.docs = docs /\ j.out = <<>> /\ j.groups = <<>> /\ j.points = {}
      /\ DOMAIN j = {"kind", "docs", "out", "groups", "points", "flag"}
  BY DEF NoJob
<1> HIDE DEF j
<1>4. JobFits("read", j) BY <1>3 DEF JobFits, NoJob
<1>5. ToSet(<<>>) = {} BY DEF ToSet
<1>6. ToRead(docs, <<>>)
  <2>1. CASE docs = Manifest
    <3>1. Len(docs) \in Nat /\ DOMAIN docs = 1..Len(docs) /\ docs \in Seq(ToSet(docs))
      BY <2>1, ManifestIsListed
    <3>2. \A i, k \in 1..Len(docs) : docs[i] = docs[k] => i = k BY <2>1, <3>1, ManifestIsListed
    <3>3. \A d \in ToSet(docs) : d \in Documents BY <2>1 DEF Documents
    <3> QED BY <1>5, <3>1, <3>2, <3>3 DEF ToRead, IsSeq
  <2>2. CASE docs \in {<<d>> : d \in Documents}
    <3>1. PICK d \in Documents : docs = <<d>> BY <2>2
    <3>2. DOMAIN docs = 1..1 /\ docs[1] = d /\ Len(docs) = 1 /\ docs = [i \in 1..1 |-> docs[i]] BY <3>1
    <3>3. IsSeq(docs) BY <3>2, SeqMade
    <3>4. \A i \in 1..1 : i = 1 OBVIOUS
    <3>5. ToSet(docs) = {d} BY <3>2, <3>4 DEF ToSet
    <3> QED BY <1>5, <3>2, <3>3, <3>4, <3>5 DEF ToRead
  <2> QED BY <2>1, <2>2
<1>7. OutWell("read", <<>>, OnShelf)
  <2>1. Drawn(<<>>) BY NoneDrawn
  <2> QED BY <1>5, <2>1 DEF OutWell, Shelved
<1>8. GroupsAndPoints(<<>>, {})
  <2>1. IsSeq(<<>>) BY DEF IsSeq
  <2> QED BY <1>5, <2>1, NothingMadeUp DEF GroupsAndPoints
<1>9. JobWell("read", j, OnShelf) BY <1>3, <1>4, <1>6, <1>7, <1>8 DEF JobWell
<1>10. JobsInv'
  <2>1. OnShelf' = OnShelf BY <1>2, ShelfKept
  <2> QED BY <1>2, <1>9, <2>1, JobStep DEF Steps
<1>11. Bounds' BY <1>2, IngestionBounds DEF Bounds
<1>12. ManualsInv' /\ CaptionsInv' BY <1>2 DEF ManualsInv, CaptionsInv
<1>13. FileInv' BY <1>2 DEF FileInv
<1>14. VectorsInv' /\ IndexInv' BY <1>2 DEF VectorsInv, IndexInv
<1> QED BY <1>10, <1>11, <1>12, <1>13, <1>14

\* What has been read of a document goes behind what was read of the others.
LEMMA ReadWell ==
  ASSUME NEW j, JobWell("read", j, OnShelf), ManualsInv, j.docs # <<>>, NEW cap \in Caps,
         NEW new, new = ChunksOf(Head(j.docs), cap)
  PROVE  ToRead(Tail(j.docs), j.out \o new) /\ OutWell("read", j.out \o new, OnShelf)
<1> DEFINE d == Head(j.docs)
           e == manual[d]
<1>1. ToRead(j.docs, j.out) /\ OutWell("read", j.out, OnShelf) BY DEF JobWell
<1>2. IsSeq(j.docs) /\ d \in ToSet(j.docs) /\ d \in Documents BY <1>1, SeqTail DEF ToRead
<1>3. e \in OnDisk BY <1>2 DEF ManualsInv
<1>4. new = Filed(Draft(e, cap), d, e) BY DEF ChunksOf, Filed, Draft, ShownPages
<1>5. PICK src \in Sources : FromSource(j.out, src) /\ Whole(j.out, src)
  BY <1>1 DEF OutWell, Drawn, DrawnFrom
<1>6. \A c \in ToSet(j.out) : c.doc # d BY <1>1, <1>2 DEF ToRead
<1> HIDE DEF d, e
<1> DEFINE src2 == [src EXCEPT ![d] = [edition |-> e, cap |-> cap]]
           out == j.out \o new
<1>7. FromSource(out, src2) BY <1>2, <1>3, <1>4, <1>5, <1>6, SourceAppend
<1>12. Whole(out, src2) BY <1>2, <1>3, <1>4, <1>5, <1>6, WholeAppend
<1>8. src2 \in Sources BY <1>2, <1>3, <1>4, <1>5, <1>6, SourceAppend
<1>9. \A c \in ToSet(out) : c \in ToSet(j.out) \/ (c.doc = d /\ c.edition = e)
  <2> HIDE DEF src2
  <2>1. \/ ~FromSource(out, src2)
        \/ \A c \in ToSet(out) : c \in ToSet(j.out) \/ (c.doc = d /\ c.edition = e)
    BY <1>2, <1>3, <1>4, <1>5, <1>6, SourceAppend DEF src2
  <2> QED BY <1>7, <2>1
<1> HIDE DEF src2, out
<1>10. ToRead(Tail(j.docs), out)
  <2> DEFINE t == Tail(j.docs)
             s == j.docs
  <2>1. IsSeq(s) /\ s # <<>> BY <1>2
  <2>2. IsSeq(t) BY <2>1, SeqTail
  <2>3. \A i \in 1..Len(t) : t[i] = s[i + 1] BY <2>1, SeqTail
  <2>4. d = s[1] /\ Len(t) = Len(s) - 1 BY <2>1, SeqTail DEF d
  <2>5. \A x \in ToSet(t) : x \in ToSet(s) BY <2>1, SeqTail
  <2>6. \A i, k \in 1..Len(s) : s[i] = s[k] => i = k BY <1>1 DEF ToRead
  <2>7. \A x \in ToSet(s) : x \in Documents BY <1>1 DEF ToRead
  <2>8. \A c \in ToSet(j.out) : c.doc \notin ToSet(s) BY <1>1 DEF ToRead
  <2>9. Len(s) \in Nat /\ Len(s) # 0 BY <2>1, SeqFacts DEF IsSeq
  <2> HIDE DEF t, s
  <2>10. \A i \in 1..Len(t) : i + 1 \in 1..Len(s) /\ i + 1 # 1 /\ 1 \in 1..Len(s) BY <2>4, <2>9
  <2>11. \A i, k \in 1..Len(t) : t[i] = t[k] => i = k
    <3> SUFFICES ASSUME NEW i \in 1..Len(t), NEW k \in 1..Len(t), t[i] = t[k] PROVE i = k OBVIOUS
    <3>1. i + 1 = k + 1 BY <2>3, <2>6, <2>10
    <3> QED BY <3>1
  <2>12. d \notin ToSet(t)
    <3>1. \A x \in ToSet(t) : \E i \in 1..Len(t) : x = t[i] BY <2>2, SeqFacts
    <3>2. \A i \in 1..Len(t) : t[i] # d BY <2>3, <2>4, <2>6, <2>10
    <3> QED BY <3>1, <3>2
  <2>13. \A c \in ToSet(out) : c.doc \notin ToSet(t) BY <1>9, <2>5, <2>8, <2>12
  <2>14. \A x \in ToSet(t) : x \in Documents BY <2>5, <2>7
  <2> QED BY <2>2, <2>11, <2>13, <2>14 DEF ToRead, t
<1>11. OutWell("read", out, OnShelf)
  <2>1. Drawn(out) BY <1>7, <1>8, <1>12 DEF Drawn, DrawnFrom
  <2>2. ASSUME OnShelf PROVE Shelved(out)
    <3>1. e \in Editions[d] BY <1>2, <2>2 DEF OnShelf, e
    <3>2. Shelved(j.out) BY <1>1, <2>2 DEF OutWell
    <3> QED BY <1>9, <3>1, <3>2 DEF Shelved
  <2> QED BY <2>1, <2>2 DEF OutWell
<1> QED BY <1>10, <1>11 DEF out

\* Reading a manual, or leaving because a caption cannot be had.
LEMMA ManualIsRead ==
  ASSUME IInv, NEW o \in Operators, ReadManual(o)
  PROVE  IInv'
<1> USE DEF IInv
<1>1. pc[o] = "read" /\ job[o].docs # <<>>
      /\ UNCHANGED <<manual, file, vectors, coll, aliased, build, jobs, edits, faults>>
  BY DEF ReadManual
<1>2. PICK cap :
        /\ captions' = cap /\ cap \in Caps
        /\ \/ job' = [job EXCEPT ![o].docs = Tail(@), ![o].out = @ \o ChunksOf(Head(job[o].docs), cap)]
              /\ UNCHANGED pc
           \/ Leave(o)
  <2> DEFINE d == Head(job[o].docs)
             needed == Captioned(manual[d])
             Cap(got) == [i \in Images |-> IF i \in got THEN "whole" ELSE captions[i]]
  <2>1. PICK got \in SUBSET {i \in needed : captions[i] = "none"} :
          /\ captions' = Cap(got)
          /\ \/ job' = [job EXCEPT ![o].docs = Tail(@), ![o].out = @ \o ChunksOf(d, Cap(got))]
                /\ UNCHANGED pc
             \/ Leave(o)
    BY DEF ReadManual
  <2>2. Cap(got) \in Caps BY DEF CaptionsInv, Caps
  <2> QED BY <2>1, <2>2
<1>3. OnShelf' = OnShelf BY <1>1, ShelfKept
<1>4. JobsInv'
  <2>1. CASE Leave(o) BY <1>3, <2>1, JobLeft
  <2>2. CASE job' = [job EXCEPT ![o].docs = Tail(@), ![o].out = @ \o ChunksOf(Head(job[o].docs), cap)]
             /\ UNCHANGED pc
    <3> DEFINE j == job[o]
               new == ChunksOf(Head(job[o].docs), cap)
               k == [j EXCEPT !.docs = Tail(@), !.out = @ \o new]
    <3>1. JobWell("read", j, OnShelf) BY <1>1 DEF JobsInv
    <3>2. j.docs # <<>> BY <1>1
    <3>3. new = ChunksOf(Head(j.docs), cap) OBVIOUS
    <3> HIDE DEF new
    <3>4. job' = [job EXCEPT ![o] = k] BY <2>2 DEF new
    <3> HIDE DEF j
    <3>5. ToRead(Tail(j.docs), j.out \o new) BY <1>2, <3>1, <3>2, <3>3, ReadWell
    <3>6. OutWell("read", j.out \o new, OnShelf) BY <1>2, <3>1, <3>2, <3>3, ReadWell
    <3>7. JobFits("read", j) BY <3>1 DEF JobWell
    <3>8. /\ k.docs = Tail(j.docs) /\ k.out = j.out \o new
          /\ k.groups = j.groups /\ k.points = j.points /\ k.kind = j.kind
          /\ DOMAIN k = {"kind", "docs", "out", "groups", "points", "flag"}
      BY <3>7 DEF JobFits
    <3> HIDE DEF k
    <3>9. JobFits("read", k) BY <3>7, <3>8 DEF JobFits, NoJob
    <3>10. GroupsAndPoints(k.groups, k.points) BY <3>1, <3>8 DEF JobWell
    <3>11. JobWell("read", k, OnShelf) BY <3>5, <3>6, <3>8, <3>9, <3>10 DEF JobWell
    <3>12. pc' = [pc EXCEPT ![o] = "read"] BY <1>1, <2>2 DEF JobsInv
    <3> QED BY <1>3, <3>4, <3>11, <3>12, JobStep DEF Steps
  <2> QED BY <1>2, <2>1, <2>2
<1>5. CaptionsInv' BY <1>2 DEF CaptionsInv
<1>6. ManualsInv' BY <1>1 DEF ManualsInv
<1>7. FileInv' BY <1>1 DEF FileInv
<1>8. VectorsInv' /\ IndexInv' /\ Bounds' BY <1>1 DEF VectorsInv, IndexInv, Bounds
<1> QED BY <1>4, <1>5, <1>6, <1>7, <1>8

\* The fields of a revised chunk but its revision.
LEMMA RevisedKeeps ==
  ASSUME NEW chunks, NEW src \in Sources, FromSource(chunks, src)
  PROVE  /\ FromSource(Revised(chunks), src)
         /\ Shelved(chunks) => Shelved(Revised(chunks))
         /\ \A c \in ToSet(Revised(chunks)) : \E b \in ToSet(chunks) : b.doc = c.doc
<1> DEFINE rev == Revised(chunks)
           n == Len(chunks)
<1>1. FromSource(rev, src) BY RevisedSource
<1>2. Len(rev) = n BY RevisedSource
<1>3. \A i \in 1..n : /\ rev[i] = [chunks[i] EXCEPT !.revision = rev[i].revision]
                      /\ DOMAIN chunks[i] = Fields
  BY RevisedSource
<1>4. IsSeq(chunks) /\ IsSeq(rev) BY <1>1 DEF FromSource
<1>5. \A i \in 1..n : chunks[i] \in ToSet(chunks) BY <1>4, SeqFacts
<1>6. \A c \in ToSet(rev) : \E i \in 1..n : c = rev[i] BY <1>2, <1>4, SeqFacts
<1> HIDE DEF rev, n
<1>7. \A i \in 1..n : rev[i].doc = chunks[i].doc /\ rev[i].edition = chunks[i].edition
  BY <1>3 DEF Fields
<1>8. \A c \in ToSet(rev) : \E b \in ToSet(chunks) : b.doc = c.doc /\ b.edition = c.edition
  BY <1>5, <1>6, <1>7
<1>9. Shelved(chunks) => Shelved(rev) BY <1>8 DEF Shelved
<1> QED BY <1>1, <1>8, <1>9 DEF rev

\* What has been read gets its revisions while the file is empty.
LEMMA Opening ==
  ASSUME IInv, NEW o \in Operators, OpenFile(o)
  PROVE  IInv'
<1> USE DEF IInv
<1> DEFINE j == job[o]
           rev == Revised(j.out)
           k == [j EXCEPT !.out = rev]
<1>1. /\ pc[o] = "read" /\ j.docs = <<>> /\ OnShelf
      /\ file' = [state |-> "torn", chunks |-> <<>>]
      /\ pc' = [pc EXCEPT ![o] = "write"]
      /\ UNCHANGED <<manual, captions, vectors, coll, aliased, build, jobs, edits, faults>>
  BY DEF OpenFile, Goto
<1>2. job' = [job EXCEPT ![o] = k] BY DEF OpenFile
<1>3. JobWell("read", j, OnShelf) BY <1>1 DEF JobsInv
<1> HIDE DEF j
<1>4. Drawn(j.out) /\ Shelved(j.out) BY <1>1, <1>3 DEF JobWell, OutWell
<1>5. PICK src \in Sources : FromSource(j.out, src) /\ Whole(j.out, src)
  BY <1>4 DEF Drawn, DrawnFrom
<1>6. FromSource(rev, src) BY <1>5, RevisedKeeps
<1>7. Shelved(rev) BY <1>4, <1>5, RevisedKeeps
<1>8. \A c \in ToSet(rev) : \E b \in ToSet(j.out) : b.doc = c.doc BY <1>5, RevisedKeeps
<1>9. Named(rev) BY <1>5, RevisedNamed
<1>10. OutWell("write", rev, OnShelf)
  <2>1. Drawn(rev) BY <1>5, <1>6, RevisedWhole DEF Drawn, DrawnFrom
  <2> QED BY <1>1, <1>7, <1>9, <2>1 DEF OutWell
<1>11. ToRead(j.docs, j.out) /\ JobFits("read", j) /\ GroupsAndPoints(j.groups, j.points)
  BY <1>3 DEF JobWell
<1> HIDE DEF rev
<1>12. ToRead(j.docs, rev) BY <1>8, <1>11 DEF ToRead
<1>13. /\ k.docs = j.docs /\ k.out = rev /\ k.groups = j.groups /\ k.points = j.points
       /\ k.kind = j.kind /\ DOMAIN k = {"kind", "docs", "out", "groups", "points", "flag"}
  BY <1>11 DEF JobFits
<1> HIDE DEF k
<1>14. JobFits("write", k) BY <1>11, <1>13 DEF JobFits, NoJob
<1>15. JobWell("write", k, OnShelf) BY <1>10, <1>11, <1>12, <1>13, <1>14 DEF JobWell
<1>16. JobsInv'
  <2>1. OnShelf' = OnShelf BY <1>1, ShelfKept
  <2> QED BY <1>1, <1>2, <1>15, <2>1, JobStep DEF Steps
<1>17. FileInv'
  <2>1. file'.state = "torn" /\ file'.chunks = <<>> BY <1>1
  <2>2. Drawn(<<>>) BY NoneDrawn
  <2>3. ToSet(<<>>) = {} BY DEF ToSet
  <2> QED BY <2>1, <2>2, <2>3 DEF FileInv, Shelved, Named
<1>18. ManualsInv' /\ CaptionsInv' BY <1>1 DEF ManualsInv, CaptionsInv
<1>19. VectorsInv' /\ IndexInv' /\ Bounds' BY <1>1 DEF VectorsInv, IndexInv, Bounds
<1> QED BY <1>16, <1>17, <1>18, <1>19

\* The file becomes what the job has read.
LEMMA Writing ==
  ASSUME IInv, NEW o \in Operators, WriteFile(o)
  PROVE  IInv'
<1> USE DEF IInv
<1>1. /\ pc[o] = "write" /\ file' = [state |-> "whole", chunks |-> job[o].out] /\ Leave(o)
      /\ UNCHANGED <<manual, captions, vectors, coll, aliased, build, jobs, edits, faults>>
  BY DEF WriteFile
<1>2. JobsInv'
  <2>1. OnShelf' = OnShelf BY <1>1, ShelfKept
  <2> QED BY <1>1, <2>1, JobLeft
<1>3. FileInv'
  <2>1. JobWell("write", job[o], OnShelf) BY <1>1 DEF JobsInv
  <2>2. Drawn(job[o].out) /\ Shelved(job[o].out) /\ Named(job[o].out)
    BY <2>1 DEF JobWell, OutWell
  <2>3. file'.state = "whole" /\ file'.chunks = job[o].out BY <1>1
  <2> QED BY <2>2, <2>3 DEF FileInv
<1>4. ManualsInv' /\ CaptionsInv' BY <1>1 DEF ManualsInv, CaptionsInv
<1>5. VectorsInv' /\ IndexInv' /\ Bounds' BY <1>1 DEF VectorsInv, IndexInv, Bounds
<1> QED BY <1>2, <1>3, <1>4, <1>5

-----------------------------------------------------------------------------
(* run_embed and prepare_build.                                            *)

\* The groups to embed are those of the chunk file.
LEMMA Starting ==
  ASSUME IInv, NEW o \in Operators, StartEmbedding(o)
  PROVE  IInv'
<1> USE DEF IInv
<1> DEFINE groups == GroupsByDocument(file.chunks)
<1>1. PICK kind \in {"load", "prepare"}, flag \in BOOLEAN :
        Begin(o, [NoJob EXCEPT !.kind = kind, !.flag = flag, !.groups = groups], "embed")
  BY DEF StartEmbedding
<1>2. IsSeq(groups) /\ \A g \in ToSet(groups) : WellGroup(g)
  <2>1. Drawn(file.chunks) /\ Shelved(file.chunks) BY DEF FileInv
  <2>2. PICK src \in Sources : FromSource(file.chunks, src) BY <2>1 DEF Drawn, DrawnFrom
  <2> QED BY <2>1, <2>2, GroupsWell
<1>14. MakeUp(groups, {})
  <2>1. Stands(file.chunks) BY DEF FileInv, Stands
  <2>2. PICK src \in Sources : FromSource(file.chunks, src) BY <2>1 DEF Stands, Drawn, DrawnFrom
  <2>3. In(groups) = ToSet(file.chunks) /\ Apart(groups) BY <2>2, GroupsTile
  <2> HIDE DEF groups
  <2>4. OnePointEach(file.chunks, groups, {})
    <3>1. {p.chunk : p \in {}} = {} OBVIOUS
    <3> QED BY <2>3, <3>1 DEF OnePointEach
  <2> QED BY <2>1, <2>4 DEF MakeUp
<1> HIDE DEF groups
<1> DEFINE j == [NoJob EXCEPT !.kind = kind, !.flag = flag, !.groups = groups]
<1>3. /\ pc' = [pc EXCEPT ![o] = "embed"] /\ job' = [job EXCEPT ![o] = j]
      /\ jobs < MaxJobs /\ jobs' = jobs + 1
      /\ UNCHANGED <<manual, captions, file, vectors, coll, aliased, build, edits, faults>>
  BY <1>1 DEF Begin, Goto
<1>4. /\ j.kind = kind /\ j.docs = <<>> /\ j.out = <<>> /\ j.groups = groups /\ j.points = {}
      /\ DOMAIN j = {"kind", "docs", "out", "groups", "points", "flag"}
  BY DEF NoJob
<1> HIDE DEF j
<1>5. JobFits("embed", j) BY <1>4 DEF JobFits, NoJob
<1>6. ToRead(<<>>, <<>>) /\ OutWell("embed", <<>>, OnShelf)
  <2>1. OnShelf \in BOOLEAN BY DEF OnShelf
  <2>2. JobWell("idle", NoJob, OnShelf) BY <2>1, NoJobWell
  <2>3. NoJob.docs = <<>> /\ NoJob.out = <<>> BY DEF NoJob
  <2>4. ToRead(<<>>, <<>>) /\ OutWell("idle", <<>>, OnShelf) BY <2>2, <2>3 DEF JobWell
  <2> QED BY <2>4 DEF OutWell
<1>7. GroupsAndPoints(groups, {}) BY <1>2, <1>14 DEF GroupsAndPoints
<1>8. JobWell("embed", j, OnShelf) BY <1>4, <1>5, <1>6, <1>7 DEF JobWell
<1>9. JobsInv'
  <2>1. OnShelf' = OnShelf BY <1>3, ShelfKept
  <2> QED BY <1>3, <1>8, <2>1, JobStep DEF Steps
<1>10. Bounds' BY <1>3, IngestionBounds DEF Bounds
<1>11. ManualsInv' /\ CaptionsInv' BY <1>3 DEF ManualsInv, CaptionsInv
<1>12. FileInv' BY <1>3 DEF FileInv
<1>13. VectorsInv' /\ IndexInv' BY <1>3 DEF VectorsInv, IndexInv
<1> QED BY <1>9, <1>10, <1>11, <1>12, <1>13

\* The points of a group stand in the context of its texts.
LEMMA PointsWell ==
  ASSUME NEW g, WellGroup(g), NEW p \in Points(g, Key(g))
  PROVE  WellPoint(p)
<1>1. PICK d \in Documents : \E e \in Editions[d] : \E cap \in Caps : InContext(g, d, e, Draft(e, cap))
  BY DEF WellGroup
<1>2. PICK e \in Editions[d] : \E cap \in Caps : InContext(g, d, e, Draft(e, cap)) BY <1>1
<1>3. PICK cap \in Caps : InContext(g, d, e, Draft(e, cap)) BY <1>2
<1> DEFINE n == Len(g)
           draft == Draft(e, cap)
           context == Key(g)
           first == g[1].pos
<1>4. n \in Nat /\ DOMAIN g = 1..n BY SeqFacts DEF WellGroup
<1>5. PICK i \in 1..n : p = [id |-> <<g[i].doc, g[i].pos>>, chunk |-> g[i], context |-> context]
  BY <1>4 DEF Points
<1>6. p.chunk = g[i] /\ p.context = context BY <1>5
<1>7. draft \in Drafts[e] /\ e \in UNION {Editions[x] : x \in Documents}
  <2>1. e \in UNION {Editions[x] : x \in Documents} OBVIOUS
  <2>2. Drafts[e] = {Draft(e, c) : c \in [Images -> {"none", "torn", "whole"}]}
    BY <2>1 DEF Drafts, Draft, AnyCaptions
  <2>3. draft \in {Draft(e, c) : c \in [Images -> {"none", "torn", "whole"}]} BY DEF Caps
  <2> QED BY <2>1, <2>2, <2>3
<1> HIDE DEF draft
<1>8. context = [k \in 1..n |-> g[k].text] BY <1>4 DEF Key
<1>9. Len(context) = n /\ DOMAIN context = 1..n
  <2> HIDE DEF context, n
  <2> QED BY <1>4, <1>8, SeqMade
<1> HIDE DEF context
<1>10. \A k \in 1..n : /\ g[k].doc = d /\ g[k].edition = e
                      /\ g[k].pos = first + k - 1 /\ g[k].pos \in Nat /\ g[k].pos + 1 \in 1..Len(draft)
                      /\ draft[g[k].pos + 1].text = g[k].text
  BY <1>3 DEF InContext, draft
<1> HIDE DEF n
<1>11. 1 \in 1..n /\ n \in 1..n BY <1>4
<1>12. first \in Nat BY <1>10, <1>11
<1>13. g[i].pos = first + i - 1 /\ g[i].pos \in Nat BY <1>10
<1>14. Len(draft) \in Int
  <2>1. e \in OnDisk BY DEF OnDisk
  <2>2. WellChunked(draft) BY <2>1, DraftWell DEF draft
  <2> QED BY <2>2, SeqFacts DEF WellChunked
<1> HIDE DEF first
<1>15. first \in 0..g[i].pos BY <1>4, <1>12, <1>13
<1>16. g[i].pos < first + n BY <1>4, <1>12, <1>13
<1>17. first + n <= Len(draft)
  <2>1. g[n].pos = first + n - 1 /\ g[n].pos + 1 \in 1..Len(draft) BY <1>10, <1>11
  <2> QED BY <1>4, <1>12, <1>14, <2>1
<1>18. \A k \in 1..n : draft[first + k].text = context[k]
  <2> SUFFICES ASSUME NEW k \in 1..n PROVE draft[first + k].text = context[k] OBVIOUS
  <2>1. g[k].pos = first + k - 1 BY <1>10
  <2>2. g[k].pos + 1 = first + k BY <1>4, <1>12, <2>1
  <2>3. draft[g[k].pos + 1].text = g[k].text BY <1>10
  <2>4. context[k] = g[k].text BY <1>8
  <2> QED BY <2>2, <2>3, <2>4
<1>19. draft[g[i].pos + 1].text = g[i].text BY <1>10
<1>20. g[i].doc = d /\ g[i].edition = e BY <1>10
<1> QED BY <1>6, <1>7, <1>9, <1>15, <1>16, <1>17, <1>18, <1>19, <1>20 DEF WellPoint

\* A group is taken from the cache or from the provider, in either case for its own texts.
LEMMA Embedding ==
  ASSUME IInv, NEW o \in Operators, EmbedGroup(o)
  PROVE  IInv'
<1> USE DEF IInv
<1> DEFINE j == job[o]
           group == Head(j.groups)
           key == Key(group)
           k == [j EXCEPT !.groups = Tail(@), !.points = @ \cup Points(group, key)]
           Taken == job' = [job EXCEPT ![o] = k] /\ UNCHANGED pc
           made == Stored(key, [state |-> "whole", texts |-> key])
<1>1. /\ pc[o] = "embed" /\ j.groups # <<>>
      /\ UNCHANGED <<manual, captions, file, coll, aliased, build, jobs, edits, faults>>
  BY DEF EmbedGroup
<1>2. \/ Taken /\ UNCHANGED vectors
      \/ Leave(o) /\ UNCHANGED vectors
      \/ Taken /\ vectors' = made
  <2>1. key = [i \in DOMAIN group |-> group[i].text] BY DEF Key
  <2>2. CASE Cached(key)
    <3>1. CASE vectors[key].state = "whole"
      <4>1. vectors[key].texts = key BY <2>2, <3>1 DEF VectorsInv, Cached
      <4>2. job' = [job EXCEPT ![o].groups = Tail(@),
                               ![o].points = @ \cup Points(group, vectors[key].texts)]
            /\ UNCHANGED <<vectors, pc>>
        BY <2>2, <3>1 DEF EmbedGroup
      <4> HIDE DEF group, key
      <4>3. Taken BY <4>1, <4>2
      <4> QED BY <4>2, <4>3
    <3>2. CASE vectors[key].state # "whole"
      <4>1. Leave(o) /\ UNCHANGED vectors BY <2>2, <3>2 DEF EmbedGroup
      <4> QED BY <4>1
    <3> QED BY <3>1, <3>2
  <2>3. CASE ~Cached(key)
    <3>1. \/ /\ vectors' = Stored(key, [state |-> "whole",
                                        texts |-> [i \in DOMAIN group |-> group[i].text]])
             /\ job' = [job EXCEPT ![o].groups = Tail(@),
                                   ![o].points = @ \cup Points(group, [i \in DOMAIN group |-> group[i].text])]
             /\ UNCHANGED pc
          \/ Leave(o) /\ UNCHANGED vectors
      BY <2>3 DEF EmbedGroup
    <3>2. CASE Leave(o) /\ UNCHANGED vectors BY <3>2
    <3>3. CASE /\ vectors' = Stored(key, [state |-> "whole",
                                          texts |-> [i \in DOMAIN group |-> group[i].text]])
               /\ job' = [job EXCEPT ![o].groups = Tail(@),
                                     ![o].points = @ \cup Points(group, [i \in DOMAIN group |-> group[i].text])]
               /\ UNCHANGED pc
      <4>1. vectors' = made BY <2>1, <3>3
      <4>2. job' = [job EXCEPT ![o].groups = Tail(@), ![o].points = @ \cup Points(group, key)]
        BY <2>1, <3>3
      <4> HIDE DEF group, key
      <4>3. Taken BY <3>3, <4>2
      <4> HIDE DEF Taken, made
      <4> QED BY <4>1, <4>3
    <3> QED BY <3>1, <3>2, <3>3
  <2> QED BY <2>2, <2>3
<1>3. JobWell("embed", j, OnShelf) BY <1>1 DEF JobsInv
<1>4. OnShelf' = OnShelf BY <1>1, ShelfKept
<1>5. Leave(o) => JobsInv' BY <1>4, JobLeft
<1>6. Taken => JobsInv'
  <2> SUFFICES ASSUME Taken PROVE JobsInv' OBVIOUS
  <2>1. job' = [job EXCEPT ![o] = k] OBVIOUS
  <2>2. pc' = [pc EXCEPT ![o] = "embed"] BY <1>1 DEF JobsInv
  <2> HIDE DEF j, Taken
  <2>3. ToRead(j.docs, j.out) /\ OutWell("embed", j.out, OnShelf) /\ JobFits("embed", j)
        /\ GroupsAndPoints(j.groups, j.points)
    BY <1>3 DEF JobWell
  <2>4. IsSeq(j.groups) /\ j.groups # <<>> BY <1>1, <2>3 DEF GroupsAndPoints
  <2>5. group \in ToSet(j.groups) BY <2>4, SeqTail
  <2>6. WellGroup(group) BY <2>3, <2>5 DEF GroupsAndPoints
  <2>7. \A p \in Points(group, key) : WellPoint(p) BY <2>6, PointsWell
  <2>8. IsSeq(Tail(j.groups)) BY <2>4, SeqTail
  <2>9. \A g \in ToSet(Tail(j.groups)) : g \in ToSet(j.groups) BY <2>4, SeqTail
  <2>14. MakeUp(Tail(j.groups), j.points \cup Points(group, key))
    <3>1. MakeUp(j.groups, j.points) /\ IsSeq(group) BY <2>3, <2>6 DEF GroupsAndPoints, WellGroup
    <3> QED BY <2>4, <3>1, GroupBecomesPoints
  <2> HIDE DEF group, key
  <2>10. GroupsAndPoints(Tail(j.groups), j.points \cup Points(group, key))
    BY <2>3, <2>7, <2>8, <2>9, <2>14 DEF GroupsAndPoints
  <2>11. /\ k.docs = j.docs /\ k.out = j.out /\ k.groups = Tail(j.groups)
         /\ k.points = j.points \cup Points(group, key) /\ k.kind = j.kind
         /\ DOMAIN k = {"kind", "docs", "out", "groups", "points", "flag"}
    BY <2>3 DEF JobFits
  <2> HIDE DEF k
  <2>12. JobFits("embed", k) BY <2>3, <2>11 DEF JobFits, NoJob
  <2>13. JobWell("embed", k, OnShelf) BY <2>3, <2>10, <2>11, <2>12 DEF JobWell
  <2> QED BY <1>4, <2>1, <2>2, <2>13, JobStep DEF Steps
<1>7. JobsInv'
  <2> HIDE DEF Taken, made
  <2> QED BY <1>2, <1>5, <1>6
<1>8. VectorsInv'
  <2>1. UNCHANGED vectors \/ vectors' = made
    <3> HIDE DEF Taken, made
    <3> QED BY <1>2
  <2>2. CASE UNCHANGED vectors BY <2>2 DEF VectorsInv
  <2>3. CASE vectors' = made
    <3> HIDE DEF key
    <3> QED BY <2>3 DEF VectorsInv, Stored
  <2> QED BY <2>1, <2>2, <2>3
<1>9. ManualsInv' /\ CaptionsInv' BY <1>1 DEF ManualsInv, CaptionsInv
<1>10. FileInv' BY <1>1 DEF FileInv
<1>11. IndexInv' /\ Bounds' BY <1>1 DEF IndexInv, Bounds
<1> QED BY <1>7, <1>8, <1>9, <1>10, <1>11

\* A job may go on to another step of loading.
LEMMA Onward ==
  ASSUME JobsInv, NEW o \in Operators,
         NEW step \in {"look", "drop", "create", "upsert", "send"},
         pc[o] # "idle", job[o].kind = "load", Goto(o, step), UNCHANGED <<job, manual>>
  PROVE  JobsInv'
<1> DEFINE j == job[o]
<1>1. JobWell(pc[o], j, OnShelf) BY DEF JobsInv
<1>2. j.kind = "load" OBVIOUS
<1> HIDE DEF j
<1>3. JobWell(step, j, OnShelf) BY <1>1, <1>2 DEF JobWell, JobFits, OutWell, NoJob
<1>4. pc' = [pc EXCEPT ![o] = step] BY DEF Goto
<1>5. OnShelf' = OnShelf BY ShelfKept
<1>6. ASSUME NEW x \in Operators PROVE JobWell(pc'[x], job'[x], OnShelf')
  <2>1. CASE x = o BY <1>3, <1>4, <1>5, <2>1 DEF JobsInv, j
  <2>2. CASE x # o BY <1>4, <1>5, <2>2 DEF JobsInv
  <2> QED BY <2>1, <2>2
<1>7. pc' \in [Operators -> Steps] BY <1>4 DEF JobsInv, Steps
<1> QED BY <1>6, <1>7 DEF JobsInv

\* The collection is looked at, and may be dropped.
LEMMA Ensuring ==
  ASSUME IInv, NEW o \in Operators, CheckLegacy(o) \/ EnsureCollection(o) \/ DropCollection(o)
  PROVE  IInv'
<1> USE DEF IInv
<1>1. /\ pc[o] # "idle"
      /\ UNCHANGED <<manual, captions, file, vectors, aliased, build, jobs, edits, faults>>
  BY DEF CheckLegacy, EnsureCollection, DropCollection
<1>2. job[o].kind = "load"
  <2>1. CASE CheckLegacy(o) BY <2>1 DEF CheckLegacy
  <2>2. CASE EnsureCollection(o) \/ DropCollection(o)
    BY <2>2 DEF EnsureCollection, DropCollection, JobsInv, JobWell, JobFits
  <2> QED BY <2>1, <2>2
<1>3. \/ Leave(o)
      \/ UNCHANGED job /\ \E step \in {"look", "drop", "create", "upsert"} : Goto(o, step)
  BY DEF CheckLegacy, EnsureCollection, DropCollection
<1>4. coll' = coll \/ coll' = NoCollection BY DEF CheckLegacy, EnsureCollection, DropCollection
<1>5. JobsInv'
  <2>1. CASE Leave(o)
    <3>1. OnShelf' = OnShelf BY <1>1, ShelfKept
    <3> QED BY <2>1, <3>1, JobLeft
  <2>2. ASSUME UNCHANGED job, NEW step \in {"look", "drop", "create", "upsert"}, Goto(o, step)
        PROVE  JobsInv'
    BY <1>1, <1>2, <2>2, Onward
  <2> QED BY <1>3, <2>1, <2>2
<1>6. IndexInv' BY <1>1, <1>4 DEF IndexInv
<1>7. ManualsInv' /\ CaptionsInv' BY <1>1 DEF ManualsInv, CaptionsInv
<1>8. FileInv' BY <1>1 DEF FileInv
<1>9. VectorsInv' /\ Bounds' BY <1>1 DEF VectorsInv, Bounds
<1> QED BY <1>5, <1>6, <1>7, <1>8, <1>9

\* An empty collection has no point that is wrong.
LEMMA Creating ==
  ASSUME IInv, NEW o \in Operators, CreateCollection(o)
  PROVE  IInv'
<1> USE DEF IInv
<1>1. /\ pc[o] = "create"
      /\ UNCHANGED <<manual, captions, file, vectors, aliased, build, jobs, edits, faults>>
  BY DEF CreateCollection
<1>2. Leave(o) \/ (UNCHANGED job /\ Goto(o, "upsert")) BY DEF CreateCollection
<1>3. coll' = coll \/ coll' = {} BY DEF CreateCollection
<1>4. JobsInv'
  <2>1. CASE Leave(o)
    <3>1. OnShelf' = OnShelf BY <1>1, ShelfKept
    <3> QED BY <2>1, <3>1, JobLeft
  <2>2. CASE UNCHANGED job /\ Goto(o, "upsert")
    <3>1. job[o].kind = "load" BY <1>1 DEF JobsInv, JobWell, JobFits
    <3> QED BY <1>1, <2>2, <3>1, Onward
  <2> QED BY <1>2, <2>1, <2>2
<1>5. IndexInv' BY <1>1, <1>3 DEF IndexInv
<1>6. ManualsInv' /\ CaptionsInv' BY <1>1 DEF ManualsInv, CaptionsInv
<1>7. FileInv' BY <1>1 DEF FileInv
<1>8. VectorsInv' /\ Bounds' BY <1>1 DEF VectorsInv, Bounds
<1> QED BY <1>4, <1>5, <1>6, <1>7, <1>8

\* Looking at the aliases changes no point.
LEMMA Checking ==
  ASSUME IInv, NEW o \in Operators, CheckAliases(o)
  PROVE  IInv'
<1> USE DEF IInv
<1>1. /\ pc[o] = "upsert"
      /\ UNCHANGED <<manual, captions, file, vectors, coll, aliased, build, jobs, edits, faults>>
  BY DEF CheckAliases
<1>2. Leave(o) \/ (UNCHANGED job /\ Goto(o, "send")) BY DEF CheckAliases
<1>3. JobsInv'
  <2>1. CASE Leave(o)
    <3>1. OnShelf' = OnShelf BY <1>1, ShelfKept
    <3> QED BY <2>1, <3>1, JobLeft
  <2>2. CASE UNCHANGED job /\ Goto(o, "send")
    <3>1. job[o].kind = "load" BY <1>1 DEF JobsInv, JobWell, JobFits
    <3> QED BY <1>1, <2>2, <3>1, Onward
  <2> QED BY <1>2, <2>1, <2>2
<1>4. ManualsInv' /\ CaptionsInv' BY <1>1 DEF ManualsInv, CaptionsInv
<1>5. FileInv' BY <1>1 DEF FileInv
<1>6. VectorsInv' /\ IndexInv' /\ Bounds' BY <1>1 DEF VectorsInv, IndexInv, Bounds
<1> QED BY <1>3, <1>4, <1>5, <1>6

\* Points that are replaced are replaced by points of a job.
LEMMA Upserting ==
  ASSUME IInv, NEW o \in Operators, Upsert(o)
  PROVE  IInv'
<1> USE DEF IInv
<1>1. /\ pc[o] = "send" /\ Leave(o)
      /\ coll' = IF coll = NoCollection THEN coll ELSE Upserted(coll, job[o].points)
      /\ UNCHANGED <<manual, captions, file, vectors, aliased, build, jobs, edits, faults>>
  BY DEF Upsert
<1>2. JobsInv'
  <2>1. OnShelf' = OnShelf BY <1>1, ShelfKept
  <2> QED BY <1>1, <2>1, JobLeft
<1>3. IndexInv'
  <2>1. \A p \in job[o].points : WellPoint(p) BY DEF JobsInv, JobWell, GroupsAndPoints
  <2>2. coll' = NoCollection \/ \A p \in coll' : WellPoint(p)
    <3>1. CASE coll = NoCollection BY <1>1, <3>1
    <3>2. CASE coll # NoCollection
      <4>1. \A p \in coll : WellPoint(p) BY <3>2 DEF IndexInv
      <4>2. \A p \in coll' : p \in coll \/ p \in job[o].points BY <1>1, <3>2 DEF Upserted
      <4> QED BY <2>1, <4>1, <4>2
    <3> QED BY <3>1, <3>2
  <2> QED BY <1>1, <2>2 DEF IndexInv
<1>4. ManualsInv' /\ CaptionsInv' BY <1>1 DEF ManualsInv, CaptionsInv
<1>5. FileInv' BY <1>1 DEF FileInv
<1>6. VectorsInv' /\ Bounds' BY <1>1 DEF VectorsInv, Bounds
<1> QED BY <1>2, <1>3, <1>4, <1>5, <1>6

\* A build has the points of a job.
LEMMA Preparing ==
  ASSUME IInv, NEW o \in Operators, PrepareBuild(o)
  PROVE  IInv'
<1> USE DEF IInv
<1>1. /\ pc[o] = "embed" /\ job[o].groups = <<>> /\ Leave(o)
      /\ build' = IF CoversCorpus(job[o].points)
                  THEN [kind |-> "prepared", points |-> job[o].points] ELSE build
      /\ UNCHANGED <<manual, captions, file, vectors, coll, aliased, jobs, edits, faults>>
  BY DEF PrepareBuild
<1>2. JobsInv'
  <2>1. OnShelf' = OnShelf BY <1>1, ShelfKept
  <2> QED BY <1>1, <2>1, JobLeft
<1>3. IndexInv'
  <2>1. \A p \in job[o].points : WellPoint(p) BY DEF JobsInv, JobWell, GroupsAndPoints
  <2>2. build' = build \/ (build'.kind = "prepared" /\ build'.points = job[o].points) BY <1>1
  <2>3. build' = NoBuild
        \/ (build'.kind \in {"prepared", "captured"} /\ \A p \in build'.points : WellPoint(p))
    BY <2>1, <2>2 DEF IndexInv
  <2>4. MakeUp(<<>>, job[o].points) BY <1>1 DEF JobsInv, JobWell, GroupsAndPoints
  <2>5. PreparedWhole(build')
    <3>1. CASE CoversCorpus(job[o].points)
      <4>1. build'.points = job[o].points BY <1>1, <3>1
      <4> QED BY <2>4, <3>1, <4>1 DEF PreparedWhole
    <3>2. CASE ~CoversCorpus(job[o].points)
      <4>1. build' = build BY <1>1, <3>2
      <4> QED BY <4>1 DEF IndexInv
    <3> QED BY <3>1, <3>2
  <2> QED BY <1>1, <2>3, <2>5 DEF IndexInv
<1>4. ManualsInv' /\ CaptionsInv' BY <1>1 DEF ManualsInv, CaptionsInv
<1>5. FileInv' BY <1>1 DEF FileInv
<1>6. VectorsInv' /\ Bounds' BY <1>1 DEF VectorsInv, Bounds
<1> QED BY <1>2, <1>3, <1>4, <1>5, <1>6

\* A captured build has the points of the collection.
LEMMA Capturing ==
  ASSUME IInv, NEW o \in Operators, CaptureExisting(o)
  PROVE  IInv'
<1> USE DEF IInv
<1>1. /\ coll # NoCollection /\ build' = [kind |-> "captured", points |-> coll]
      /\ UNCHANGED <<manual, captions, file, vectors, coll, aliased, pc, job, jobs, edits, faults>>
  BY DEF CaptureExisting
<1>2. JobsInv'
  <2>1. OnShelf' = OnShelf BY <1>1, ShelfKept
  <2> QED BY <1>1, <2>1 DEF JobsInv
<1>3. IndexInv'
  <2>1. build'.kind = "captured" /\ build'.points = coll BY <1>1
  <2>2. \A p \in coll : WellPoint(p) BY <1>1 DEF IndexInv
  <2> QED BY <1>1, <2>1, <2>2 DEF IndexInv, PreparedWhole
<1>4. ManualsInv' /\ CaptionsInv' BY <1>1 DEF ManualsInv, CaptionsInv
<1>5. FileInv' BY <1>1 DEF FileInv
<1>6. VectorsInv' /\ Bounds' BY <1>1 DEF VectorsInv, Bounds
<1> QED BY <1>2, <1>3, <1>4, <1>5, <1>6

-----------------------------------------------------------------------------
(* The surroundings.                                                       *)

\* Another edition comes on disk, one of those the document may have.
LEMMA Editing ==
  ASSUME IInv, NEW d \in Documents, Edit(d)
  PROVE  IInv'
<1> USE DEF IInv
<1>1. /\ edits < MaxEdits /\ edits' = edits + 1 /\ OnShelf
      /\ UNCHANGED <<captions, file, vectors, coll, aliased, build, pc, job, jobs, faults>>
  BY DEF Edit
<1>2. PICK e \in Editions[d] : manual' = [manual EXCEPT ![d] = e] BY DEF Edit
<1>3. DOMAIN manual' = Documents /\ manual'[d] = e /\ \A x \in Documents : x # d => manual'[x] = manual[x]
  BY <1>2 DEF ManualsInv
<1>4. ManualsInv'
  <2>1. e \in OnDisk BY DEF OnDisk
  <2> QED BY <1>3, <2>1 DEF ManualsInv
<1>5. OnShelf' = OnShelf
  <2>1. \A x \in Documents : manual[x] \in Editions[x] BY <1>1 DEF OnShelf
  <2>2. \A x \in Documents : manual'[x] \in Editions[x] BY <1>3, <2>1
  <2>3. OnShelf' BY <2>2 DEF OnShelf
  <2>4. OnShelf' \in BOOLEAN /\ OnShelf \in BOOLEAN BY DEF OnShelf
  <2> QED BY <1>1, <2>3, <2>4
<1>6. JobsInv' BY <1>1, <1>5 DEF JobsInv
<1>7. Bounds' BY <1>1, IngestionBounds DEF Bounds
<1>8. FileInv' BY <1>1 DEF FileInv
<1>9. CaptionsInv' /\ VectorsInv' /\ IndexInv' BY <1>1 DEF CaptionsInv, VectorsInv, IndexInv
<1> QED BY <1>4, <1>6, <1>7, <1>8, <1>9

\* An alias changes nothing but itself.
LEMMA Aliasing ==
  ASSUME IInv, AliasLegacy
  PROVE  IInv'
<1> USE DEF IInv
<1>1. /\ aliased' = TRUE
      /\ UNCHANGED <<manual, captions, file, vectors, coll, build, pc, job, jobs, edits, faults>>
  BY DEF AliasLegacy
<1>2. JobsInv'
  <2>1. OnShelf' = OnShelf BY <1>1, ShelfKept
  <2> QED BY <1>1, <2>1 DEF JobsInv
<1>3. IndexInv' BY <1>1 DEF IndexInv
<1>4. ManualsInv' /\ CaptionsInv' BY <1>1 DEF ManualsInv, CaptionsInv
<1>5. FileInv' BY <1>1 DEF FileInv
<1>6. VectorsInv' /\ Bounds' BY <1>1 DEF VectorsInv, Bounds
<1> QED BY <1>2, <1>3, <1>4, <1>5, <1>6

\* A file that is half written when its writer dies is torn.
LEMMA Dying ==
  ASSUME IInv, NEW o \in Operators, Die(o)
  PROVE  IInv'
<1> USE DEF IInv
<1>1. /\ faults < MaxFaults /\ faults' = faults + 1 /\ Leave(o)
      /\ UNCHANGED <<manual, file, coll, aliased, build, jobs, edits>>
  BY DEF Die
<1>2. JobsInv'
  <2>1. OnShelf' = OnShelf BY <1>1, ShelfKept
  <2> QED BY <1>1, <2>1, JobLeft
<1>3. VectorsInv'
  <2>1. UNCHANGED vectors \/ \E key : vectors' = Stored(key, [state |-> "torn", texts |-> <<>>])
    BY DEF Die
  <2>2. ASSUME NEW key, vectors' = Stored(key, [state |-> "torn", texts |-> <<>>]) PROVE VectorsInv'
    BY <2>2 DEF VectorsInv, Stored
  <2> QED BY <2>1, <2>2 DEF VectorsInv
<1>4. CaptionsInv'
  <2>1. captions \in Caps BY DEF CaptionsInv
  <2>2. captions' = captions \/ captions' \in Caps BY <2>1 DEF Die, Caps
  <2> QED BY <2>1, <2>2 DEF CaptionsInv
<1>5. Bounds' BY <1>1, IngestionBounds DEF Bounds
<1>6. FileInv' BY <1>1 DEF FileInv
<1>7. ManualsInv' /\ IndexInv' BY <1>1 DEF ManualsInv, IndexInv
<1> QED BY <1>2, <1>3, <1>4, <1>5, <1>6, <1>7

\* A step that changes nothing keeps everything.
LEMMA Stuttering ==
  ASSUME IInv, UNCHANGED vars
  PROVE  IInv'
<1> USE DEF IInv
<1>1. UNCHANGED <<manual, captions, file, vectors, coll, aliased, build, pc, job, jobs, edits, faults>>
  BY DEF vars
<1>2. JobsInv'
  <2>1. OnShelf' = OnShelf BY <1>1, ShelfKept
  <2> QED BY <1>1, <2>1 DEF JobsInv
<1>3. ManualsInv' /\ CaptionsInv' BY <1>1 DEF ManualsInv, CaptionsInv
<1>4. FileInv' BY <1>1 DEF FileInv
<1>5. VectorsInv' /\ IndexInv' /\ Bounds' BY <1>1 DEF VectorsInv, IndexInv, Bounds
<1> QED BY <1>2, <1>3, <1>4, <1>5

-----------------------------------------------------------------------------
(* The theorems.                                                           *)

\* Whatever the manuals, and however the operators' steps, the author's edits and
\* the deaths of processes interleave, the files, the caches, the index and every
\* job are as the inductive invariant says (run_chunking.py, run_embed.py,
\* store/index_builds.prepare_build).
THEOREM Invariant == Spec => []IInv
<1>1. Init => IInv BY InitInv
<1>2. IInv /\ [Next]_vars => IInv'
  <2> SUFFICES ASSUME IInv, [Next]_vars PROVE IInv' OBVIOUS
  <2>1. ASSUME NEW o \in Operators, StartChunking(o) PROVE IInv' BY <2>1, Chunking
  <2>2. ASSUME NEW o \in Operators, ReadManual(o) PROVE IInv' BY <2>2, ManualIsRead
  <2>3. ASSUME NEW o \in Operators, OpenFile(o) PROVE IInv' BY <2>3, Opening
  <2>4. ASSUME NEW o \in Operators, WriteFile(o) PROVE IInv' BY <2>4, Writing
  <2>5. ASSUME NEW o \in Operators, StartEmbedding(o) PROVE IInv' BY <2>5, Starting
  <2>6. ASSUME NEW o \in Operators, EmbedGroup(o) PROVE IInv' BY <2>6, Embedding
  <2>7. ASSUME NEW o \in Operators, CheckLegacy(o) \/ EnsureCollection(o) \/ DropCollection(o)
        PROVE  IInv'
    BY <2>7, Ensuring
  <2>8. ASSUME NEW o \in Operators, CreateCollection(o) PROVE IInv' BY <2>8, Creating
  <2>9. ASSUME NEW o \in Operators, CheckAliases(o) PROVE IInv' BY <2>9, Checking
  <2>10. ASSUME NEW o \in Operators, Upsert(o) PROVE IInv' BY <2>10, Upserting
  <2>11. ASSUME NEW o \in Operators, PrepareBuild(o) PROVE IInv' BY <2>11, Preparing
  <2>12. ASSUME NEW o \in Operators, CaptureExisting(o) PROVE IInv' BY <2>12, Capturing
  <2>13. ASSUME NEW o \in Operators, Die(o) PROVE IInv' BY <2>13, Dying
  <2>14. ASSUME NEW d \in Documents, Edit(d) PROVE IInv' BY <2>14, Editing
  <2>15. CASE AliasLegacy BY <2>15, Aliasing
  <2>16. CASE UNCHANGED vars BY <2>16, Stuttering
  <2> QED
    BY <2>1, <2>2, <2>3, <2>4, <2>5, <2>6, <2>7, <2>8, <2>9, <2>10, <2>11, <2>12, <2>13,
       <2>14, <2>15, <2>16 DEF Next
<1> QED BY <1>1, <1>2, PTL DEF Spec

\* Every file, cache and index has its shape, every operator without a command has
\* no locals, and no more commands, edits and deaths are counted than there may be.
THEOREM TypeCorrect == Spec => []TypeOK
<1>1. IInv => TypeOK
  <2> SUFFICES ASSUME IInv PROVE TypeOK OBVIOUS
  <2> USE DEF IInv
  <2>1. captions \in [Images -> {"none", "torn", "whole"}] BY DEF CaptionsInv, Caps
  <2>2. coll = NoCollection \/ \A p \in coll : p.chunk.doc \in Documents BY DEF IndexInv, WellPoint
  <2>3. pc \in [Operators -> {"idle", "read", "write", "embed", "look", "drop", "create", "upsert", "send"}]
    BY DEF JobsInv, Steps
  <2>4. \A o \in Operators : pc[o] = "idle" <=> job[o] = NoJob BY DEF JobsInv, JobWell, JobFits
  <2>5. \A key \in DOMAIN vectors : vectors[key].state \in {"torn", "whole"} BY DEF VectorsInv
  <2>6. aliased \in BOOLEAN /\ (build = NoBuild \/ build.kind \in {"prepared", "captured"})
    BY DEF IndexInv
  <2>7. file.state \in {"none", "torn", "whole"} /\ (file.state # "whole" => file.chunks = <<>>)
    BY DEF FileInv
  <2>8. DOMAIN manual = Documents BY DEF ManualsInv
  <2> QED BY <2>1, <2>2, <2>3, <2>4, <2>5, <2>6, <2>7, <2>8 DEF TypeOK, Bounds
<1> QED BY <1>1, Invariant, PTL

\* However a manual is laid out, no chunk is longer than the limit, or its last
\* sentence or row if that alone is longer, and the overlap carried into it
\* (_split_prose, _split_table, _split_flowchart).
THEOREM PiecesFitHolds == Spec => []PiecesFit
<1>1. IInv => PiecesFit
  <2> SUFFICES ASSUME IInv, NEW o \in Operators, NEW c \in ToSet(job[o].out) PROVE Fits(c)
    BY DEF PiecesFit, Fits
  <2>1. PICK src \in Sources : FromSource(job[o].out, src)
    BY DEF IInv, JobsInv, JobWell, OutWell, Drawn, DrawnFrom
  <2>2. PICK i \in 1..Len(job[o].out) : c = job[o].out[i] BY <2>1, SeqFacts DEF FromSource
  <2> QED BY <2>1, <2>2, SourceChunk
<1> QED BY <1>1, Invariant, PTL

\* No two chunks of a manual share a lineage, and in the chunk file a revision of a
\* lineage is one text, whichever versions of a manual there are, in whatever order
\* and with whatever edits (chunk, assign_chunk_revisions).
THEOREM RevisionNamesHolds == Spec => []RevisionNamesText
<1>1. IInv => RevisionNamesText
  <2> SUFFICES ASSUME IInv PROVE RevisionNamesText OBVIOUS
  <2>1. ASSUME NEW o \in Operators PROVE Distinct(job[o].out)
    <3>1. PICK src \in Sources : FromSource(job[o].out, src)
      BY DEF IInv, JobsInv, JobWell, OutWell, Drawn, DrawnFrom
    <3> QED BY <3>1, SourceDistinct
  <2>2. Named(file.chunks) BY DEF IInv, FileInv
  <2> QED BY <2>1, <2>2 DEF RevisionNamesText, Distinct, Named
<1> QED BY <1>1, Invariant, PTL

\* A vector in the legacy collection or in a build was computed from neighbouring
\* texts of one edition of its manual, its own among them, whatever the caches held,
\* which groups were planned and which commands ran at the same time
\* (embed_by_document, _plan_groups, embed_document).
THEOREM VectorsInContextHolds == Spec => []VectorsInContext
<1>1. IInv => VectorsInContext
  <2> SUFFICES ASSUME IInv PROVE VectorsInContext OBVIOUS
  <2>1. \A p \in (IF coll = NoCollection THEN {} ELSE coll)
                 \cup (IF build = NoBuild THEN {} ELSE build.points) : WellPoint(p)
    BY DEF IInv, IndexInv
  <2> QED BY <2>1 DEF VectorsInContext, WellPoint
<1> QED BY <1>1, Invariant, PTL

\* Whatever the manuals, their layout and their captions, a job that has chunked a
\* document has of it all that one reading of its pages says, nothing of it out of
\* order, and no row of a table twice (parse, _group, _stitch, _merge, _split_prose,
\* _split_table, _split_flowchart, run_chunking).
THEOREM ReadingPreservedHolds == Spec => []ReadingPreserved
<1>1. IInv => ReadingPreserved
  <2> SUFFICES ASSUME IInv, NEW o \in Operators, NEW d \in Documents, JustRead(o, d)
               PROVE  \E cap \in AnyCaptions :
                        SaysAll(ChunksIn(job[o].out, d), ShownPages(EditionRead(o, d), cap))
    BY DEF ReadingPreserved
  <2> DEFINE out == job[o].out
             c == CHOOSE x \in ToSet(out) : x.doc = d
  <2>1. PICK src \in Sources : FromSource(out, src) /\ Whole(out, src)
    BY DEF IInv, JobsInv, JobWell, OutWell, Drawn, DrawnFrom
  <2>2. c \in ToSet(out) /\ c.doc = d
    <3>1. PICK i \in DOMAIN out : out[i].doc = d BY DEF JustRead
    <3>2. out[i] \in ToSet(out) BY <3>1 DEF ToSet
    <3> QED BY <3>1, <3>2
  <2>3. EditionRead(o, d) = c.edition BY DEF EditionRead
  <2> HIDE DEF c, out
  <2>4. /\ src[c.doc].edition = c.edition /\ src[c.doc].cap \in Caps
        /\ SaysAll(ChunksIn(out, c.doc), ShownPages(src[c.doc].edition, src[c.doc].cap))
    BY <2>1, <2>2, DocumentSaysAll
  <2>5. src[d].cap \in AnyCaptions BY <2>2, <2>4 DEF Caps, AnyCaptions
  <2>6. SaysAll(ChunksIn(out, d), ShownPages(EditionRead(o, d), src[d].cap)) BY <2>2, <2>3, <2>4
  <2> QED BY <2>5, <2>6 DEF out
<1> QED BY <1>1, Invariant, PTL

\* Whatever the manuals, their layout and their captions, every line of every chunk
\* of a job comes from an item of the edition it read that has the headings the
\* chunk is filed under; a row of a table that has a caption of its own is filed under
\* that caption, whatever table stands before it (parse, _group, _stitch, _split_prose,
\* _split_table, _split_flowchart, chunk, run_chunking).
THEOREM FiledHolds == Spec => []FiledUnderItsHeading
<1>1. IInv => FiledUnderItsHeading
  <2> SUFFICES ASSUME IInv, NEW o \in Operators, NEW d \in Documents, JustRead(o, d)
               PROVE  \E cap \in AnyCaptions :
                        WellFiled(ChunksIn(job[o].out, d), Items(ShownPages(EditionRead(o, d), cap)))
    BY DEF FiledUnderItsHeading
  <2> DEFINE out == job[o].out
             c == CHOOSE x \in ToSet(out) : x.doc = d
  <2>1. PICK src \in Sources : FromSource(out, src)
    BY DEF IInv, JobsInv, JobWell, OutWell, Drawn, DrawnFrom
  <2>2. c \in ToSet(out) /\ c.doc = d
    <3>1. PICK i \in DOMAIN out : out[i].doc = d BY DEF JustRead
    <3>2. out[i] \in ToSet(out) BY <3>1 DEF ToSet
    <3> QED BY <3>1, <3>2
  <2>3. EditionRead(o, d) = c.edition BY DEF EditionRead
  <2> HIDE DEF c, out
  <2>4. PICK i \in 1..Len(out) : c = out[i] BY <2>1, <2>2, SeqFacts DEF FromSource
  <2>5. c.edition = src[d].edition BY <2>1, <2>2, <2>4, SourceChunk
  <2>6. src[d].cap \in AnyCaptions BY DEF Sources, Caps, AnyCaptions
  <2>7. WellFiled(ChunksIn(out, d), Items(ShownPages(src[d].edition, src[d].cap)))
    BY <2>1, DocumentFiled
  <2> QED BY <2>3, <2>5, <2>6, <2>7 DEF out
<1> QED BY <1>1, Invariant, PTL

\* Whatever the chunk file was written for, however the author edits meanwhile and
\* whichever caches and commands there are, a prepared build has every manual of the
\* corpus, in one edition, and of it all that one reading of its pages says
\* (prepare_build, _snapshot, embed_by_document, run_chunking).
THEOREM BuildIsWholeHolds == Spec => []BuildIsWhole
<1>1. IInv => BuildIsWhole
  <2> DEFINE points(d) == PreparedPoints(d)
             n(d) == Cardinality(points(d))
             said(d) == AtPositions(points(d), n(d))
  <2>1. ASSUME \A d \in Documents : points(d) # {} /\ OneEdition(d, points(d), n(d), said(d))
        PROVE  BuildIsWhole
    BY <2>1 DEF BuildIsWhole, OneEdition, AtPositions
  <2>2. ~(build # NoBuild /\ build.kind = "prepared") => BuildIsWhole BY DEF BuildIsWhole
  <2>3. ASSUME IInv, build # NoBuild, build.kind = "prepared", NEW d \in Documents
        PROVE  points(d) # {} /\ OneEdition(d, points(d), n(d), said(d))
    <3>1. MakeUp(<<>>, build.points) /\ CoversCorpus(build.points)
      BY <2>3 DEF IInv, IndexInv, PreparedWhole
    <3>2. points(d) = {p \in build.points : p.chunk.doc = d} BY DEF PreparedPoints
    <3>3. points(d) # {}
      <4>1. d \in {p.chunk.doc : p \in build.points} BY <3>1 DEF CoversCorpus
      <4>2. PICK p \in build.points : p.chunk.doc = d BY <4>1
      <4> QED BY <3>2, <4>2
    <3> HIDE DEF points
    <3> QED BY <3>1, <3>2, <3>3, PointsSayAll
  <2> HIDE DEF points, n, said
  <2> QED BY <2>1, <2>2, <2>3
<1> QED BY <1>1, Invariant, PTL
================================================================================
